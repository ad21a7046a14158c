\* Three peers for two places, up to two connections each, failing messages
SPECIFICATION NetSpec
CONSTANTS
  p1 = p1
  p2 = p2
  p3 = p3
  k1 = k1
  Peers = {p1, p2, p3}
  Keys = {k1}
  BlockNumber <- MCBlockNumber
  BatchSize = 1
  RetryLimit = 1
  Timeout = 0
  StallTimeout = 1
  MaxTime = 2
  MaxSubmitted = 2
  MaxPeers = 2
  MaxConnections = 2
  MaxStarts = 3
INVARIANTS
  NetTypeOK
  PeersAgree
  StatusCountsPeers
  GivenUpEndLoops
SYMMETRY PeerSymmetry
CHECK_DEADLOCK FALSE
