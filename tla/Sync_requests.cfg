\* Two peers, requests that time out, are answered and change peers
SPECIFICATION Spec
CONSTANTS
  p1 = p1
  p2 = p2
  k1 = k1
  k2 = k2
  Peers = {p1, p2}
  Keys = {k2}
  BlockNumber <- MCBlockNumber
  BatchSize = 2
  RetryLimit = 2
  Timeout = 1
  StallTimeout = 2
  MaxTime = 3
  MaxSubmitted = 4
INVARIANTS
  TypeOK
  BatchesBounded
  InFlightIsAlive
  NothingLost
SYMMETRY PeerSymmetry
