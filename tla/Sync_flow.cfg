\* One peer, one request, one answer: test_sync_flow
SPECIFICATION Spec
CONSTANTS
  p1 = p1
  p2 = p2
  k1 = k1
  k2 = k2
  Peers = {p1}
  Keys = {k1}
  BlockNumber <- MCBlockNumber
  BatchSize = 10
  RetryLimit = 3
  Timeout = 2
  StallTimeout = 3
  MaxTime = 3
  MaxSubmitted = 1
PROPERTIES
  AnswerCompletes
