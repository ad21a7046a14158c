\* Competing blocks, a dishonest validator, redelivered blocks; no transactions
SPECIFICATION Spec
CONSTANTS
  v1 = v1
  v2 = v2
  v3 = v3
  v4 = v4
  poor = poor
  a0 = a0
  b0 = b0
  t1 = t1
  t2 = t2
  t3 = t3
  NoBlock = NoBlock
  Nodes <- VotingNodes
  Honest <- VotingHonest
  ValidatorMaps <- VotingMaps
  Stake <- VotingStake
  StakeThreshold = 1
  Blocks = {a0, b0}
  Number <- VotingNumber
  Transactions = {}
  TxSize <- AllTxSize
  MaxBlockSize = 1
  MaxPendingTx = 1
  TimeoutTicks = 1
  RoundModulus = 1
  MaxDue = 1
  MaxSubmitted = 0
INVARIANTS
  TypeOK
  FinalizedJustified
  PendingAwaitsVotes
  ParentStaysFinalized
PROPERTIES
  ImplementsFinality
  VotesKept
