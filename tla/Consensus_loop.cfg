\* The timer loop: proposers, timeouts, the transaction pool, validator maps of every kind
SPECIFICATION FairSpec
CONSTANTS
  v1 = v1
  v2 = v2
  v3 = v3
  v4 = v4
  poor = poor
  a0 = a0
  b0 = b0
  t1 = t1
  t2 = t2
  t3 = t3
  NoBlock = NoBlock
  Nodes <- LoopNodes
  Honest <- LoopNodes
  ValidatorMaps <- LoopMaps
  Stake <- LoopStake
  StakeThreshold = 2
  Blocks = {a0}
  Number <- LoopNumber
  Transactions = {t1, t2, t3}
  TxSize <- AllTxSize
  MaxBlockSize = 2
  MaxPendingTx = 2
  TimeoutTicks = 2
  RoundModulus = 2
  MaxDue = 2
  MaxSubmitted = 3
INVARIANT
  PoolIsFIFO
PROPERTIES
  FinalizesOrEnds
  PoolDrains
