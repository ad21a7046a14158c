\* Two accounts with one storage key, three blocks, three updates or reverts
SPECIFICATION Spec
CONSTANTS
  Addresses = {a1, a2}
  Keys = {k1}
  AccountUpdates <- MCAccountUpdates
  MaxBlock = 2
  MaxUpdates = 3
INVARIANTS
  TypeOK
  CacheIsTrie
  StaleOnlyInItsBlock
  RootIsSnapshotted
  NothingStored
SYMMETRY Symmetry
CHECK_DEADLOCK FALSE
