\* Proofs made, evicted and verified, alone and in batches
SPECIFICATION Spec
CONSTANTS
  Modulus = 257
  Blake <- MCBlake
  Circuits <- MCCircuits
  CacheSize = 1
  Inputs <- MCInputs
  MaxProofs = 2
  MaxBatch = 2
INVARIANTS
  TypeOK
  CacheIsMade
  HonestAccepted
  AcceptedIsJustified
  BatchAgrees
  ProofsShowNoStep
CHECK_DEADLOCK FALSE
