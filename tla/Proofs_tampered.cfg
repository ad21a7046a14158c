\* The public inputs of a proof are changed: test_invalid_proof_rejection
SPECIFICATION Spec
CONSTANTS
  Modulus = 257
  Blake <- MCBlake
  Circuits <- MCCircuits
  CacheSize = 1
  Inputs <- MCInputs
  MaxProofs = 2
  MaxBatch = 2
INVARIANT
  TamperedRejected
CHECK_DEADLOCK FALSE
