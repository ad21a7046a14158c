\* A facade is made for a program: every test of proof_tests.rs begins so
SPECIFICATION ZSpec
CONSTANTS
  Programs <- Sums
  Slot <- MCSlot
  GasLimits = {50}
  MaxStack = 5
  Half = 256
  MaxCalls = 2
  MaxSteps = 6
  Modulus = 257
  Blake <- MCBlake
  CacheSize = 2
  MaxProofs = 2
INVARIANT
  NewSucceeds
CHECK_DEADLOCK FALSE
