\* The programs of the repository's tests, with the limits of the code
SPECIFICATION Spec
CONSTANTS
  Programs <- TestPrograms
  Slot <- MCSlot
  GasLimits = {1000000}
  MaxStack = 1024
  Half = 256
  MaxCalls = 1
  MaxLength = 0
INVARIANT
  TestsSucceed
CHECK_DEADLOCK FALSE
