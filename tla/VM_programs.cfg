\* Every short program and some long ones, executed up to three times
SPECIFICATION Spec
CONSTANTS
  Programs <- SmallPrograms
  Slot <- MCSlot
  GasLimits = {5, 420, 32600}
  MaxStack = 5
  Half = 256
  MaxCalls = 3
  MaxLength = 3
INVARIANTS
  TypeOK
  StackBounded
  GasPaysForSteps
  ContractsPaid
  PermanentErrors
PROPERTY
  SuccessIsFinal
CHECK_DEADLOCK FALSE
