CONSTANTS
  UINT8_MAX = 3
  MaxRounds = 8
  MaxReads = 4
  Programs <- Logical
  Inputs <- Booleans
SPECIFICATION Spec
PROPERTY LeavesTheValue
CHECK_DEADLOCK FALSE
