CONSTANTS
  x = x
  y = y
  a = a
  b = b
  Undefined = Undefined
  Names <- TwoNames
  Natives <- OneNative
  Values <- OneValue
  Initially = a
  Shared = TRUE
  MaxChunks = 2
  MaxInstructions = 3
  MaxIdentifiers = 3
  MaxCalls = 2
SPECIFICATION Spec
INVARIANT IndexInRange
CHECK_DEADLOCK FALSE
