CONSTANTS
  x = x
  y = y
  a = a
  b = b
  Undefined = Undefined
  Names <- TwoNames
  Natives <- NoNative
  Values <- TwoValues
  Initially = a
  Shared = FALSE
  MaxChunks = 3
  MaxInstructions = 3
  MaxIdentifiers = 3
  MaxCalls = 2
SPECIFICATION Spec
INVARIANT MentionsNameTheirGlobal
PROPERTY ImplementsGlobalVariables
CHECK_DEADLOCK FALSE
SYMMETRY Symmetry
VIEW ProgramView
