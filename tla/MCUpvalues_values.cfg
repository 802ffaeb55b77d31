CONSTANTS
  a = a
  b = b
  Fun = Fun
  Null = Null
  Unborn = Unborn
  Gone = Gone
  Exits <- OnlyLastCaptured
  Values <- TwoValues
  Results <- OnlyNull
  StackSize = 5
  MaxFrames = 3
  MaxDepth = 2
  MaxVariables = 2
  MaxUpvalues = 2
SPECIFICATION Spec
SYMMETRY ValueSymmetry
INVARIANT TypeOK
INVARIANT NoClosureReadsNull
INVARIANT OpenPointsToItsVariable
INVARIANT SharedExactlyByVariable
PROPERTY ImplementsLexicalVariables
