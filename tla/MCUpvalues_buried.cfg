CONSTANTS
  a = a
  b = b
  Fun = Fun
  Null = Null
  Unborn = Unborn
  Gone = Gone
  Exits <- AnyBlock
  Values <- OneValue
  Results <- OnlyNull
  StackSize = 6
  MaxFrames = 2
  MaxDepth = 2
  MaxVariables = 2
  MaxUpvalues = 2
SPECIFICATION Spec
INVARIANT NoClosureReadsNull
