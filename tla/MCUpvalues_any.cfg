CONSTANTS
  a = a
  b = b
  Fun = Fun
  Null = Null
  Unborn = Unborn
  Gone = Gone
  Exits <- AnyProgram
  Values <- OneValue
  Results <- OnlyNull
  StackSize = 5
  MaxFrames = 2
  MaxDepth = 2
  MaxVariables = 3
  MaxUpvalues = 3
SPECIFICATION Spec
VIEW ControlView
INVARIANT StackMatchesLocals
INVARIANT OpenListSorted
PROPERTY ClosedForGood
