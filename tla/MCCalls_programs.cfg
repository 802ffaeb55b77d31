\* Some two-line programs; calls two deep; two instances.
SPECIFICATION Spec
VIEW View
CONSTANTS
  UserClasses <- ThreeClasses
  Names <- TwoNames
  Literals <- SomeLiterals
  Programs <- SomePrograms
  Types <- SomeTypes
  Arities <- ZeroOrOne
  Properties <- OneName
  MaxFrames = 3
  MaxStack = 4
  MaxInstances = 2
INVARIANT TypeOK
INVARIANT Framing
INVARIANT MethodsAreNearest
PROPERTY CallersUntouched
PROPERTY ImplementsDynamicDispatch
CHECK_DEADLOCK FALSE
