\* The same programs and texts.
SPECIFICATION Spec
CONSTANTS
  Programs <- Written
  Texts <- AnyTexts
INVARIANT CompilerGetsNoNull
CHECK_DEADLOCK FALSE
