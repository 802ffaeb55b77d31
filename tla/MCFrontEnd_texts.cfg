\* Programs of every construct, and every text of up to five tokens or four
\* characters of some.
SPECIFICATION Spec
CONSTANTS
  Programs <- Written
  Texts <- AnyTexts
INVARIANT TypeOK
INVARIANT ReadsWhatIsWritten
INVARIANT LosesNoName
INVARIANT HolesOnlyWhereKnown
INVARIANT FailsOnlyWhereKnown
INVARIANT LinesAreCounted
PROPERTY EveryTextIsRead
CHECK_DEADLOCK FALSE
