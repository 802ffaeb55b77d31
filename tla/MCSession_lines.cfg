\* The REPL's editor and what interpret leaves from line to line.
CONSTANTS
  Letters <- TwoLetters
  SizeMax = 7
  MaxLine = 2
  MaxLines = 3
  FrameLimit = 2
  FrameSize = 2
  MaxValues = 5
SPECIFICATION Spec
INVARIANT TypeOK
INVARIANT ReadsOutsideOnlyWhenEmpty
INVARIANT FramesAreAccountedFor
INVARIANT CrashesOnlyWithFramesFull
INVARIANT RunsInItsOwnFrames
INVARIANT StorageSuffices
INVARIANT ExitCodeIsTheOutcome
PROPERTY OlderThenNewer
PROPERTY ImplementsTextCursor
CONSTRAINT Apart
CHECK_DEADLOCK FALSE
