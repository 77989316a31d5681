SPECIFICATION ParentFair
CONSTANTS
  BufSize = 2
  PipeCap = 2
  MaxStdin = 3
  MaxPending = 1
  OutLimit = 5
  ErrLimit = 3
  ExitCodes <- TwoExitCodes
  ReadErrors = TRUE
INVARIANTS
  TypeOK
  CaptureIsComplete
  NeverStuck
PROPERTIES
  InputIsWhole
  ImplementsProgramRun
  EndedIsReported
  Finishes
\* outside the bounds the two processes may really wait for each other
CHECK_DEADLOCK FALSE
