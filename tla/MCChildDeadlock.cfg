SPECIFICATION Spec
CONSTANTS
  BufSize = 2
  PipeCap = 2
  MaxStdin = 1
  MaxPending = 0
  OutLimit = 1
  ErrLimit = 3
  ExitCodes <- OneExitCode
  ReadErrors = FALSE
INVARIANTS
  NeverDeadlock
CHECK_DEADLOCK FALSE
