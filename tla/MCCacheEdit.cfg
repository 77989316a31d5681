SPECIFICATION Spec
CONSTANTS
  Jobs = {j1, j2}
  Sources <- OneSource
  Contents = {old, new}
  Size <- SameSize
  MaxEntries = 1
  MaxRuns = 2
  MaxEdits = 1
  EditsAnyTime = TRUE
  SavesOverlap = FALSE
INVARIANTS
  NeverStale
SYMMETRY Symmetry
\* the bounds end every behaviour
CHECK_DEADLOCK FALSE
