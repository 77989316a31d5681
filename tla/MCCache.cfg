SPECIFICATION Spec
CONSTANTS
  Jobs = {j1, j2}
  Sources <- ThreeSources
  Contents = {old, new}
  Size <- SameSize
  MaxEntries = 2
  MaxRuns = 3
  MaxEdits = 1
  EditsAnyTime = FALSE
  SavesOverlap = FALSE
INVARIANTS
  TypeOK
  NeverStale
PROPERTIES
  SaveCanBeLoaded
SYMMETRY Symmetry
\* the bounds end every behaviour
CHECK_DEADLOCK FALSE
