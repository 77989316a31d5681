SPECIFICATION Spec
CONSTANTS
  Options <- McOptions
  Target <- McTarget
  DefaultTests = "./tests"
  TestNames <- McTestNames
  Disks <- McDisks
  Fleeting <- McFleeting
  MaxPath = 4
  MaxSources = 2
  PerLine = 2
  Invocations <- McInvocations
  Means <- McMeans
  Content <- McContent
  Broken <- McBroken
INVARIANTS
  TypeOK
  SearchIsExact
  FailsForAReason
  ReportIsWhole
  ProgressReaches100
  FailuresAreExplained
  CacheAsTold
PROPERTY
  Ends
\* the process exits
CHECK_DEADLOCK FALSE
