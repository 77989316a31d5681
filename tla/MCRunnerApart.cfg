SPECIFICATION Spec
CONSTANTS
  Jobs <- MCJobs
  Workload <- ApartWorkload
  TempNames <- MCTempNames
  NameLen <- MCNameLen
INVARIANTS
  TypeOK
  NothingLeftBehind
PROPERTY
  ImplementsTestReport
