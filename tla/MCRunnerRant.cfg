SPECIFICATION Spec
CONSTANTS
  Jobs <- OneJob
  Workload <- RantWorkload
  TempNames <- MCTempNames
  NameLen <- MCNameLen
INVARIANTS
  VerdictsAreDeserved
