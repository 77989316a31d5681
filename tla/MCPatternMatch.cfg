SPECIFICATION FairSpec
CONSTANTS
  Chars = {"a", "b"}
  Any = "{{any}}"
  MaxPattern = 4
  MaxActual = 4
INVARIANTS
  TypeOK
  MatchIsSound
  OpenEndedIsComplete
PROPERTIES
  Terminates
\* pattern_match returns
CHECK_DEADLOCK FALSE
