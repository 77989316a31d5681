SPECIFICATION Spec
CONSTANTS
  Chars = {"a", "b"}
  Any = "{{any}}"
  MaxPattern = 3
  MaxActual = 4
INVARIANTS
  MatchIsComplete
\* pattern_match returns
CHECK_DEADLOCK FALSE
