SPECIFICATION FairSpec
CONSTANTS
  Directives = {"test", "endtest", "given"}
  Others = {"newline", "(", ")", ",", "=", "string", "name", "space", "char"}
  MaxText = 10
  MaxPlain = 15
  MaxContent = 3
  MaxRequirements = 2
INVARIANTS
  TypeOK
  LookaheadIsCurrent
  ParsedAsWritten
  AcceptsTests
PROPERTIES
  Terminates
\* the parser returns, or ends jcunit
CHECK_DEADLOCK FALSE
