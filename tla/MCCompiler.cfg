SPECIFICATION Spec
CONSTANTS
  Texts <- MCTexts
  Slashed <- MCSlashed
  WithFile <- MCWithFile
  ParsedTests <- MCParsedTests
  Length = Length
  Chars = Chars
INVARIANTS
  TypeOK
  RunnerCanRun
  CompiledAsMeant
  StoreIsFaithful
\* a test is compiled, or rejected
CHECK_DEADLOCK FALSE
