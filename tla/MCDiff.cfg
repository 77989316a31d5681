SPECIFICATION Spec
CONSTANTS
  BlobSize = 48
  Alignment = 16
  ListCapacity = 1
  Chars <- McChars
  NL = "newline"
  ExpectedTexts <- ExpectedSample
  ActualTexts <- ActualSample
  LinesMatch <- McMatch
  OtherSizes = {1, 33}
  MaxOther = 1
INVARIANTS
  TypeOK
  BlocksApart
  WalkAgreesWithTable
  DiffIsWhole
  DiffIsShortest
\* the process exits
CHECK_DEADLOCK FALSE
