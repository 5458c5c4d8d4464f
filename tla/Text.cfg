SPECIFICATION Spec
CONSTANTS
  Inputs <- InputsAll
  MAX_NUM_TOKENS = 3
  Code <- CodesAll
INVARIANTS
  TokensOfLine
  StringIsItsLiteral
  WriterBehindReader
  FittingLinesAreSafe
