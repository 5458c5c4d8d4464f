\* Every opcode, with operands on both sides of every bound
CONSTANTS
  NULL = NULL
  UNINIT = UNINIT
  Lines <- LinesAll
  Symbols <- Declared
  Notation <- Texts
SPECIFICATION Spec
INVARIANTS FieldsInPlace OffsetsReach AcceptedExactly NoAssertionFails ParserAgrees
