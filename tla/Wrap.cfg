\* Programs that fill tokenized_lines, exactly or with a block over its end
CONSTANTS
  AddrSpace = 8
  L1 = L1
  L2 = L2
  Labels = {L1}
  Lines <- LinesFull
  NULL = NULL
  UNINIT = UNINIT
  FREED = FREED
  Faults = {}
  MaxLines = 4
  MaxWords = 15
SPECIFICATION Spec
INVARIANTS NoOutputWithoutSentinel
