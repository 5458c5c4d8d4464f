\* A .BLKW 0 at the end of the source
CONSTANTS
  AddrSpace = 8
  L1 = L1
  L2 = L2
  Labels = {L1}
  Lines <- LinesBlkw0
  NULL = NULL
  UNINIT = UNINIT
  FREED = FREED
  Faults = {}
  MaxLines = 3
  MaxWords = 5
SPECIFICATION Spec
INVARIANTS OneWordPerSlot
