\* A program that fills tokenized_lines leaves no sentinel
CONSTANTS
  AddrSpace = 8
  L1 = L1
  L2 = L2
  Labels = {L1}
  Lines <- LinesFull
  NULL = NULL
  UNINIT = UNINIT
  FREED = FREED
  Faults = {}
  MaxLines = 3
  MaxWords = 8
SPECIFICATION FairSpec
PROPERTIES Terminates
