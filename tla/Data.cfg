\* Directives, operands at the edges of their ranges, rejected lines
CONSTANTS
  AddrSpace = 16
  L1 = L1
  L2 = L2
  Labels = {L1}
  Lines <- LinesData
  NULL = NULL
  UNINIT = UNINIT
  FREED = FREED
  Faults = {}
  MaxLines = 4
  MaxWords = 8
SPECIFICATION Spec
INVARIANTS EntriesAtTheirLocation FilesInOrder EveryWordComputed MissingOrigIsReported
PROPERTIES ImplementsAssemblySpec
