\* Labels, relocation and the two output files, with I/O errors
CONSTANTS
  AddrSpace = 16
  L1 = L1
  L2 = L2
  Labels = {L1, L2}
  Lines <- LinesLabels
  NULL = NULL
  UNINIT = UNINIT
  FREED = FREED
  Faults = {"getline", "fopen", "fprintf", "fwrite"}
  MaxLines = 5
  MaxWords = 7
SPECIFICATION Spec
INVARIANTS TypeOK ReferencesResolve RelocatedOnce OneWordPerSlot
PROPERTIES ImplementsAssemblySpec UsesSymbolTable
