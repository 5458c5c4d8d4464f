\* The table and its entries, with every fault
CONSTANTS
  AddrSpace = 16
  L1 = L1
  L2 = L2
  Labels = {L1}
  Lines <- LinesFew
  NULL = NULL
  UNINIT = UNINIT
  FREED = FREED
  Faults = {"malloc", "fclose", "getline", "fopen", "fprintf", "fwrite"}
  MaxLines = 4
  MaxWords = 9
SPECIFICATION FairSpec
INVARIANTS NoGaps WrittenThenFreed NoUseAfterFree OnlyBlocksLeak LossesAreReported
PROPERTIES Terminates
