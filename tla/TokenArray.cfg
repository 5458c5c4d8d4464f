\* A line of more words than the array of tokens holds
SPECIFICATION Spec
CONSTANTS
  Inputs <- Long
  MAX_NUM_TOKENS = 3
  Code <- CodesAll
INVARIANTS TokensFit
