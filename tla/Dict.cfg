\* The lists and the iterator implement a map that is changed while it is visited
CONSTANTS
  K1 = K1
  K2 = K2
  K3 = K3
  K4 = K4
  Keys = {K1, K2, K3, K4}
  Hash <- HashOf
  DICTSIZE = 3
  Nodes = {n1, n2, n3, n4}
  Cardinal = 3
  NULL = NULL
  FREED = FREED
  LEAKED = LEAKED
  Faults = {"malloc", "fprintf"}
SYMMETRY Symmetry
SPECIFICATION Spec
INVARIANTS TypeOK ChainsSound IteratorIsSafe
PROPERTIES ImplementsSymbolTable
