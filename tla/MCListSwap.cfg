SPECIFICATION Spec
CONSTANTS
  a = a
  b = b
  c = c
  d = d
  Nodes <- MCNodes
  NULL = NULL
  SwapPredecessor = TRUE
INVARIANT DoublyLinked
