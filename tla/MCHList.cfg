SPECIFICATION Spec
CONSTANTS
  h1 = h1
  h2 = h2
  a = a
  b = b
  c = c
  d = d
  Heads <- MCHeads
  Nodes <- MCNodes
  NULL = NULL
INVARIANT WellLinked
PROPERTY CallsChangeChains
CHECK_DEADLOCK FALSE
