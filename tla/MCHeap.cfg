SPECIFICATION Spec
CONSTANTS
  e1 = e1
  e2 = e2
  e3 = e3
  e4 = e4
  Elems <- MCElems
  Key <- MCKey
  NoElem = NoElem
  Cap = 5
INVARIANTS HeapOrder IsMinheapStrict AddReturnsPosition
PROPERTIES PopTakesLeast CallsEnd ImplementsQueue
