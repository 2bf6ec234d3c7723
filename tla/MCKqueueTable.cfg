SPECIFICATION Spec
CONSTANTS
  MaxCalls = 7
  MaxEvents = 2
INVARIANTS ListHoldsChanges TableEnds
PROPERTY CommitsEverything
CHECK_DEADLOCK FALSE
