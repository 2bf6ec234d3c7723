SPECIFICATION Spec
CONSTANTS
  s1 = s1
  s2 = s2
  Suites <- MCSuites
  NoSuite = NoSuite
  UnitCount = 2
  MaxResources = 2
INVARIANTS ResourcesReleased StatsMatch JumpsLand
PROPERTY RunEnds
CHECK_DEADLOCK FALSE
