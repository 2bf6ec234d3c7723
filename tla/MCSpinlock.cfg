SPECIFICATION LockSpec
CONSTANTS
  t1 = t1
  t2 = t2
  t3 = t3
  Threads <- MCThreads
  SpinLimit = 2
INVARIANT OnlyTheFirstIsTurnedAway
PROPERTY LockDoesNotWait
