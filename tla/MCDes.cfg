SPECIFICATION BothSpec
CONSTANTS
  Rounds = 4
  RoundKeys = {1, 2}
  Halves <- MCHalves
  Blocks <- MCBlocks
  XorHalf <- MCXor
  F <- MCF
  IP <- MCIP
  IP_inv <- MCIP_inv
  Schedules <- MCSchedules
  Vectors <- MCVectors
  NoVector = NoVector
PROPERTIES RoundTrip KnownAnswers
