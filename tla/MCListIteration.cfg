SPECIFICATION LoopSpec
CONSTANTS
  a = a
  b = b
  c = c
  d = d
  Nodes <- MCNodes
  NULL = NULL
  NoLoop = NoLoop
  SwapPredecessor = FALSE
INVARIANTS DoublyLinked VisitsTheList
PROPERTIES RefinesRings CallsKeepPromises LoopsEnd
