SPECIFICATION FairSpec
CONSTANTS
  MaxKey = 2
  Keys <- MCKeys
  Values = {"u"}
  Hash <- Colliding
  InitCap = 4
  OutOfMemory = TRUE
  Loops = TRUE
INVARIANTS EntriesAreFound LoopNeverRaises
PROPERTIES SetEnds
