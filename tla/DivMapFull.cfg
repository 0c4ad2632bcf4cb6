SPECIFICATION FairSpec
CONSTANTS
  MaxKey = 4
  Keys <- MCKeys
  Values = {"u"}
  Hash <- MCHash
  InitCap = 4
  OutOfMemory = FALSE
  Loops = FALSE
PROPERTIES SetEnds
