SPECIFICATION Spec
CONSTANTS
  MaxKey = 2
  Keys <- MCKeys
  Values = {"u", "v"}
  Hash <- Colliding
  InitCap = 2
  OutOfMemory = FALSE
  Loops = FALSE
INVARIANTS TypeOK OrderMatchesTable EntriesAreFound HalfEmpty
PROPERTIES ImplementsOrderedMap
