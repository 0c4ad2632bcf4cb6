SPECIFICATION Spec
CONSTANTS
  NoError = "NONE"
  Main = "main"
  Programs <- AllPrograms
  Functions <- MCFunctions
  IR <- MCIR
  Labels <- MCLabels
  Types <- TypeNames
  Subtypes <- Ancestors
  Codes = {"range", "internal"}
  Marks <- MarkIds
  Scripts <- MCScripts
  MaxScript = 3
INVARIANTS TypeOK ErrorSlotClear
CHECK_DEADLOCK FALSE
