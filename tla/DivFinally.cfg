SPECIFICATION Spec
CONSTANTS
  NoError = "NONE"
  Main = "main"
  Programs = {"matchMissed"}
  Functions <- MCFunctions
  IR <- MCIR
  Labels <- MCLabels
  Types <- TypeNames
  Subtypes <- Ancestors
  Codes = {"range", "internal"}
  Marks <- MarkIds
  Scripts <- MCScripts
  MaxScript = 3
INVARIANTS FinallyAlwaysRuns
CHECK_DEADLOCK FALSE
