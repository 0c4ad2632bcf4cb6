SPECIFICATION FairSpec
CONSTANTS
  NoError = "NONE"
  Main = "main"
  Programs <- MCPrograms
  Functions <- MCFunctions
  IR <- MCIR
  Labels <- MCLabels
  Types <- TypeNames
  Subtypes <- Ancestors
  Codes = {"range", "internal"}
  Marks <- MarkIds
  Scripts <- MCScripts
  MaxScript = 2
INVARIANTS IInv OutcomeMatchesReference HandlerStackIsLexical RaiseHasCause
PROPERTIES DeliveredToInnermostTry LeavesOnlyUncovered Termination
CHECK_DEADLOCK FALSE
