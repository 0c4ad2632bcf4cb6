SPECIFICATION MCSpec
CONSTANTS
  Width = 4
  MaxTries = 3
  Protos <- SampleProtos
  Compiled <- MCCompiled
  Code <- MCCode
  Scopes <- MCScopes
INVARIANTS
  OutcomeMatchesReference
  HandlersAreLive
  EmittedCodeIsScoped
  OperandsFit
  ValidViewsFit
  IndexedIsThere
  EmittedIrIsValid
PROPERTIES
  Termination
CHECK_DEADLOCK FALSE
