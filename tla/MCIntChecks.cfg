SPECIFICATION Spec
CONSTANTS
    IntMax = 15
    Width = 5
    Pow2 <- MCPow2
CHECK_DEADLOCK FALSE
INVARIANTS
    IInv
PROPERTIES
    SumsAreExact
    AgreesWithReference
