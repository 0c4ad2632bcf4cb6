SPECIFICATION Spec
CONSTANTS
    Items = {a, b}
    Views = {v1}
    Indices <- MCIndices
    InitCap = 1
    MaxVersion = 3
    OutOfMemory = TRUE
    CutsInvalid = FALSE
SYMMETRY ItemSymmetry
INVARIANTS
    TypeOK
    ValidViewsFit
PROPERTIES
    LoopsReadElements
    ImplementsViewedList
