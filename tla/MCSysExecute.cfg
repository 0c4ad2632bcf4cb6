CONSTANTS
    PipeCap = 1
    Chunk = 1
    MaxInput = 2
    MaxOutput = 3
    Dispositions = {FALSE, TRUE}
    SystemFails = TRUE
SPECIFICATION FairSpec
INVARIANTS IInv DescriptorsClosed OutputComplete InputComplete
PROPERTY CallEnds
