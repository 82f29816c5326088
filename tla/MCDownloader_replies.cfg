SPECIFICATION Safety
CONSTANTS
    w1 = w1
    w2 = w2
    p1 = p1
    p2 = p2
    DirectPipe = DirectPipe
    NoPipe = NoPipe
    NoChunk = NoChunk
    Worker = {w1, w2}
    Proxy = {p1, p2}
    MaxSize = 20
    MaxArg = 12
    Sizes <- SmallSizes
    Args <- SmallArgs
    TransferSize = 5
    TransferArg = 2
    MaxConcurrent = 2
    MaxProxies = 2
    Modes = {TRUE, FALSE}
    OriginAnswers = FALSE
    OtherBodies = TRUE
SYMMETRY Interchangeable
CONSTRAINT TransfersOfOneFile
INVARIANTS
    TypeOK
    Partition
    FairShares
    ChunksConserved
    NoEarlyExit
    PipesExclusive
    AllReturned
    PendingIncomplete
PROPERTIES
    PartsGrow
