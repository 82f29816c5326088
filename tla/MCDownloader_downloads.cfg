SPECIFICATION Spec
CONSTANTS
    w1 = w1
    w2 = w2
    p1 = p1
    p2 = p2
    DirectPipe = DirectPipe
    NoPipe = NoPipe
    NoChunk = NoChunk
    Worker = {w1, w2}
    Proxy = {p1, p2}
    MaxSize = 5
    MaxArg = 2
    Sizes = {5}
    Args = {1, 2, 3}
    TransferSize = 5
    TransferArg = 2
    MaxConcurrent = 2
    MaxProxies = 3
    Modes = {TRUE, FALSE}
    OriginAnswers = TRUE
    OtherBodies = FALSE
INVARIANTS
    SavedIsWhole
PROPERTIES
    Ends
