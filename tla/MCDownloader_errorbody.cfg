SPECIFICATION Safety
CONSTANTS
    w1 = w1
    w2 = w2
    p1 = p1
    p2 = p2
    DirectPipe = DirectPipe
    NoPipe = NoPipe
    NoChunk = NoChunk
    Worker = {w1, w2}
    Proxy = {p1, p2}
    MaxSize = 3
    MaxArg = 2
    Sizes = {3}
    Args = {2}
    TransferSize = 3
    TransferArg = 2
    MaxConcurrent = 2
    MaxProxies = 2
    Modes = {FALSE}
    OriginAnswers = FALSE
    OtherBodies = TRUE
INVARIANTS
    SavedIsWhole
