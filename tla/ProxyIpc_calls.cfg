SPECIFICATION Spec
CONSTANTS
    w1 = w1
    w2 = w2
    p1 = p1
    NoProxy = NoProxy
    Misread = Misread
    Main = Main
    NoThread = NoThread
    Keepalive = Keepalive
    Worker = {w1, w2}
    Proxy = {p1}
    MaxFaults = 2
    MaxEnds = 1
INVARIANTS
    TypeOK
    InStep
    LeasesAgree
    TargetFirst
PROPERTIES
    CallsReturn
    LeasesEnd
