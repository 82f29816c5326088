SPECIFICATION Safety
CONSTANTS
    w1 = w1
    w2 = w2
    p1 = p1
    p2 = p2
    NoProxy = NoProxy
    Misread = Misread
    Main = Main
    NoThread = NoThread
    Keepalive = Keepalive
    Worker = {w1, w2}
    Proxy = {p1, p2}
    MaxFaults = 1
    MaxEnds = 0
INVARIANTS
    UsersHold
