SPECIFICATION Spec
CONSTANTS
    a1 = a1
    a2 = a2
    c1 = c1
    c2 = c2
    NoConn = NoConn
    Address = {a1, a2}
    LocalProxy = a1
    LocalList <- NoLocal
    Public = {a1, a2}
    Conn = {c1, c2}
    MaxKeep = 1
    MaxSpeed = 1
    DeadAt = 2
    MinReuse = 1
    UseCache = TRUE
    Updates = TRUE
    StrictClients = TRUE
INVARIANTS
    PoolBounded
    PoolRowsUsable
PROPERTIES
    RefreshKeepsLeases
    HangUpReturnsLeases
    StopFinishes
    ImplementsLeases
