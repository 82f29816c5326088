SPECIFICATION Safety
CONSTANTS
    a1 = a1
    a2 = a2
    c1 = c1
    c2 = c2
    NoConn = NoConn
    Address = {a1, a2}
    LocalProxy = a1
    LocalList <- OneLocal
    Public = {a2}
    Conn = {c1, c2}
    MaxKeep = 2
    MaxSpeed = 1
    DeadAt = 1
    MinReuse = 1
    UseCache = TRUE
    Updates = TRUE
    StrictClients = TRUE
SYMMETRY ConnSymmetry
INVARIANTS
    TypeOK
    LeaseExclusive
    BusyIffLeased
    LeaseInv
PROPERTIES
    RefreshKeepsLeases
