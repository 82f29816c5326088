SPECIFICATION Safety
CONSTANTS
    a1 = a1
    c1 = c1
    c2 = c2
    NoConn = NoConn
    Address = {a1}
    LocalProxy = a1
    LocalList <- NoLocal
    Public = {a1}
    Conn = {c1, c2}
    MaxKeep = 2
    MaxSpeed = 1
    DeadAt = 2
    MinReuse = 1
    UseCache = FALSE
    Updates = TRUE
    StrictClients = TRUE
PROPERTIES
    OnlyProbedRowsLeasable
