SPECIFICATION Spec
CONSTANTS
    p1 = p1
    p2 = p2
    Proc = {p1, p2}
    None = None
    Stale = Stale
    Commands = {"start", "signal"}
    Racing = {FALSE}
    MaxCrashes = 0
INVARIANTS
    NamesHeld
