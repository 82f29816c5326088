SPECIFICATION Spec
CONSTANTS
    p1 = p1
    p2 = p2
    Proc = {p1, p2}
    None = None
    Stale = Stale
    Commands = {"start", "stop", "client", "signal"}
    Racing = {TRUE, FALSE}
    MaxCrashes = 2
SYMMETRY Interchangeable
INVARIANTS
    TypeOK
    LoneNamesHeld
    FailuresHaveCause
    StopMeansGone
    NothingLeft
