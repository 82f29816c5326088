SPECIFICATION Spec
CONSTANTS
    Total = 6
    MustTest = 5
    Cap = 3
    WantLive = 2
    Modes = {"scoring", "target"}
INVARIANTS
    TypeOK
    HandlesCounted
    LeavesOutOnlyWhenFull
PROPERTIES
    Ends
