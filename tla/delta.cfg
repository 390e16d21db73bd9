SPECIFICATION FairSpec
CHECK_DEADLOCK FALSE
CONSTANTS
    Span      = 5
    Base      = "base"
    Floor     = 2
    Erased    = Erased
    Spoilt    = Spoilt
    NoFile    = NoFile
    Files    <- MCFiles
    MaxPushes = 3
    Faults    = {"flash", "read", "reset"}
    MaxFaults = 3
INVARIANTS
    TypeOK
    PatchIntact
    NothingSpoilt
PROPERTIES
    EndSucceeds
