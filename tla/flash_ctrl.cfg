SPECIFICATION FairSpec
CONSTANTS
    WordBytes   = 4
    SectorBytes = 8
    Sectors     = 2
    Values      = {"x", "y"}
    Erased      = "erased"
    Spoilt      = "spoilt"
    Calls      <- MCCalls
    NoCall      = NoCall
    NoResult    = NoResult
    NoOp        = NoOp
    Faults      = {"error", "silent", "slow", "locked", "reset"}
    MaxFaults   = 2
INVARIANTS
    TypeOK
    OkMeansDone
    CleanBetweenCalls
    RelockedOnReturn
    NoStaleFailure
PROPERTIES
    CallReturns
