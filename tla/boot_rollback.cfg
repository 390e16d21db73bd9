SPECIFICATION FairSpec
CONSTANTS
    NoImage     = NoImage
    Torn        = Torn
    NoSlot      = NoSlot
    LastGoodMod = 1
    Versions   <- TwoVersions
    Crashing   <- MCCrashing
    ErasedBy   <- ProductionErasedBy
    Faults      = {"power", "reset"}
    MaxFaults   = 3
INVARIANTS
    ConfigMatchesRunningApp
    RollbackBound
    OtaWritesInactive
PROPERTIES
    RecoveryIsLastResort
    NeverBricks
    CrashingAppIsReplaced
    SwapHonoured
