SPECIFICATION Spec
CONSTANTS
    NoImage     = NoImage
    Torn        = Torn
    NoSlot      = NoSlot
    LastGoodMod = 1
    Versions   <- TwoVersions
    Crashing   <- MCCrashing
    ErasedBy   <- ProductionErasedBy
    Faults      = {"power"}
    MaxFaults   = 1
INVARIANTS
    PendingMeansRequested
