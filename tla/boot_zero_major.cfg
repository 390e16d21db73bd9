SPECIFICATION Spec
CONSTANTS
    NoImage     = NoImage
    Torn        = Torn
    NoSlot      = NoSlot
    LastGoodMod = 1
    Versions   <- ZeroMajorVersions
    Crashing   <- MCCrashing
    ErasedBy   <- ProductionErasedBy
    Faults      = {}
    MaxFaults   = 1
INVARIANTS
    EqualOrHigherAllowed
