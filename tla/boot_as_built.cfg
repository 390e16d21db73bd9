SPECIFICATION Spec
CONSTANTS
    NoImage     = NoImage
    Torn        = Torn
    NoSlot      = NoSlot
    LastGoodMod = 1
    Versions   <- TwoVersions
    Crashing   <- MCCrashing
    ErasedBy   <- AsBuiltErasedBy
    Faults      = {}
    MaxFaults   = 1
INVARIANTS
    AppImageIntact
