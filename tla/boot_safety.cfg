SPECIFICATION Spec
CONSTANTS
    NoImage     = NoImage
    Torn        = Torn
    NoSlot      = NoSlot
    LastGoodMod = 2
    Versions   <- MCVersions
    Crashing   <- MCCrashing
    ErasedBy   <- ProductionErasedBy
    Faults      = {"power", "reset", "flash", "read"}
    MaxFaults   = 2
INVARIANTS
    TypeOK
    AppImageIntact
    CapIsBackstop
    NoStaleConfirmation
PROPERTIES
    FloorNeverDrops
