SPECIFICATION Spec
CONSTANTS
    WordBytes   = 4
    SectorBytes = 8
    Sectors     = 2
    Values      = {"x", "y"}
    Erased      = "erased"
    Spoilt      = "spoilt"
    Calls      <- ChunkCalls
    NoCall      = NoCall
    NoResult    = NoResult
    NoOp        = NoOp
    Faults      = {}
    MaxFaults   = 0
INVARIANTS
    FaultFreeCallSucceeds
