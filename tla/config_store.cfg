SPECIFICATION Spec
CONSTANTS
    BodyWords = 3
    v1        = v1
    v2        = v2
    Magic     = Magic
    Erased    = Erased
    Garbage   = Garbage
    Torn      = Torn
    NoSave    = NoSave
    NoResult  = NoResult
    Word     <- MCWord
    Faults    = {"reset", "flash"}
    MaxFaults = 3
INVARIANTS
    StoreInv
PROPERTIES
    ImplementsRegister
