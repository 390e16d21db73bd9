SPECIFICATION Spec
CHECK_DEADLOCK FALSE
CONSTANTS
    Short = Short
    Long  = Long
    Images    <- TwoImages
    Allowed   <- TwoImages
    NumChunks <- TwoNumChunks
    SeqMod    = 4
    NoChunk   = NoChunk
    Erased    = Erased
    Spoilt    = Spoilt
    NoFrame   = NoFrame
    NoInstall = NoInstall
    MAX_CONSEC_ERRS   = 5
    RETRIES_PER_FRAME = 3
    ResponseTicks     = 1
    MaxSessions = 3
    Faults      = {"frame_lost", "frame_bad", "resp_lost", "late", "flash", "read", "reset"}
    MaxFaults   = 4
INVARIANTS
    TypeOK
    InStep
    ChunkFitsItsCell
    DoneMeansInstalled
