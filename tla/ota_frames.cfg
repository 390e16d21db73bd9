SPECIFICATION FairOpenSpec
CHECK_DEADLOCK FALSE
CONSTANTS
    Short = Short
    Long  = Long
    Images    <- OneImage
    Allowed   <- OneImage
    NumChunks <- OneNumChunks
    SeqMod    = 4
    NoChunk   = NoChunk
    Erased    = Erased
    Spoilt    = Spoilt
    NoFrame   = NoFrame
    NoInstall = NoInstall
    MAX_CONSEC_ERRS   = 16
    RETRIES_PER_FRAME = 5
    ResponseTicks     = 4
    MaxSessions = 1
    Faults      = {"frame_lost", "frame_bad", "late", "flash", "read"}
    MaxFaults   = 5
INVARIANTS
    RetransmitRecovers
PROPERTIES
    HostEnds
    ReceiverReturns
