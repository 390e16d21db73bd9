SPECIFICATION OpenSpec
CHECK_DEADLOCK FALSE
CONSTANTS
    Short = Short
    Long  = Long
    Images    <- OneImage
    Allowed   <- OneImage
    NumChunks <- OneNumChunks
    SeqMod    = 4
    NoChunk   = NoChunk
    Erased    = Erased
    Spoilt    = Spoilt
    NoFrame   = NoFrame
    NoInstall = NoInstall
    MAX_CONSEC_ERRS   = 16
    RETRIES_PER_FRAME = 5
    ResponseTicks     = 4
    MaxSessions = 1
    Faults      = {"resp_lost"}
    MaxFaults   = 1
INVARIANTS
    RetransmitRecovers
