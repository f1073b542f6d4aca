\* Two io threads, kept-alive requests in pieces.
CONSTANTS
    IoThreads = {t1, t2}
    Modes = {"no_yield"}
    KeepAlive = TRUE
    PeerFails = FALSE
    MaxCtx = 2
    MaxReads = 4
    MaxWrites = 0
    MaxExpired = 0
SPECIFICATION Spec
INVARIANTS BufferReadExclusive
CHECK_DEADLOCK FALSE
