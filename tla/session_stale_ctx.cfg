\* A kept-alive request that runs in a thread of its own.
CONSTANTS
    IoThreads = {t1}
    Modes = {"thread"}
    KeepAlive = TRUE
    PeerFails = FALSE
    MaxCtx = 2
    MaxReads = 1
    MaxWrites = 0
    MaxExpired = 0
SPECIFICATION Spec
INVARIANTS ContextsInUseAreAlive
CHECK_DEADLOCK FALSE
