\* One io thread, routes of every mode, kept-alive requests in pieces.  The
\* peer may fall silent at any time or drop the connection, but reads what it
\* is sent.
CONSTANTS
    IoThreads = {t1}
    Modes = {"no_yield", "async", "thread"}
    KeepAlive = TRUE
    PeerFails = TRUE
    MaxCtx = 2
    MaxReads = 3
    MaxWrites = 2
    MaxExpired = 2
SPECIFICATION FairSpec
INVARIANTS BufferReadExclusive HandlersSequential MiddlewareContextIsAlive
PROPERTIES SilentPeerIsReleased KeptAliveIsReadAgain
CHECK_DEADLOCK FALSE
