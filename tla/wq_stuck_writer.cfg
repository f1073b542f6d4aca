\* A thread posts a write and then blocks on another; the connection fails.
CONSTANTS
    Blocking = {b1}
    Posting = {p1}
    MaxWrites = 2
    MaxTimeouts = 1
    MaxReads = 0
    PeerFails = TRUE
SPECIFICATION FairSpec
PROPERTIES BlockedWriterReturns
CHECK_DEADLOCK FALSE
