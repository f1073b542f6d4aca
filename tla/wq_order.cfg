\* Two blocking threads and a posting one, the read of a kept-alive request, a
\* peer that may stop reading for ever or drop the connection, and a timer that
\* may expire twice.
CONSTANTS
    Blocking = {b1, b2}
    Posting = {p1}
    MaxWrites = 3
    MaxTimeouts = 2
    MaxReads = 1
    PeerFails = TRUE
SPECIFICATION FairSpec
INVARIANTS TypeOK OneWriteOfTheFront WireInPostOrder PromiseTellsWhatWasSent
           QueueNeverIdleBeforeError
PROPERTIES ImplementsOrderedStream BlockedWriterReturnsOrIsStranded
           EveryWriteIsSentOrClosed
CHECK_DEADLOCK FALSE
