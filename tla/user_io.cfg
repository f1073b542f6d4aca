\* The three transports and both ways to run the handler.  Two bytes fill a
\* buffer and one does not, three operations are reads and writes of any form,
\* and a write goes out in two pieces.
CONSTANTS
    Transports = {"TCP", "SSL", "Unix"}
    Modes = {"coro", "thread"}
    BufSizes = {2}
    Parts = 2
    Disciplined = TRUE
    MaxBytes = 2
    MaxOps = 3
SPECIFICATION FairSpec
INVARIANTS ReadsAreInOrder WritesAreWhole
PROPERTIES ReadIsAnswered EndedHandlerReleasesSession
CHECK_DEADLOCK FALSE
