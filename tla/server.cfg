\* Two io threads, two connections of any mode, one of them with a body that is
\* read on and a file for an answer; clients may stall or go at every point and
\* the server may be stopped.
CONSTANTS
    Threads = {t1, t2}
    Requests = {r1, r2}
    Files = {r1}
    Streamed = {r1}
    Modes = {"no_yield", "async", "thread"}
    Compressed = FALSE
    MayStop = TRUE
SPECIFICATION FairSpec
INVARIANTS SomeThreadServes StrandIsNotBlocked
PROPERTIES EveryConnectionIsServed StopEndsThreads
CHECK_DEADLOCK FALSE
