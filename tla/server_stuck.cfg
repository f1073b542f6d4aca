\* One connection of an async route with Compression, answered with a file.
CONSTANTS
    Threads = {t1, t2}
    Requests = {r1}
    Files = {r1}
    Streamed = {}
    Modes = {"async"}
    Compressed = TRUE
    MayStop = FALSE
SPECIFICATION FairSpec
PROPERTIES EveryConnectionIsServed
CHECK_DEADLOCK FALSE
