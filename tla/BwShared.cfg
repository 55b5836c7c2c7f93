SPECIFICATION FairSpec
CONSTANTS
    Concurrency = 3
    Threads = 0
    XferSize = 2
    BufSize = 5
    MaxMoves = 3
INVARIANTS TypeOK HolderRuns NeverStuck
PROPERTIES Termination
CHECK_DEADLOCK FALSE
