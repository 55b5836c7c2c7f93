SPECIFICATION FairSpec
CONSTANTS
    Concurrency = 4
    PoolCount = 2
    XferSize = 2
    TotalSize = 5
INVARIANTS TypeOK AllWritten ReportedTotal OneWriter
PROPERTIES Termination RefinesQueue
CHECK_DEADLOCK FALSE
