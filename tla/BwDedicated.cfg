SPECIFICATION Spec
CONSTANTS
    Concurrency = 3
    Threads = 2
    XferSize = 2
    BufSize = 7
    MaxMoves = 4
INVARIANTS TransferAccepted PrefixMoved BytesAccounted
PROPERTIES RefinesRing
CHECK_DEADLOCK FALSE
