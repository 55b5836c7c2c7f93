SPECIFICATION FairSpec
CONSTANTS
    w1 = w1
    w2 = w2
    Workers = {w1, w2}
    Slots = 2
    Step = 1
    Rounds = 2
    MaxTakes = 3
    MmapBuffer = FALSE
    PauseOutlastsSend = FALSE
INVARIANTS ClientAssert
CHECK_DEADLOCK FALSE
