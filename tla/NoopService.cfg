SPECIFICATION FairProgramSpec
CONSTANTS
    c1 = c1
    c2 = c2
    c3 = c3
    Clients = {c1, c2, c3}
    Iters = 6
    Warmup = 1
    Forwards = 3
    Latencies = {1, 2, 3}
INVARIANTS ProgramTypeOK LeavesWhenServiced HandleIdle TornDownInOrder StatisticsOrdered
PROPERTIES ServiceEnds MixedEnds
CHECK_DEADLOCK FALSE
