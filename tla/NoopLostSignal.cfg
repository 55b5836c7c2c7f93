SPECIFICATION FairSpec
CONSTANTS
    c1 = c1
    c2 = c2
    c3 = c3
    Clients = {c1, c2, c3}
    Iters = 1
    Warmup = 0
PROPERTIES ServerFinishes
CHECK_DEADLOCK FALSE
