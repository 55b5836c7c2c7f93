SPECIFICATION FairSpec
CONSTANTS
    c1 = c1
    c2 = c2
    Workers = {1, 2, 3, 4}
    Pools = {c1, c2}
    PoolOf <- Owner
    Step = 1
    Total = 2
INVARIANTS TypeOK DownAfterWork AloneServed
PROPERTIES AloneFinishes
CHECK_DEADLOCK FALSE
