SPECIFICATION FairSpec
CONSTANTS
    NumUlts = 3
    MaxOps = 2
INVARIANTS TypeOK StartTimeTaken SetterFindsEventual NothingOutlivesArguments EverySetCounted
PROPERTIES Termination
CHECK_DEADLOCK FALSE
