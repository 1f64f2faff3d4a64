SPECIFICATION FairSpec
CONSTANTS
    t1 = t1
    t2 = t2
    t3 = t3
    Thread <- MCTwo
    MainTid = t1
    Host = host
    NoTid = none
    Quantum = 2
    MaxDepth = 2
    HandlersMayBlock = FALSE
    MainMayExit = FALSE
INVARIANTS
    TidyExit
PROPERTIES
    StopEndsAll
    EveryWaiterRuns
CHECK_DEADLOCK FALSE
