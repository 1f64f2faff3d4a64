SPECIFICATION Spec
CONSTANTS
    t1 = t1
    t2 = t2
    t3 = t3
    Thread <- MCThread
    MainTid = t1
    Host = host
    NoTid = none
    Quantum = 1
    MaxDepth = 2
    HandlersMayBlock = TRUE
    MainMayExit = TRUE
INVARIANTS
    GuestCodeLocked
    OnlyCurrentRuns
    HolderRunnable
    NoLostHandover
PROPERTIES
    RoundRobin
    ImplementsToken
CHECK_DEADLOCK FALSE
