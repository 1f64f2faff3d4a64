SPECIFICATION Spec
CONSTANTS
    t1 = t1
    t2 = t2
    s1 = s1
    Thread <- MCTwo
    MainTid = t1
    Intr = intr
    None = none
    MaxCount = 1
    MayCancel = FALSE
    Sema <- MCSema
    Params <- MCParams
INVARIANTS
    WaitersCounted
    ReadyWaiterWakes
    WaitShownTruly
    NoStaleRelease
    SuspendShownElsewhere
    ReadySleeperWakes
PROPERTIES
    ImplementsSemaphores
CHECK_DEADLOCK FALSE
