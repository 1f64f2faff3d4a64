SPECIFICATION Spec
CONSTANTS
    t1 = t1
    t2 = t2
    f1 = f1
    b1 = b1
    b2 = b2
    Thread <- MCThread
    MainTid = t1
    Intr = intr
    None = none
    MaxCount = 1
    MayCancel = FALSE
    Flag <- MCFlag
    Bit <- MCBit
    Want <- MCWant
INVARIANTS
    OneWaiter
    ReadyWaiterWakes
PROPERTIES
    ImplementsFlags
CHECK_DEADLOCK FALSE
