SPECIFICATION DisciplinedSpec
CONSTANTS
    t1 = t1
    t2 = t2
    Thread <- MCTwo
    MainTid = t1
    Intr = intr
    None = none
    MaxCount = 2
    MayCancel = TRUE
PROPERTIES
    TerminatedEnds
CHECK_DEADLOCK FALSE
