SPECIFICATION FairSpec
CONSTANTS
    Caller <- MCCaller
    Handler = "handler"
    Stopper = "main"
    Ticks <- MCTicks
    MaxAlarm = 3
    MaxTime = 3
    None = none
INVARIANTS
    NoOversleep
PROPERTIES
    EveryAlarmRuns
    ImplementsTimers
CHECK_DEADLOCK FALSE
