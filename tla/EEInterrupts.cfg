SPECIFICATION FairSpec
CONSTANTS
    Guest <- MCGuest
    Host <- MCHost
    Worker <- MCWorker
    Causes <- MCCauses
    Dmac <- MCDmac
    Masked <- MCMasked
    Stopper <- MCStopper
    Addr = {a}
    NoAddr = none
    MaxHandler = 1
    MaxCatchup = 2
INVARIANTS
    OneWorker
    QuietAfterStop
PROPERTIES
    WorkerEnds
    VBlankReachesGuest
    RemovedGoesQuiet
CHECK_DEADLOCK FALSE
