SPECIFICATION FairSpec
CONSTANTS
    MaxSession = 2
    MaxFaults = 0
    MaxCrashes = 1
    SyncModes = {FALSE}
    MaxFrame = 2
    Early = TRUE
PROPERTIES
    VanishedPeerDropped
CHECK_DEADLOCK FALSE
