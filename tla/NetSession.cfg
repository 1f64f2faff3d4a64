SPECIFICATION FairSpec
CONSTANTS
    MaxSession = 2
    MaxFaults = 1
    MaxCrashes = 1
    SyncModes = {TRUE, FALSE}
    MaxFrame = 2
    Early = FALSE
INVARIANTS
    NoResidue
    OneMatch
    HostSyncedTruly
PROPERTIES
    HandshakeCompletes
    SyncCompletes
    VanishedPeerDropped
CHECK_DEADLOCK FALSE
