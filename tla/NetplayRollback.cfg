SPECIFICATION Spec
CONSTANTS
    Input <- MCInput
    Neutral = "neutral"
    None = "none"
    Delay <- MCNoDelay
    Redundancy = 4
    Window = 2
    LastFrame = 3
    Pad <- MCPad
    MaxFaults = 0
INVARIANTS
    GuessesAccounted
    SnapshotThere
    ConfirmedIsReal
PROPERTIES
    ConfirmedStays
CHECK_DEADLOCK FALSE
