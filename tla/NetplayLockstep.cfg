SPECIFICATION FairSpec
CONSTANTS
    Input <- MCInput
    Neutral = "neutral"
    None = "none"
    Delay <- MCDelay
    Redundancy = 2
    Window = 0
    LastFrame = 3
    Pad <- MCPad
    MaxFaults = 1
INVARIANTS
    SameInputs
PROPERTIES
    StallHeals
CHECK_DEADLOCK FALSE
