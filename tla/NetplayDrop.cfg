SPECIFICATION FairSpec
CONSTANTS
    Input <- MCInput
    Neutral = "neutral"
    None = "none"
    Delay <- MCNoDelay
    Redundancy = 1
    Window = 2
    LastFrame = 3
    Pad <- MCPad
    MaxFaults = 0
INVARIANTS
    GuessesAccounted
CHECK_DEADLOCK FALSE
