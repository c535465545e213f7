SPECIFICATION Spec
CONSTANTS
    WindowSize = 2
    MaxFrames = 5
    MaxTimeouts = 0
    Countdowns = 1
    AirCap = 2
INVARIANT AlwaysRoom
CHECK_DEADLOCK FALSE
