SPECIFICATION Spec
CONSTANTS
    WindowSize = 2
    MaxFrames = 6
    MaxTimeouts = 1
    Countdowns = 2
    AirCap = 2
INVARIANTS
    TypeOK
    AckedWasReceived
    PopsFit
    NothingSkipped
    TimerAlive
CHECK_DEADLOCK FALSE
