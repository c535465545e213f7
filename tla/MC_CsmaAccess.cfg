SPECIFICATION FairSpec
CONSTANTS
    MaxFrames = 2
    MaxResend = 2
    Crossing = {2}
    Duration = 1
    Backoffs = {"retry", "next"}
INVARIANTS
    TypeOK
    OneRight
    OneAtATime
    SensingWatched
    
PROPERTIES
    EveryFrameResolved
CHECK_DEADLOCK FALSE
