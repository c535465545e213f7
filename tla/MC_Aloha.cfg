SPECIFICATION FairSpec
CONSTANTS
    a = a
    b = b
    Node = {a, b}
    IndexMod = 3
    MaxTransmissions = 2
    MaxBuffer = 1
    MaxFrames = 2
    Offers <- TwoAndOne
    MaxCrossed = 1
    AirCap = 1
INVARIANTS
    TypeOK
    TurnKept
    SuccessMeansReceived
    CountedOnce
    OneOutstanding
PROPERTIES
    Resolved
CHECK_DEADLOCK FALSE
