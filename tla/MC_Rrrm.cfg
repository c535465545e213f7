SPECIFICATION FairSpec
CONSTANTS
    ap = ap
    client = client
    Node = {ap, client}
    Channels = 3
    Turntable = "turns"
    Detectors = {ap, client}
    Enough = 2
    MaxEvents = 2
    LinkCap = 1
INVARIANTS
    TypeOK
    SameChannel
    AntennaFollows
PROPERTIES
    SwitchEnds
CHECK_DEADLOCK FALSE
