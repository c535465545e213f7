SPECIFICATION FairSpec
CONSTANTS
    ap = ap
    client = client
    Node = {ap, client}
    Channels = 3
    Turntable = "turns"
    Detectors = {ap}
    Enough = 3
    MaxEvents = 2
    LinkCap = 3
PROPERTIES
    DuplicatesIgnored
CHECK_DEADLOCK FALSE
