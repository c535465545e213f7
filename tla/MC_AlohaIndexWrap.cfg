SPECIFICATION Spec
CONSTANTS
    a = a
    b = b
    Node = {a, b}
    IndexMod = 3
    MaxTransmissions = 2
    MaxBuffer = 1
    MaxFrames = 3
    Offers <- ThreeAndNone
    MaxCrossed = 0
    AirCap = 2
INVARIANTS
    AckRecognised
CHECK_DEADLOCK FALSE
