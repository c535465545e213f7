SPECIFICATION Spec
CONSTANTS
    a = a
    b = b
    Node = {a, b}
    Talkers = {a, b}
    SeqMod = 2
    AckModes = {TRUE, FALSE}
    MaxMtus = 2
    MaxFrags = 3
    LinkCap = 2
INVARIANTS
    AckedHasArrived
    IntactUnlessLost
CHECK_DEADLOCK FALSE
