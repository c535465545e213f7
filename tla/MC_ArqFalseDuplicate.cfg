SPECIFICATION Spec
CONSTANTS
    a = a
    b = b
    Node = {a, b}
    Talkers = {a, b}
    SeqMod = 4
    AckModes = {TRUE}
    MaxMtus = 2
    MaxFrags = 2
    LinkCap = 2
INVARIANTS
    OnlyDuplicatesDropped
CHECK_DEADLOCK FALSE
