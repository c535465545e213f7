SPECIFICATION FairSpec
CONSTANTS
    a = a
    b = b
    Node = {a, b}
    Talkers = {a}
    SeqMod = 2
    AckModes = {TRUE}
    MaxMtus = 2
    MaxFrags = 5
    LinkCap = 3
INVARIANTS
    TypeOK
    AckedIsAccepted
    FragmentsInOrder
PROPERTIES
    ReliableDelivery
    EventuallyDelivered
CHECK_DEADLOCK FALSE
