SPECIFICATION FairServiceSpec
CONSTANTS
    Sizes = {1, 2, 3}
    AutoDequeueFirst = TRUE
    KeepDequeueState = TRUE
    FullModes = {TRUE, FALSE}
    MaxArrivals = 5
INVARIANTS
    TypeOK
    InOrder
    NothingVanishes
    RequestWaitsOnlyWhenEmpty
    OneToken
PROPERTIES
    ElementServed
CHECK_DEADLOCK FALSE
