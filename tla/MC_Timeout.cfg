SPECIFICATION FairSpec
CONSTANTS
    MaxAttempts = 3
    Duration = 2
    SharedStart = TRUE
INVARIANTS
    TypeOK
    NoOrphanTimer
    AckedOnce
    PatientSender
PROPERTIES
    AckStopsCountdown
    VerdictComes
CHECK_DEADLOCK FALSE
