SPECIFICATION FairSpec
CONSTANTS
    EventBuffer = 2
    Attempts = 2
    Limited = TRUE
    MaxAttempts = 3
    IdleTimeout = TRUE
    Initial = TRUE
    EndsEarly = FALSE
    MaxCount = 4
INVARIANTS
    TypeOK
    FreshTarget
    SingleDisconnect
    NoOrphanLink
    FailureBudget
    OneEventAfterStop
PROPERTIES
    StreamPromise
    StreamsOrEnds
CHECK_DEADLOCK FALSE
