SPECIFICATION Spec
CONSTANTS
    EventBuffer = 1
    Attempts = 1
    Limited = FALSE
    MaxAttempts = 0
    IdleTimeout = FALSE
    Initial = TRUE
    EndsEarly = FALSE
    MaxCount = 2
PROPERTY DropNeverDisconnects
CHECK_DEADLOCK FALSE
