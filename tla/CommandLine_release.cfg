SPECIFICATION MainSpec
CONSTANTS
    Capacity = 3
    MaxCount = 2
    Limited = TRUE
    MaxAttempts = 2
    Event <- MCEvent
    HasCount = TRUE
    Count = 2
    WritesFail = TRUE
    MaxBuffered = 2
    MaxNameLen = 3
    Names <- MCNames
INVARIANT AlwaysReleases
CHECK_DEADLOCK FALSE
