SPECIFICATION DeviceFairSpec
CONSTANTS
    me = me
    Meter = Meter
    MaxPending = 1
    EventBuffer = 1
    Attempts = 0
    Limited = FALSE
    MaxAttempts = 0
    IdleTimeout = TRUE
    Initial = TRUE
    EndsEarly = FALSE
    MaxCount = 1
INVARIANTS Agreement NothingLeftBehind NoScanWhileConnecting
PROPERTIES ReleasedWhenAsked Reconnects
CHECK_DEADLOCK FALSE
