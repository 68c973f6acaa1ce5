SPECIFICATION Spec
CONSTANTS
    FactorMax = 7
    DurationMax = 40
    MillisMax = 12
    Ticks = 3
    MaxRetry = 6
    Durations <- MCDurations
INVARIANT DelayBounded
PROPERTY NeverHammers
CHECK_DEADLOCK FALSE
