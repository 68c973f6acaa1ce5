SPECIFICATION FairSpec
CONSTANTS
    p1 = p1
    p2 = p2
    own = own
    watch = watch
    Peripherals <- MCPeripherals
    Fluke <- MCPeripherals
    Owned <- MCOwned
    Passive <- MCPassive
    Accept <- MCAccept
    EventBuffer = 2
INVARIANTS TypeOK FoundOnce NothingMissed ScanRunsInWindow StartAccepted NoScanLeft
PROPERTY SearchEnds
