SPECIFICATION FairSpec
CONSTANTS
    MaxSent = 4
    Depth = 2
    MaxOthers = 1
INVARIANTS TypeOK Complete ListensToAll
PROPERTY EndsWithLink
CHECK_DEADLOCK FALSE
