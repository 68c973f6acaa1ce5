SPECIFICATION FairSpec
CONSTANTS
    MaxSent = 1
    Depth = 2
    MaxOthers = 2
PROPERTY EndsWithLink
CHECK_DEADLOCK FALSE
