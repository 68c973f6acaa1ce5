SPECIFICATION FairSpec
CONSTANTS
    Callers = {c1, c2, c3}
    MaxPending = 2
INVARIANTS TypeOK NothingHeld
PROPERTIES LetGo CallEnds
CHECK_DEADLOCK FALSE
