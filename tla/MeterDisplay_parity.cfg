SPECIFICATION Spec
CONSTANTS
    Numbers <- MCNumbers
    Places <- MCPlaces
    Kinds = {"dashes"}
    Lengths <- MCLengths
INVARIANT Parity
CHECK_DEADLOCK FALSE
