SPECIFICATION Spec
CONSTANTS
    Numbers <- MCNumbers
    Places <- MCPlaces
    Kinds <- MCKinds
    Lengths <- MCLengths
INVARIANTS AgreeOnValue AgreeOnState AgreeOnDisplay FieldsSurvive
CHECK_DEADLOCK FALSE
