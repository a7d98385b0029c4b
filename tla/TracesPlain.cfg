\* Two days and one flagless listing are enough.
SPECIFICATION Spec
CONSTANTS
    MaxDay = 2
    Limit = 2
    MaxMoves = 1
INVARIANT PlainListingLists
CHECK_DEADLOCK FALSE
