SPECIFICATION Spec
CONSTANTS
    Lengths <- Boundaries
    Names <- Screen
INVARIANTS
    TypeOK
    TextAsAnnounced
    TextWritten
    OnlyLongestFail
CHECK_DEADLOCK FALSE
