SPECIFICATION FairSpec
CONSTANTS
    Inputs <- ClientInputs
    Chunk = 8
    Routines = {"routine"}
    Numbers = 4
    MaxSends = 2
INVARIANTS
    IInv
    Framed
    GreetedFirst
    Consecutive
    UserIsCredential
PROPERTIES
    AllHandled
CHECK_DEADLOCK FALSE
