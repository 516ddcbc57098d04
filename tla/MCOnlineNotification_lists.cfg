SPECIFICATION Spec
CONSTANTS
    Conns = {c1, c2}
    Users = {alice, bob}
    c1 = c1
    c2 = c2
    alice = alice
    bob = bob
    NoConn = NoConn
    Requested = {"selfinfo", "add", "unlist"}
    Faults = {"process", "routine"}
    InitialLists <- Nobody
    MaxObjs = 3
SYMMETRY Symmetry
INVARIANTS
    TypeOK
    ToldOfRelated
    BuddiesOnce
    IInv
CHECK_DEADLOCK FALSE
