SPECIFICATION Spec
CONSTANTS
    Conns = {c1, c2}
    Users = {alice, bob}
    c1 = c1
    c2 = c2
    alice = alice
    bob = bob
    NoConn = NoConn
    Requested = {"ready", "setinfo", "away"}
    Faults = {"process", "statement"}
    InitialLists <- Mutual
    MaxObjs = 2
SYMMETRY Symmetry
INVARIANTS
    MutualBuddiesAgree
    NoGhosts
CHECK_DEADLOCK FALSE
