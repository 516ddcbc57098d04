SPECIFICATION Spec
CONSTANTS
    Conns = {c1, c2}
    Users = {alice, bob}
    c1 = c1
    c2 = c2
    alice = alice
    bob = bob
    NoConn = NoConn
    Requested = {"ready"}
    Faults = {}
    InitialLists <- Anybody
    MaxObjs = 2
INVARIANTS
    ToldOfListed
CHECK_DEADLOCK FALSE
