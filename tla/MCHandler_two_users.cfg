SPECIFICATION Spec
CONSTANTS
    Conns = {c1, c2}
    Users = {alice, bob}
    c1 = c1
    c2 = c2
    alice = alice
    bob = bob
    NoConn = NoConn
    Anon = Anon
    Background = Background
    NilCtx = NilCtx
    Return = Return
    MaxBuf = 2
    MaxNames = 1
    MaxBoots = 2
    MaxAwayFailures = 0
SYMMETRY Symmetry
INVARIANTS
    TypeOK
    SettledOffline
    OnlineHasOrigin
    RequesterRegistered
    IInv
PROPERTIES
    ImplementsTable
CHECK_DEADLOCK FALSE
