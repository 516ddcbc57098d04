SPECIFICATION Spec
CONSTANTS
    Conns = {c1}
    Users = {alice}
    c1 = c1
    alice = alice
    NoConn = NoConn
    Anon = Anon
    Background = Background
    NilCtx = NilCtx
    Return = Return
    MaxBuf = 1
    MaxNames = 1
    MaxBoots = 1
    MaxAwayFailures = 0
INVARIANTS
    RegisteredMeansConnected
CHECK_DEADLOCK FALSE
