SPECIFICATION FairSpec
CONSTANTS
    Conns = {c1, c2}
    Users = {alice}
    c1 = c1
    c2 = c2
    alice = alice
    NoConn = NoConn
    Anon = Anon
    Background = Background
    NilCtx = NilCtx
    Return = Return
    MaxBuf = 2
    MaxNames = 1
    MaxBoots = 1
    MaxAwayFailures = 1
INVARIANTS
    SettledAway
    IInv
PROPERTIES
    ClosedTerminates
CHECK_DEADLOCK FALSE
