SPECIFICATION Spec
CONSTANTS
    Conns = {c1, c2}
    Users = {alice, bob}
    Cookies = {k1}
    c1 = c1
    c2 = c2
    alice = alice
    bob = bob
    k1 = k1
    NoConn = NoConn
    StoreFlags = {TRUE, FALSE}
    AckFlags = {FALSE}
    MaxMsgs = 2
SYMMETRY Symmetry
INVARIANTS
    TypeOK
    WrittenToAddressee
    WrittenOnce
    SenderOrder
    RegisteredOwner
    IInv
PROPERTIES
    LoneStaysRegistered
    ImplementsMailbox
