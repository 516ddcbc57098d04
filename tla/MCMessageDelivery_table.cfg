SPECIFICATION FairSpec
CONSTANTS
    Conns = {c1, c2}
    Users = {alice}
    Cookies = {k1, k2}
    c1 = c1
    c2 = c2
    alice = alice
    k1 = k1
    k2 = k2
    NoConn = NoConn
    StoreFlags = {TRUE}
    AckFlags = {TRUE, FALSE}
    MaxMsgs = 2
INVARIANTS
    ClearedWasWritten
    AckedIsKept
PROPERTIES
    MessagesSettle
