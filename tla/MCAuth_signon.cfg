SPECIFICATION Spec
CONSTANTS
    Users = {alice}
    Clients = {k1, k2}
    alice = alice
    k1 = k1
    k2 = k2
    MaxKeys = 4
    MaxClosing = 2
SYMMETRY Symmetry
INVARIANTS
    OnlyEntitled
    RefusedOnlyIfDisturbed
    IInv
PROPERTIES
    CookieSpent
