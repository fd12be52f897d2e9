SPECIFICATION Spec
CONSTANTS
    s1 = s1
    s2 = s2
    x1 = x1
    x2 = x2
    x3 = x3
    a = a
    b = b
    Servers = {s1, s2}
    Searches = {x1, x2}
    Ids = {a}
    IdOf <- SameId
    Full = {x1}
    Faults = {"close"}
SYMMETRY PeerSymmetry
INVARIANTS NothingUnexpected EntriesWait AskedFor KilledIdle
