SPECIFICATION FairSpec
CONSTANTS
    c1 = c1
    c2 = c2
    r1 = r1
    r2 = r2
    a = a
    b = b
    None = None
    Clients = {c1, c2}
    Reqs = {r1, r2}
    Ids = {a}
    SizeOf <- MCSizeOf
    MaxSize = 2
    Faults = {"drop", "bad", "miss"}
    MaxRequests = 2
PROPERTIES EveryRequestAnswered
CHECK_DEADLOCK FALSE
