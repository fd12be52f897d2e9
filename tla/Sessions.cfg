SPECIFICATION Spec
CONSTANTS
    c1 = c1
    c2 = c2
    r1 = r1
    r2 = r2
    a = a
    b = b
    None = None
    Clients = {c1, c2}
    Reqs = {r1, r2}
    Ids = {a, b}
    SizeOf <- MCSizeOf
    MaxSize = 2
    Faults = {"drop", "miss"}
    MaxRequests = 3
INVARIANTS OneOutstanding NoDanglingCallback AnswersItsRequest
           CacheHonest CacheSound
CHECK_DEADLOCK FALSE
SYMMETRY ClientSymmetry
