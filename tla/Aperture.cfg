CONSTANTS
    viewer = viewer
    sim = sim
    i1 = i1
    i2 = i2
    k1 = k1
    None = None
    Junk = Junk
    Ids = {i1, i2}
    Conns = {viewer, sim}
    Caps = {k1}
    AddedCaps = {k1}
    Batches <- MCBatches
    SizeOf <- MCSizeOf
    MaxSize = 3
    MaxRequests = 3
    MaxBuckets = 1
    MAX_QUEUED_REQUESTS = 1
    Faults = {"drop", "lose"}
SPECIFICATION Spec
CHECK_DEADLOCK FALSE
INVARIANTS OneCaller RightAsset TransfersDriven
PROPERTIES EveryRequestAnswered
