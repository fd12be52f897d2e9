SPECIFICATION FairSpec
CONSTANTS
    c1 = c1
    c2 = c2
    i1 = i1
    i2 = i2
    None = None
    Calls = {c1, c2}
    Ids = {i1, i2}
    Plans <- MCPlans
    Faults = {"reset", "close", "invalid", "stop"}
INVARIANTS InStep ListsDriven CallbackOnce
PROPERTIES EveryCallReturns StopReturns
CHECK_DEADLOCK FALSE
