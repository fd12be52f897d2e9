SPECIFICATION FairSpec
CONSTANTS
    NumAssets = 3
    Slaves = {"s1", "s2"}
    FirstSlave = "s1"
    MAX_QUEUE_SIZE = 0
    DrainLimit = 4
    Faults = {"drop", "refuse", "error", "stop"}
    MaxChanges = 1
INVARIANTS OneAttempt FreedIdle PushesInTurn
PROPERTIES LostIsNoticed
CHECK_DEADLOCK FALSE
