SPECIFICATION FairSpec
CONSTANTS
    Holds <- MCHoldsGap
    BatchSize = 2
    Masters = {"m1", "m2"}
    FirstMaster = "m1"
    DrainLimit = 4
    Faults = {"drop", "refuse", "error", "store", "stop"}
    MaxChanges = 1
INVARIANTS BatchAccounted OneDriver RoundComplete
PROPERTIES RoundsGoOn
CHECK_DEADLOCK FALSE
