SPECIFICATION Spec
CONSTANTS
    r1 = r1
    r2 = r2
    r3 = r3
    i1 = i1
    None = None
    Reqs <- MCReqs
    PullReqs = {}
    Ids <- MCIdsOne
    NHeads = 1
    HeadOf <- MCHeadOfLast
    Faults = {"sqlite", "list", "read", "remove"}
    MaxPurges = 1
INVARIANTS RowsHaveData AckedGlobalKept IndexAgrees WriteHappensFirst
CHECK_DEADLOCK FALSE
SYMMETRY ReqSymmetry
