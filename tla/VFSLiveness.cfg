SPECIFICATION FairSpec
CONSTANTS
    r1 = r1
    r2 = r2
    r3 = r3
    i1 = i1
    None = None
    Reqs <- MCReqsTwo
    PullReqs = {r2}
    Ids <- MCIdsOne
    NHeads = 2
    HeadOf <- MCHeadOfLast
    Faults = {"storage", "sqlite", "read"}
    MaxPurges = 1
PROPERTIES KeepsPromise EveryCallAnswered PurgeReachesEveryLocal
CHECK_DEADLOCK FALSE
