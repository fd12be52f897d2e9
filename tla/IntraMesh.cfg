SPECIFICATION FairSpec
CONSTANTS
    MaxLinks = 2
    MaxQueries = 2
    MaxBeats = 1
    Faults = {"close", "refuse", "untrusted"}
INVARIANTS FreedIdle QueriesConserved
PROPERTIES ClosedClientLeaves LossIsNoticed
CHECK_DEADLOCK FALSE
