SPECIFICATION FairSpec
CONSTANTS
    MaxLinks = 2
    MaxQueries = 1
    MaxBeats = 1
    Faults = {"close"}
PROPERTY PeerIsReplaced
CHECK_DEADLOCK FALSE
