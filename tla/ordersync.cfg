SPECIFICATION FairSpec
CONSTANTS
    Order <- MCOrder
    Caller <- MCStream
    Matching <- MCMatching
    Others = {"other"}
    PerPage = 1
    MinPeers = 2
    Ttl = 1
    MaxTime = 1
    MaxSnapshots = 2
    MaxChanges = 1
INVARIANTS
    UnexpiredIsWatched
    SyncIsComplete
    
CHECK_DEADLOCK FALSE

    
