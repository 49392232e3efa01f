SPECIFICATION FairSpec
CONSTANTS
    a1 = a1
    a2 = a2
    a3 = a3
    a4 = a4
    a5 = a5
    b3 = b3
    b4 = b4
    b5 = b5
    genesis = genesis
    NoBlock = NoBlock
    Block <- MCBlock
    Number <- MCNumber
    Parent <- MCParent
    Chains <- MCChains
    Limit = 2
    MaxID = 2
    MaxBehind = 4
    FeedCap = 1
INVARIANTS
    TypeOK
    
    
    StackWasAnnounced
PROPERTIES
    Converges
    NeverFallsBack
CHECK_DEADLOCK FALSE
