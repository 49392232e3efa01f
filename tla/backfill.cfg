SPECIFICATION FairSpec
CONSTANTS
    a1 = a1
    a2 = a2
    a3 = a3
    a4 = a4
    a5 = a5
    a6 = a6
    a7 = a7
    b3 = b3
    b4 = b4
    b5 = b5
    b6 = b6
    b7 = b7
    genesis = genesis
    NoBlock = NoBlock
    Block <- MCBlock
    Number <- MCNumber
    Parent <- MCParent
    LogsIn <- MCLogsIn
    Chains <- MCChains
    RangeSize = 2
    ChunkSize = 2
    MaxBehind = 6
    LogCap = 1
INVARIANTS
    HeightsOnce
PROPERTIES
    NothingMissed
CHECK_DEADLOCK FALSE
