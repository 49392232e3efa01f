SPECIFICATION FairSpec
CONSTANTS
    Reach <- MCReach
    BootstrapLists <- MCLists
    Discoverable <- MCDiscoverable
    MayExceed = {"boot", "greedy"}
    Greedy = {"greedy"}
    NoIP = "none"
    peerCountLow = 2
    peerCountHigh = 3
    violationsBeforeBan = 2
INVARIANTS
    ProtectedNotDenied
PROPERTIES
    NodeImplementsRunner
    LoopsEnd
    GreedyIsDisconnected
CHECK_DEADLOCK FALSE
