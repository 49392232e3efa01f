SPECIFICATION FairSpec
CONSTANTS
    g = g
    a1 = a1
    a2 = a2
    b1 = b1
    b2 = b2
    o1 = o1
    o2 = o2
    NoBlock = NoBlock
    NoOrder = NoOrder
    Block <- TwoBranches
    Parent <- MCParent
    Number <- MCNumber
    Time <- MCTime
    Exp <- MCExp
    Order = {o1}
    Unrecognised = {}
    MaxBatch = 3
    Retention = 2
    MaxOrders = 3
    Target = 2
    Unlimited = 4
    MaxOffer = 1
    MaxAmount = 2
    Adder = {1}
    Pins = {FALSE}
    Cancellable = FALSE
    MaxRestarts = 0
INVARIANTS
    NoExpiredLive
    LiveIsAnnounced
PROPERTIES
    WorkIsFinished
