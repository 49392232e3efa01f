SPECIFICATION Spec
CONSTANTS
    g = g
    a1 = a1
    a2 = a2
    b1 = b1
    b2 = b2
    o1 = o1
    o2 = o2
    NoBlock = NoBlock
    NoOrder = NoOrder
    Block <- OneBlock
    Parent <- MCParent
    Number <- MCNumber
    Time <- MCTime
    Exp <- MCExp
    Order = {o1, o2}
    Unrecognised = {o2}
    MaxBatch = 1
    Retention = 2
    MaxOrders = 1
    Target = 0
    Unlimited = 4
    MaxOffer = 1
    MaxAmount = 1
    Adder = {1}
    Pins = {TRUE, FALSE}
    Cancellable = FALSE
    MaxRestarts = 1

    
PROPERTIES
    PinnedStays
