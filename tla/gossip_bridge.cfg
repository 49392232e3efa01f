SPECIFICATION Spec
CONSTANTS
    p1 = p1 p2 = p2 o1 = o1 o2 = o2 o3 = o3 o4 = o4 c1 = c1 c2 = c2 ex = ex
    m1 = m1 m2 = m2 proxy = proxy bridge = bridge chai = chai
    Peer = {p1, p2}
    Me = Me
    Garbage = Garbage
    Order = {o1, o2, o3, o4}
    Arrivals <- MCArrivals
    Custom = {o1, o3, o4}
    Valid = {o1, o2, o4}
    Maker <- MCMaker
    Salt <- MCSalt
    MakerAssetData <- MCMakerAssetData
    MakerFeeAssetData <- MCMakerFeeAssetData
    Account = {m1, m2}
    TokenID = {0, 1, 4}
    Bytes <- MCBytes
    AssetProxy <- MCAssetProxy
    ChaiBridge = bridge
    ChaiToken = chai
    Log <- MCLog
    Size <- MCSize
    Batches <- MCBatches
    Logs <- MCLogs
    Worker <- MCWorker
    Exchange = ex
    UintSize = 8
    Envelope = 1
    MaxOrderSizeInBytes = 4
    PerPeerBurst = 1
    GlobalBurst = 2
    PerPeerLimit = 1
    GlobalLimit = 1
    peerLimiterCacheTTL = 1
    maxReceiveBatch = 2
    maxOrders = 2
    Budgets <- MCBudgets
    Client = {cl1}
    orderEventsBufferSize = 1
    NoWorker = NoWorker
INVARIANT StoredCanBeLoaded
CHECK_DEADLOCK FALSE
