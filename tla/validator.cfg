SPECIFICATION FairSpec
CONSTANTS
    Caller <- MCCaller
    Batches <- MCBatches
    Answers <- MCAnswers
    ChaiBridge = "chai"
    MaximumGasPrice = "gas"
    NullAddress = "null"
    maxRequestsPer24Hrs = 2
    MaxDay = 1
    maxRequestContentLength = 8
    jsonRPCPayloadByteLength = 1
    concurrencyLimit = 1
    MaxAttempts = 2
    MaxRestarts = 1
INVARIANTS
    
    ChunksFit

    
CHECK_DEADLOCK FALSE
