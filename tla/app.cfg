SPECIFICATION FairSpec
CONSTANTS
    Chain = {"mainnet", "private"}
    Mainnet = "mainnet"
    StandardChain = {"mainnet"}
    Custom <- MCCustom
    None = "none"
    Server = {"ws", "http"}
    MaxRuns = 2
PROPERTIES
    
    OneChain
    CallsAreAnswered
CHECK_DEADLOCK FALSE
