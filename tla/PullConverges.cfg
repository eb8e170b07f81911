CONSTANTS
    Products <- NoRows
    Stores <- OneStore
    Balances <- TwoBalances
    Limit = 1
    MaxRecords = 1
    MaxOthers = 2
    MaxPullFaults = 1
    MaxPullCrashes = 1
    MaxSkew = 1
SPECIFICATION PullSpec
INVARIANTS
    PullTypeOK
    
PROPERTIES
    Converges
