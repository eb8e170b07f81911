CONSTANTS
    Products <- NoRows
    Stores <- NoRows
    Balances <- TwoBalances
    Limit = 2
    MaxRecords = 2
    MaxOthers = 0
    MaxPullFaults = 0
    MaxPullCrashes = 0
    MaxSkew = 0
SPECIFICATION PullSpec
INVARIANTS
    LocalIsProjection
