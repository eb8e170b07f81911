CONSTANTS
    shopA = shopA
    shopB = shopB
    trip = trip
    Stores <- MCStores
    Buckets <- MCBuckets
    Transfers <- MCTransfers
    NoTransfer = none
    Quantities <- MCQuantities
    MaxRows = 3
    MaxCorrections = 1
    MaxFaults = 1
SPECIFICATION Spec
INVARIANTS
    TypeOK
    UninterruptedIsExact
    StockStaysCovered
    QueuedIsApplied
    TransferMovesOnce
PROPERTIES
    FollowsTransferRules
SYMMETRY StoreSymmetry
CHECK_DEADLOCK FALSE
