CONSTANTS
    shopA = shopA
    shopB = shopB
    trip = trip
    Stores <- MCStores
    Buckets <- MCBuckets
    Transfers <- MCTransfers
    NoTransfer = none
    Quantities <- MCUnits
    MaxRows = 4
    MaxCorrections = 0
    MaxFaults = 1
SPECIFICATION Spec
INVARIANTS
    TransferIsBalanced
CHECK_DEADLOCK FALSE
