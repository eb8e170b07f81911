CONSTANTS
    receive = receive
    sale = sale
    count = count
    key = key
    background = background
    manual = manual
    TxIds <- OneTx
    Keys <- MCKeys
    KeyOf <- OneTxKey
    Moves <- OneMove
    Edits <- ReceiptEdits
    Deletable <- None
    Refused <- None
    Runs <- Background
    Forced <- None
    BatchSize = 4
    MaxSyncRetries = 1
    EditsInFlight = TRUE
    ServedAfterTimeout = FALSE
    Expires = FALSE
    MaxEdits = 1
    MaxFaults = 0
    MaxCrashes = 0
SPECIFICATION Spec
INVARIANTS
    EditsReachServer
