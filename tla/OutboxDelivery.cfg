CONSTANTS
    receive = receive
    sale = sale
    count = count
    key = key
    background = background
    manual = manual
    TxIds <- OneTx
    Keys <- MCKeys
    KeyOf <- OneTxKey
    Moves <- OneMove
    Edits <- ReceiptEdits
    Deletable <- OneTx
    Refused <- None
    Runs <- BothRuns
    Forced <- Manual
    BatchSize = 4
    MaxSyncRetries = 0
    EditsInFlight = TRUE
    ServedAfterTimeout = TRUE
    Expires = TRUE
    MaxEdits = 2
    MaxFaults = 1
    MaxCrashes = 1
SPECIFICATION Spec
INVARIANTS
    TypeOK
    SyncedIsOnServer
    DurableOutbox
