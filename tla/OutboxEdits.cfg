CONSTANTS
    receive = receive
    sale = sale
    count = count
    key = key
    background = background
    manual = manual
    TxIds <- AllTx
    Keys <- MCKeys
    KeyOf <- AllTxKey
    Moves <- AllMoves
    Edits <- BothEdits
    Deletable <- TwoTx
    Refused <- Counts
    Runs <- Background
    Forced <- None
    BatchSize = 4
    MaxSyncRetries = 1
    EditsInFlight = FALSE
    ServedAfterTimeout = FALSE
    Expires = FALSE
    MaxEdits = 2
    MaxFaults = 2
    MaxCrashes = 0
SPECIFICATION Spec
INVARIANTS
    EditsReachServer
    

    
