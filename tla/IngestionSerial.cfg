CONSTANTS
    receive = receive
    sellA = sellA
    sellB = sellB
    key = key
    shop = shop
    r1 = r1
    r2 = r2
    r3 = r3
    r4 = r4
    TxIds <- MCTxIds
    Keys <- MCKeys
    KeyOf <- MCKeyOf
    Masters <- MCMasters
    MasterOf <- MCMasterOf
    KnownMasters <- MCMasters
    Payloads <- EditedPayloads
    Batches <- EditedBatches
    Requests <- MCRequests4
    Concurrency = 1
    MaxFaults = 0
SPECIFICATION Spec
INVARIANTS
    RejectedIsNotPosted
    NoUnexpectedError
PROPERTIES
    ExactlyOnce
    
