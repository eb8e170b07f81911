CONSTANTS
    receive = receive
    sellA = sellA
    sellB = sellB
    key = key
    shop = shop
    r1 = r1
    r2 = r2
    r3 = r3
    r4 = r4
    TxIds <- MCTxIds
    Keys <- MCKeys
    KeyOf <- MCKeyOf
    Masters <- MCMasters
    MasterOf <- MCMasterOf
    KnownMasters <- MCNoMasters
    Payloads <- ImmutablePayloads
    Batches <- ImmutableBatches
    Requests <- MCRequests3
    Concurrency = 2
    MaxFaults = 1
SPECIFICATION Spec
INVARIANTS
    TypeOK
    BalanceIsProjection
    AcceptedIsPosted
    AcceptedReceiptIsBacked
PROPERTIES
    ExactlyOnce
    
