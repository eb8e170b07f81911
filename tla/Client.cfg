CONSTANTS
    Users = {u, v}
    NoUser = none
    MaxTokens = 2
    MaxLogins = 2
    MaxExpiries = 1
    MaxRestarts = 1
    MaxThreads = 2
    s1 = s1
    s2 = s2
    ShellStores = {s1, s2}
    NoStore = none
    MaxSelects = 2
    MaxReloads = 1
    MaxStarts = 2
    MaxBoots = 3
    MaxChains = 3
    MaxManual = 2
    MaxTicks = 2
    Txs = {t1}
    MaxRuns = 2
    MaxRestores = 1
    Items = {p, q}
    Places = {s1, s2}
    Nowhere = none
    MaxTyped = 2
    MaxSwitches = 1
    MaxRows = 2
    MaxCalls = 2
    MaxFills = 2
    MaxQty = 1
    CountLines = {l1, l2}
    MaxOthers = 1
    MaxPicks = 1
    MaxSubmits = 1
    TransferStores = {s1, s2}
    MaxTransfers = 2
    MaxCommands = 2
    MaxElsewhere = 1
    BookStores = {s1, s2}
    MaxDay = 2
    BookKinds = {"shown", "hidden"}
    MaxBookOps = 2
    skuA = skuA
    skuB = skuB
    Skus = {skuA, skuB}
    Unnamed = unnamed
    ImportFiles <- MCFiles
    BatchSize = 2
    MaxImports = 2
    MaxAdds = 1
    MaxVisits = 2
    CsvChars = {"quote", "comma", "lf", "space"}
    MaxField = 2
    MaxLines = 2
    MaxProduct = 3
    Categories = {"c"}
    MaxActions = 2
    MaxEdits = 3
    MaxAttempts = 2
    MaxRequeues = 1
    Records = {r1}
    MaxWipes = 1
    MaxBackups = 1
    MaxSyncs = 2
    MaxDate = 3
    MaxSchedulers = 2
    MaxChecks = 3
    MaxDownloads = 2
    MaxVisitsOfSettings = 3
    DashQueries = {"here", "elsewhere"}
    MaxDashSteps = 2
    MaxDashRuns = 1
    MaxDashLoads = 2
    LedgerStores = {s1, s2}
    MaxLedger = 2
    MaxLedgerSteps = 2
    MaxArrivals = 1
    MaxLedgerLoads = 2
SPECIFICATION Spec
INVARIANTS
    TypeOK
    ShownUserHoldsSession
    
    ShellIsSound
    
    ListIsOfActiveStore
    
    
    TransfersAreTrue
    
    
    
PROPERTIES
    TokenNeverGoesBack
    PaneAnswersLastQuery
CHECK_DEADLOCK FALSE
