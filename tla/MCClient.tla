------------------------------ MODULE MCClient ------------------------------
(***************************************************************************)
(* The desktop client outside its ledger commands: the application shell,  *)
(* sessions, screens and services, each a component of its own.  They meet *)
(* only in the database and the server, which each module models as far as *)
(* it uses them, and share no variable; a property of one is unaffected by *)
(* a step of another.  So the behaviours of the client are explored one    *)
(* part at a time: the initial state picks the part that moves, and the    *)
(* other parts keep one initial state.                                     *)
(***************************************************************************)
EXTENDS AuthSession, Genesis, AppShell, DeviceIdentity, SyncDriver,
        SyncService, ProductSearch, EntryGrid, BalanceForms, TransferScreen,
        DayBooks, ProductImport, CsvParser, ProductList, StoreAdmin,
        Maintenance, BackupScheduler, Updater, Dashboard, TransactionList

CONSTANTS s1, s2, skuA, skuB

\* a file with a line without a model between two products
MCFiles == {<<skuB, Unnamed, skuA>>}

VARIABLE part   \* the part of the client that moves
clientVars == <<part, authVars, genesisVars, appVars, deviceVars, driverVars,
               serviceVars, searchVars, entryVars, balanceVars, transferVars,
               bookVars, importVars, csvVars, listVars, storeVars,
               maintenanceVars, schedulerVars, updaterVars, dashVars, ledgerVars>>

Parts == {"auth", "genesis", "shell", "device", "driver", "service",
          "search", "entry", "balance", "transfer", "books", "import",
          "csv", "list", "stores", "maintenance", "scheduler", "updater",
          "dashboard", "ledger"}

(* The moving part starts anywhere its own specification starts; the others  *)
(* where it does not matter.  The stores are interchangeable: the one a      *)
(* screen is opened in is s1.                                                *)
Init ==
    /\ part \in Parts
    /\ AuthInit
    /\ GenesisInit /\ (part # "genesis" => db = {})
    /\ AppInit
    /\ DeviceInit
    /\ DriverInit
    /\ ServiceInit
    /\ SearchInit /\ place = s1 /\ (part # "search" => searchView = "receive")
    /\ EntryInit /\ (part # "entry" => entryView = "receive")
    /\ BalanceInit /\ (part # "balance" => balanceView = "count")
    /\ TransferInit /\ tSource = s1
    /\ BookInit /\ bkActive = s1 /\ (part # "books" => bkTx = {})
    /\ ImportInit
    /\ CsvInit /\ (part # "csv" => csvTable = <<<<<<>>, <<>>>>>> /\ csvText = <<Comma>>)
    /\ ListInit
    /\ StoreInit
    /\ MaintenanceInit
    /\ SchedulerInit
    /\ UpdaterInit
    /\ DashInit /\ (part # "dashboard" => dashQuery = "here")
    /\ LedgerInit /\ storeOf[1] = s1 /\ lgActive = s1
        /\ (part # "ledger" => storeOf = [t \in Movements |-> s1] /\ lgLocal = {} /\ lgServer = {})

OthersRest ==
    /\ UNCHANGED part
    /\ part # "auth" => UNCHANGED authVars
    /\ part # "genesis" => UNCHANGED genesisVars
    /\ part # "shell" => UNCHANGED appVars
    /\ part # "device" => UNCHANGED deviceVars
    /\ part # "driver" => UNCHANGED driverVars
    /\ part # "service" => UNCHANGED serviceVars
    /\ part # "search" => UNCHANGED searchVars
    /\ part # "entry" => UNCHANGED entryVars
    /\ part # "balance" => UNCHANGED balanceVars
    /\ part # "transfer" => UNCHANGED transferVars
    /\ part # "books" => UNCHANGED bookVars
    /\ part # "import" => UNCHANGED importVars
    /\ part # "csv" => UNCHANGED csvVars
    /\ part # "list" => UNCHANGED listVars
    /\ part # "stores" => UNCHANGED storeVars
    /\ part # "maintenance" => UNCHANGED maintenanceVars
    /\ part # "scheduler" => UNCHANGED schedulerVars
    /\ part # "updater" => UNCHANGED updaterVars
    /\ part # "dashboard" => UNCHANGED dashVars
    /\ part # "ledger" => UNCHANGED ledgerVars

Next ==
    \/ part = "auth" /\ OthersRest /\ AuthNext
    \/ part = "genesis" /\ OthersRest /\ GenesisNext
    \/ part = "shell" /\ OthersRest /\ AppNext
    \/ part = "device" /\ OthersRest /\ DeviceNext
    \/ part = "driver" /\ OthersRest /\ DriverNext
    \/ part = "service" /\ OthersRest /\ ServiceNext
    \/ part = "search" /\ OthersRest /\ SearchNext
    \/ part = "entry" /\ OthersRest /\ EntryNext
    \/ part = "balance" /\ OthersRest /\ BalanceNext
    \/ part = "transfer" /\ OthersRest /\ TransferNext
    \/ part = "books" /\ OthersRest /\ BookNext
    \/ part = "import" /\ OthersRest /\ ImportNext
    \/ part = "csv" /\ OthersRest /\ CsvNext
    \/ part = "list" /\ OthersRest /\ ListNext
    \/ part = "stores" /\ OthersRest /\ StoreNext
    \/ part = "maintenance" /\ OthersRest /\ MaintenanceNext
    \/ part = "scheduler" /\ OthersRest /\ SchedulerNext
    \/ part = "updater" /\ OthersRest /\ UpdaterNext
    \/ part = "dashboard" /\ OthersRest /\ DashNext
    \/ part = "ledger" /\ OthersRest /\ LedgerNext

Spec == Init /\ [][Next]_clientVars
-----------------------------------------------------------------------------
(* Every part keeps its variables well typed.                                *)
TypeOK ==
    /\ part \in Parts
    /\ AuthTypeOK
    /\ GenesisTypeOK
    /\ AppTypeOK
    /\ DeviceTypeOK
    /\ DriverTypeOK
    /\ ServiceTypeOK
    /\ SearchTypeOK
    /\ EntryTypeOK
    /\ BalanceTypeOK
    /\ TransferTypeOK
    /\ BookTypeOK
    /\ ImportTypeOK
    /\ CsvTypeOK
    /\ ListTypeOK
    /\ StoreTypeOK
    /\ MaintenanceTypeOK
    /\ SchedulerTypeOK
    /\ UpdaterTypeOK
    /\ DashTypeOK
    /\ LedgerTypeOK

(* Syncing is tended: one chain of timers follows the session, chip and      *)
(* indicator tell the truth, optimistic changes settle, a restore that says  *)
(* it is usable has stored what it must, and all of it under one device id.  *)
SyncIsTended ==
    /\ ChainIsSingle /\ ChainFollowsSession /\ ChipTellsTruth
    /\ IndicatorSettles /\ OptimisticSettles /\ UsableIsRestored
    /\ DeviceIdIsStable

(* What was recorded is read back as it was: the day books add up and are    *)
(* those of the store, the transaction list has all of its movements, each   *)
(* once, and a CSV file is read as it was written.                           *)
RecordsAreTrue == BooksAreTrue /\ LedgerIsTrue /\ CsvRoundTrip

(* The overviews tell the truth: the dashboard shows its current figures or  *)
(* says that it cannot, what an import reports, lists and announces is what  *)
(* it created, and the table shows the products and balances its filter      *)
(* asks for.                                                                 *)
OverviewsAreTrue ==
    /\ DashboardIsTrue
    /\ ReportIsExact /\ RunningIsShown /\ CreatedIsAnnounced /\ CreatedIsListed
    /\ TableIsCurrent /\ QuantitiesCoverRows

(* Administration does what it says: edited stores reach the server, wiped   *)
(* data stays away and restored data is complete, the daily backup is taken, *)
(* and the update shown is the one under way.                                *)
AdministrationIsSound ==
    /\ LastNameIsDelivered /\ QueueIsServed
    /\ DeletedStaysDeleted /\ PulledIsHere /\ BackupsAreListed
    /\ SchedulerIsArmed /\ ObservedDayIsBackedUp
    /\ DownloadIsShown /\ StageIsOfDownload
=============================================================================
