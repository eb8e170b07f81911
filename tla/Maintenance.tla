---------------------------- MODULE Maintenance ----------------------------
(***************************************************************************)
(* SettingsView's danger zone and backups: delete all data, first locally,  *)
(* then on the server; take a backup of the local database; put one back.   *)
(* The database commands, the wipe route of the server and the sync runs    *)
(* that go on meanwhile are external; OutboxSync and SyncPull have the      *)
(* latter in full, here a run pushes what is queued and pulls what its      *)
(* cursor does not cover.                                                   *)
(***************************************************************************)
EXTENDS Integers, FiniteSets

CONSTANTS Records,                            \* business records (products, movements, ...)
          MaxWipes, MaxBackups, MaxSyncs      \* bounds

ASSUME MaintenanceAssumption == MaxWipes \in Nat /\ MaxBackups \in Nat /\ MaxSyncs \in Nat

VARIABLES
    localDb,        \* the database: rows, the queued ones, and the cursor of the pull
    serverRows,
    memCursor,      \* the cursor the sync service keeps in memory; NoCursor before its first pull
    syncStep,       \* a sync run: "idle", "pushing", "pulling" or "applying"
    syncBatch,      \* what it pushes, then what it pulled
    syncsDone,
    deleteModal,    \* deleteModalOpen
    wipeStep,       \* where handleDeleteAllData is
    deleteError,    \* the error it shows
    wipes,
    backups,        \* the files in the backup directory
    shownBackups, creatingBackup, restoringBackup,
    backupsRead,    \* a fetchBackups is under way
    restored,       \* a backup was put back and the page not yet reloaded
    wiped,          \* history: what the last completed deletion deleted
    doomed,         \* history: what the deletion under way deletes
    crossedRun,     \* history: a deletion or a restore ran into a sync, or was local only
    halfWiped       \* history: a deletion failed on the server

maintenanceVars == <<localDb, serverRows, memCursor, syncStep, syncBatch, syncsDone, deleteModal, wipeStep,
                     deleteError, wipes, backups, shownBackups, creatingBackup, restoringBackup,
                     backupsRead, restored, wiped, doomed, crossedRun, halfWiped>>
runVars == <<memCursor, syncStep, syncBatch, syncsDone>>
wipeVars == <<deleteModal, wipeStep, deleteError, wipes, wiped, doomed, crossedRun, halfWiped>>
backupVars == <<backups, shownBackups, creatingBackup, restoringBackup, backupsRead, restored>>

NoCursor == [known |-> FALSE, rows |-> {}]
NoBackup == 0
EmptyDb == [rows |-> {}, queued |-> {}, cursor |-> {}]
(* window.location.reload(): what the page held is gone, a run under way too. *)
Reload ==
    /\ memCursor' = NoCursor /\ syncStep' = "idle" /\ syncBatch' = {}
    /\ deleteModal' = FALSE /\ wipeStep' = "none" /\ deleteError' = FALSE
    /\ creatingBackup' = FALSE /\ restoringBackup' = NoBackup /\ backupsRead' = TRUE
    /\ restored' = FALSE
-----------------------------------------------------------------------------
Record(r) ==
    /\ r \notin localDb.rows \cup serverRows \cup wiped \cup doomed
    /\ localDb' = [localDb EXCEPT !.rows = @ \cup {r}, !.queued = @ \cup {r}]
    /\ UNCHANGED <<serverRows, runVars, wipeVars, backupVars>>
SyncStarts ==
    /\ syncStep = "idle" /\ syncsDone < MaxSyncs /\ syncsDone' = syncsDone + 1
    /\ syncStep' = "pushing" /\ syncBatch' = localDb.queued
    /\ crossedRun' = (crossedRun \/ wipeStep # "none" \/ restored)
    /\ UNCHANGED <<localDb, serverRows, memCursor, deleteModal, wipeStep, deleteError, wipes, wiped, doomed,
                   halfWiped, backupVars>>
SyncPushes ==
    /\ syncStep = "pushing" /\ syncStep' = "pulling"
    /\ serverRows' = serverRows \cup syncBatch
    /\ localDb' = [localDb EXCEPT !.queued = @ \ syncBatch] /\ syncBatch' = {}
    /\ UNCHANGED <<memCursor, syncsDone, wipeVars, backupVars>>
(* The cursor in memory hides the one in the database.                       *)
Cursor == IF memCursor.known THEN memCursor.rows ELSE localDb.cursor
SyncPulls ==
    /\ syncStep = "pulling" /\ syncStep' = "applying" /\ syncBatch' = serverRows \ Cursor
    /\ UNCHANGED <<localDb, serverRows, memCursor, syncsDone, wipeVars, backupVars>>
SyncApplies ==
    /\ syncStep = "applying" /\ syncStep' = "idle" /\ syncBatch' = {}
    /\ localDb' = [localDb EXCEPT !.rows = @ \cup syncBatch, !.cursor = Cursor \cup syncBatch]
    /\ memCursor' = [known |-> TRUE, rows |-> Cursor \cup syncBatch]
    /\ UNCHANGED <<serverRows, syncsDone, wipeVars, backupVars>>
-----------------------------------------------------------------------------
OpenDeleteModal ==
    /\ ~deleteModal /\ deleteModal' = TRUE /\ deleteError' = FALSE
    /\ UNCHANGED <<localDb, serverRows, runVars, wipeStep, wipes, wiped, doomed, crossedRun, halfWiped,
                   backupVars>>
CloseDeleteModal ==
    /\ deleteModal /\ deleteModal' = FALSE
    /\ UNCHANGED <<localDb, serverRows, runVars, wipeStep, deleteError, wipes, wiped, doomed, crossedRun,
                   halfWiped, backupVars>>
(* The button loads, and is disabled, while a deletion is under way.         *)
DeleteAllOffered == deleteModal /\ wipeStep = "none"
handleDeleteAllData ==
    /\ DeleteAllOffered /\ wipes < MaxWipes /\ wipes' = wipes + 1
    /\ wipeStep' = "local" /\ deleteError' = FALSE
    /\ crossedRun' = (crossedRun \/ syncStep # "idle")
    /\ UNCHANGED <<localDb, serverRows, runVars, deleteModal, wiped, doomed, halfWiped, backupVars>>
(* delete_all_data: refused when no active store has the typed name.         *)
deleteAllData ==
    /\ wipeStep = "local"
    /\ \/ localDb' = EmptyDb /\ wipeStep' = "token" /\ doomed' = localDb.rows \cup serverRows
          /\ UNCHANGED deleteError
       \/ wipeStep' = "none" /\ deleteError' = TRUE /\ UNCHANGED <<localDb, doomed>>
    /\ UNCHANGED <<serverRows, runVars, deleteModal, wipes, wiped, crossedRun, halfWiped, backupVars>>
(* The deletion is reported as complete.                                     *)
clearLocalBusinessCaches ==
    /\ Reload /\ wiped' = wiped \cup doomed /\ doomed' = {}
    /\ UNCHANGED <<localDb, syncsDone, wipes, halfWiped, backups, shownBackups>>
(* Without a token the server is passed over.                                *)
TokenIsRead(token) ==
    /\ wipeStep = "token"
    /\ \/ token /\ wipeStep' = "server"
          /\ UNCHANGED <<localDb, serverRows, runVars, deleteModal, deleteError, wipes, wiped, doomed,
                         crossedRun, halfWiped, backupVars>>
       \/ ~token /\ clearLocalBusinessCaches /\ crossedRun' = TRUE /\ UNCHANGED serverRows
\* mutant: the failure of the server is only logged
ServerWipeSwallowed(done, answered) ==
    /\ wipeStep = "server"
    /\ serverRows' = IF done THEN {} ELSE serverRows
    /\ done \/ ~answered
    /\ clearLocalBusinessCaches /\ UNCHANGED crossedRun
wipeServerData(done, answered) ==
    /\ wipeStep = "server"
    /\ serverRows' = IF done THEN {} ELSE serverRows
    /\ \/ done /\ answered /\ clearLocalBusinessCaches /\ UNCHANGED crossedRun
       \/ /\ ~answered /\ wipeStep' = "none" /\ deleteError' = TRUE /\ doomed' = {}
          /\ halfWiped' = TRUE
          /\ UNCHANGED <<localDb, runVars, deleteModal, wipes, wiped, crossedRun, backupVars>>
-----------------------------------------------------------------------------
CreateBackupOffered == ~creatingBackup /\ restoringBackup = NoBackup
handleCreateBackup ==
    /\ CreateBackupOffered /\ Cardinality(DOMAIN backups) < MaxBackups /\ creatingBackup' = TRUE
    /\ UNCHANGED <<localDb, serverRows, runVars, wipeVars, backups, shownBackups, restoringBackup, backupsRead, restored>>
(* The snapshot is taken and the list read again, or the command fails.      *)
\* mutant: the list is not read again
ReadNoBackups == UNCHANGED backupsRead
fetchBackups == backupsRead' = TRUE
createLocalBackup ==
    /\ creatingBackup /\ creatingBackup' = FALSE
    /\ \/ /\ backups' = [b \in DOMAIN backups \cup {Cardinality(DOMAIN backups) + 1} |->
                            IF b \in DOMAIN backups THEN backups[b] ELSE localDb]
          /\ fetchBackups
       \/ UNCHANGED <<backups, backupsRead>>
    /\ UNCHANGED <<localDb, serverRows, runVars, wipeVars, shownBackups, restoringBackup, restored>>
listLocalBackups ==
    /\ backupsRead /\ backupsRead' = FALSE /\ shownBackups' = DOMAIN backups
    /\ UNCHANGED <<localDb, serverRows, runVars, wipeVars, backups, creatingBackup, restoringBackup, restored>>
RestoreOffered(b) == restoringBackup = NoBackup /\ b \in shownBackups /\ ~backupsRead
handleRestoreBackup(b) ==
    /\ RestoreOffered(b) /\ restoringBackup' = b
    /\ UNCHANGED <<localDb, serverRows, runVars, wipeVars, backups, shownBackups, creatingBackup, backupsRead, restored>>
restoreFromBackup ==
    /\ restoringBackup # NoBackup /\ ~restored
    /\ \/ /\ localDb' = backups[restoringBackup] /\ restored' = TRUE
          /\ wiped' = {} /\ doomed' = {} /\ crossedRun' = (crossedRun \/ syncStep # "idle" \/ wipeStep # "none")
          /\ UNCHANGED <<restoringBackup, deleteModal, wipeStep, deleteError, wipes, halfWiped>>
       \/ restoringBackup' = NoBackup /\ UNCHANGED <<localDb, restored, wipeVars>>
    /\ UNCHANGED <<serverRows, runVars, backups, shownBackups, creatingBackup, backupsRead>>
(* The message was read: the page is loaded anew.                            *)
\* mutant: the page goes on with what it holds in memory
GoesOnRestored ==
    /\ restored /\ restored' = FALSE /\ restoringBackup' = NoBackup
    /\ UNCHANGED <<localDb, serverRows, runVars, wipeVars, backups, shownBackups, creatingBackup, backupsRead>>
ReloadRestored ==
    /\ restored /\ Reload
    /\ UNCHANGED <<localDb, serverRows, syncsDone, wipes, backups, shownBackups, wiped, doomed, crossedRun,
                   halfWiped>>
-----------------------------------------------------------------------------
MaintenanceInit ==
    /\ localDb = EmptyDb /\ serverRows = {} /\ memCursor = NoCursor
    /\ syncStep = "idle" /\ syncBatch = {} /\ syncsDone = 0
    /\ deleteModal = FALSE /\ wipeStep = "none" /\ deleteError = FALSE /\ wipes = 0
    /\ backups = <<>> /\ shownBackups = {} /\ creatingBackup = FALSE /\ restoringBackup = NoBackup
    /\ backupsRead = TRUE /\ restored = FALSE /\ wiped = {} /\ doomed = {} /\ crossedRun = FALSE /\ halfWiped = FALSE

MaintenanceNext ==
    \/ \E r \in Records : Record(r)
    \/ SyncStarts \/ SyncPushes \/ SyncPulls \/ SyncApplies
    \/ OpenDeleteModal \/ CloseDeleteModal \/ handleDeleteAllData \/ deleteAllData
    \/ \E token \in BOOLEAN : TokenIsRead(token)
    \/ \E done, answered \in BOOLEAN : wipeServerData(done, answered)
    \/ handleCreateBackup \/ createLocalBackup \/ listLocalBackups
    \/ \E b \in shownBackups : handleRestoreBackup(b)
    \/ restoreFromBackup \/ ReloadRestored
-----------------------------------------------------------------------------
\* What the variables hold.
MaintenanceTypeOK ==
    /\ localDb.rows \subseteq Records /\ localDb.queued \subseteq Records /\ serverRows \subseteq Records
    /\ syncStep \in {"idle", "pushing", "pulling", "applying"} /\ syncBatch \subseteq Records
    /\ wipeStep \in {"none", "local", "token", "server"}
    /\ \A b \in {deleteModal, deleteError, creatingBackup, backupsRead, restored, crossedRun,
                halfWiped} : b \in BOOLEAN
    /\ syncsDone \in 0..MaxSyncs /\ wipes \in 0..MaxWipes /\ DOMAIN backups \subseteq 1..MaxBackups
    /\ shownBackups \subseteq DOMAIN backups /\ restoringBackup \in {NoBackup} \cup DOMAIN backups
    /\ wiped \subseteq Records /\ doomed \subseteq Records

\* What a deletion reported as complete has deleted comes back neither here nor
\* on the server (handleDeleteAllData gives up when the server did not delete),
\* unless a backup is put back, a sync was under way during the deletion or no
\* token was at hand and the server was passed over.
DeletedStaysDeleted ==
    ~crossedRun => wiped \cap (localDb.rows \cup serverRows \cup localDb.queued) = {}

\* What the pull's cursor covers is in the local database, so that nothing is
\* left out of every later pull: the deletion clears the cursor with the rows,
\* and after a restore the page is loaded anew, because the sync service hides
\* the restored cursor behind the one it keeps in memory. Not so once a deletion
\* or a restore ran into a sync, or the deletion failed on the server.
PulledIsHere ==
    ~crossedRun /\ ~halfWiped /\ wipeStep = "none" /\ ~restored => Cursor \cap serverRows \subseteq localDb.rows

\* Once the list of backups is read it names every file, so that the newest
\* backup can be chosen (handleCreateBackup reads it again).
BackupsAreListed == ~backupsRead => shownBackups = DOMAIN backups
=============================================================================
