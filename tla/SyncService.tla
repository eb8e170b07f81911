---------------------------- MODULE SyncService ----------------------------
(***************************************************************************)
(* What tauriSyncService keeps in memory: the in-progress flag, the status  *)
(* indicator, the queue of stock operations that are coalesced before a     *)
(* sync, the optimistic updates that wait for a receipt, and the restore    *)
(* mode with its background phase. OutboxSync has what a run does to the    *)
(* outbox and the server; here a run takes receipts for recorded            *)
(* transactions. An operation is named by the transaction in its payload.   *)
(***************************************************************************)
EXTENDS Integers, FiniteSets

CONSTANTS Txs, MaxRuns, MaxRestores   \* transactions; bounds

ASSUME ServiceAssumption == MaxRuns \in Nat /\ MaxRestores \in Nat

VARIABLES
    txState,        \* its outbox row: "none", "queued", "synced" or "rejected" for good
    opState,        \* its entry in optimisticUpdates: "none", "syncing", "confirmed", "failed", "gone"
    pendingOps,     \* pendingOperations
    coalescing,     \* _coalescingTimer is set
    batchLeft,      \* batchStockOperations: the operations it still has
    batchFailed,    \* and what became of the others; "none": no call is under way
    syncInProgress, syncStatus,
    runs,           \* triggerSync calls under way: [no, step]
    runsStarted,
    restoreStep,    \* triggerRestoreSync: "none", "token", "fetch", "apply", "transactions"
    background,     \* triggerBackgroundRestore: "none", "timer", "important", "background"
    restores,
    restoreShown,   \* the last progress: "none", "waiting", "usable" or "complete"
    criticalIn,     \* the critical data was stored
    cursorSet,      \* history: the restore set the cursor of the pull
    thrown,         \* history: a run ended by an exception
    flushedLate     \* history: an operation was flushed after its receipt

serviceVars == <<txState, opState, pendingOps, coalescing, batchLeft, batchFailed, syncInProgress, syncStatus,
                 runs, runsStarted, restoreStep, background, restores, restoreShown, criticalIn, cursorSet,
                 thrown, flushedLate>>
opVars == <<txState, opState, pendingOps, coalescing, batchLeft, batchFailed, flushedLate>>
restoreModeVars == <<restoreStep, background, restores, restoreShown, criticalIn, cursorSet>>
flagVars == <<syncInProgress, syncStatus, runs, runsStarted, thrown>>
-----------------------------------------------------------------------------
(* triggerSync: it looks at the flag, then waits for the cursor and a token  *)
(* before it raises it.                                                      *)
triggerSync ==
    IF syncInProgress THEN UNCHANGED <<runs, runsStarted>>
    ELSE /\ runsStarted < MaxRuns /\ runsStarted' = runsStarted + 1
         /\ runs' = runs \cup {[no |-> runsStarted, step |-> "token"]}
SyncRequested ==
    /\ ~syncInProgress /\ triggerSync
    /\ UNCHANGED <<opVars, restoreModeVars, syncInProgress, syncStatus, thrown>>
RunGetsToken(r) ==
    /\ r \in runs /\ r.step = "token"
    /\ \/ /\ runs' = (runs \ {r}) \cup {[r EXCEPT !.step = "running"]}
          /\ syncInProgress' = TRUE /\ syncStatus' = "syncing" /\ UNCHANGED thrown
       \/ runs' = runs \ {r} /\ syncStatus' = "error" /\ UNCHANGED <<syncInProgress, thrown>>
       \/ runs' = runs \ {r} /\ thrown' = TRUE /\ UNCHANGED <<syncInProgress, syncStatus>>
    /\ UNCHANGED <<opVars, restoreModeVars, runsStarted>>
_confirmOptimisticUpdate(t) == IF opState[t] \in {"syncing", "confirmed", "failed"} THEN "confirmed" ELSE opState[t]
rollbackOptimisticUpdate(t) == IF opState[t] = "none" THEN "none" ELSE "gone"
\* mutant: a permanent rejection leaves the optimistic update
KeepOnReject(t, accepted) == IF accepted THEN _confirmOptimisticUpdate(t) ELSE opState[t]
AfterReceipt(t, accepted) == IF accepted THEN _confirmOptimisticUpdate(t) ELSE rollbackOptimisticUpdate(t)
ReceiptArrives(r, t, accepted) ==
    /\ r \in runs /\ r.step = "running" /\ txState[t] = "queued"
    /\ txState' = [txState EXCEPT ![t] = IF accepted THEN "synced" ELSE "rejected"]
    /\ opState' = [opState EXCEPT ![t] = AfterReceipt(t, accepted)]
    /\ UNCHANGED <<pendingOps, coalescing, batchLeft, batchFailed, flushedLate, restoreModeVars, flagVars>>
RunEnds(r, outcome) ==
    /\ r \in runs /\ r.step = "running" /\ runs' = runs \ {r}
    /\ syncStatus' = outcome /\ syncInProgress' = FALSE
    /\ UNCHANGED <<opVars, restoreModeVars, runsStarted, thrown>>
RunThrows(r) ==
    /\ r \in runs /\ r.step = "running" /\ runs' = runs \ {r}
    /\ syncInProgress' = FALSE /\ thrown' = TRUE
    /\ UNCHANGED <<opVars, restoreModeVars, syncStatus, runsStarted>>
-----------------------------------------------------------------------------
RecordTx(t) ==
    /\ txState[t] = "none" /\ t \notin batchLeft /\ txState' = [txState EXCEPT ![t] = "queued"]
    /\ UNCHANGED <<opState, pendingOps, coalescing, batchLeft, batchFailed, flushedLate, restoreModeVars, flagVars>>
enqueueStockOperation(t) ==
    /\ t \notin pendingOps /\ opState[t] = "none" /\ txState[t] = "queued"
    /\ pendingOps' = pendingOps \cup {t} /\ coalescing' = TRUE
    /\ UNCHANGED <<txState, opState, batchLeft, batchFailed, flushedLate, restoreModeVars, flagVars>>
_flushPendingOperations ==
    /\ coalescing /\ coalescing' = FALSE /\ pendingOps' = {}
    /\ opState' = [t \in Txs |-> IF t \in pendingOps THEN "syncing" ELSE opState[t]]
    /\ flushedLate' = (flushedLate \/ \E t \in pendingOps : txState[t] # "queued")
    /\ syncStatus' = "syncing" /\ triggerSync
    /\ UNCHANGED <<txState, batchLeft, batchFailed, restoreModeVars, syncInProgress, thrown>>
applyOptimisticUpdate(t) ==
    /\ txState[t] = "queued" /\ opState[t] = "none" /\ t \notin pendingOps
    /\ opState' = [opState EXCEPT ![t] = "syncing"]
    /\ UNCHANGED <<txState, pendingOps, coalescing, batchLeft, batchFailed, flushedLate, restoreModeVars, flagVars>>

(* batchStockOperations: one add_outbox_event after the other.               *)
batchStockOperations ==
    /\ batchFailed = "none" /\ batchLeft' = {t \in Txs : txState[t] = "none"} /\ batchLeft' # {}
    /\ batchFailed' = "no" /\ syncStatus' = "syncing"
    /\ UNCHANGED <<txState, opState, pendingOps, coalescing, flushedLate, restoreModeVars, syncInProgress, runs,
                   runsStarted, thrown>>
BatchStep(t, ok) ==
    /\ t \in batchLeft /\ batchLeft' = batchLeft \ {t}
    /\ txState' = IF ok THEN [txState EXCEPT ![t] = "queued"] ELSE txState
    /\ opState' = [opState EXCEPT ![t] = IF ok THEN "confirmed" ELSE "failed"]
    /\ batchFailed' = IF ok THEN batchFailed ELSE "yes"
    /\ syncStatus' = "syncing"
    /\ UNCHANGED <<pendingOps, coalescing, flushedLate, restoreModeVars, syncInProgress, runs, runsStarted, thrown>>
\* mutant: the indicator is only set when all went well
BatchEndsWell ==
    /\ batchFailed # "none" /\ batchLeft = {} /\ batchFailed' = "none"
    /\ syncStatus' = IF batchFailed = "yes" THEN syncStatus ELSE "synced"
    /\ UNCHANGED <<txState, opState, pendingOps, coalescing, batchLeft, flushedLate, restoreModeVars, syncInProgress,
                   runs, runsStarted, thrown>>
BatchEnds ==
    /\ batchFailed # "none" /\ batchLeft = {} /\ batchFailed' = "none"
    /\ syncStatus' = IF batchFailed = "yes" THEN "error" ELSE "synced"
    /\ UNCHANGED <<txState, opState, pendingOps, coalescing, batchLeft, flushedLate, restoreModeVars, syncInProgress,
                   runs, runsStarted, thrown>>
-----------------------------------------------------------------------------
(* The restore mode of triggerSync: here the flag is raised at once.         *)
triggerRestoreSync ==
    /\ ~syncInProgress /\ restoreStep = "none" /\ restores < MaxRestores /\ restores' = restores + 1
    /\ syncInProgress' = TRUE /\ syncStatus' = "syncing" /\ restoreStep' = "token"
    /\ UNCHANGED <<opVars, background, restoreShown, criticalIn, cursorSet, runs, runsStarted, thrown>>
RestoreFails ==
    /\ restoreStep \in {"token", "fetch", "apply"} /\ restoreStep' = "none"
    /\ syncInProgress' = FALSE /\ syncStatus' = "error"
    /\ UNCHANGED <<opVars, background, restores, restoreShown, criticalIn, cursorSet, runs, runsStarted, thrown>>
RestoreGoesOn ==
    /\ restoreStep \in {"token", "fetch"}
    /\ restoreStep' = IF restoreStep = "token" THEN "fetch" ELSE "apply"
    /\ restoreShown' = "waiting"
    /\ UNCHANGED <<opVars, background, restores, criticalIn, cursorSet, flagVars>>
(* apply_restore_critical, whose failure ends the restore.                   *)
\* mutant: its failure is passed over like that of the transactions
CriticalPassedOver ==
    /\ restoreStep = "apply" /\ restoreStep' = "transactions" /\ criticalIn' \in {criticalIn, TRUE}
    /\ UNCHANGED <<opVars, background, restores, restoreShown, cursorSet, flagVars>>
CriticalStored ==
    /\ restoreStep = "apply" /\ restoreStep' = "transactions" /\ criticalIn' = TRUE
    /\ UNCHANGED <<opVars, background, restores, restoreShown, cursorSet, flagVars>>
(* apply_restore_transactions, stored or not; the cursor moves and the rest  *)
(* follows a second later, outside the flag.                                 *)
RestoreEnds ==
    /\ restoreStep = "transactions" /\ restoreStep' = "none"
    /\ restoreShown' = "usable" /\ cursorSet' = TRUE /\ background' = "timer"
    /\ syncStatus' = "synced" /\ syncInProgress' = FALSE
    /\ UNCHANGED <<opVars, restores, criticalIn, runs, runsStarted, thrown>>
(* Two more downloads; an answer that is not ok is passed over, an exception *)
(* ends the phase. The commands that store them do nothing yet.              *)
triggerBackgroundRestore ==
    /\ background # "none"
    /\ \/ background = "timer" /\ background' = "important" /\ UNCHANGED restoreShown
       \/ background = "important" /\ background' \in {"background", "none"} /\ UNCHANGED restoreShown
       \/ /\ background = "background" /\ background' = "none"
          /\ restoreShown' \in {restoreShown, "complete"}
    /\ UNCHANGED <<opVars, restoreStep, restores, criticalIn, cursorSet, flagVars>>
-----------------------------------------------------------------------------
ServiceInit ==
    /\ txState = [t \in Txs |-> "none"] /\ opState = [t \in Txs |-> "none"]
    /\ pendingOps = {} /\ coalescing = FALSE /\ batchLeft = {} /\ batchFailed = "none"
    /\ syncInProgress = FALSE /\ syncStatus = "idle" /\ runs = {} /\ runsStarted = 0
    /\ restoreStep = "none" /\ background = "none" /\ restores = 0 /\ restoreShown = "none"
    /\ criticalIn = FALSE /\ cursorSet = FALSE /\ thrown = FALSE /\ flushedLate = FALSE

ServiceNext ==
    \/ SyncRequested
    \/ \E r \in runs :
          \/ RunGetsToken(r) \/ RunThrows(r)
          \/ \E outcome \in {"error", "synced"} : RunEnds(r, outcome)
          \/ \E t \in Txs, accepted \in BOOLEAN : ReceiptArrives(r, t, accepted)
    \/ \E t \in Txs : RecordTx(t) \/ enqueueStockOperation(t) \/ applyOptimisticUpdate(t)
    \/ _flushPendingOperations \/ batchStockOperations \/ BatchEnds
    \/ \E t \in batchLeft, ok \in BOOLEAN : BatchStep(t, ok)
    \/ triggerRestoreSync \/ RestoreFails \/ RestoreGoesOn \/ CriticalStored \/ RestoreEnds
    \/ triggerBackgroundRestore
-----------------------------------------------------------------------------
\* What the variables hold.
ServiceTypeOK ==
    /\ txState \in [Txs -> {"none", "queued", "synced", "rejected"}]
    /\ opState \in [Txs -> {"none", "syncing", "confirmed", "failed", "gone"}]
    /\ pendingOps \subseteq Txs /\ batchLeft \subseteq Txs /\ batchFailed \in {"none", "no", "yes"}
    /\ \A b \in {coalescing, syncInProgress, criticalIn, cursorSet, thrown, flushedLate} : b \in BOOLEAN
    /\ syncStatus \in {"idle", "syncing", "synced", "error"}
    /\ restoreStep \in {"none", "token", "fetch", "apply", "transactions"}
    /\ background \in {"none", "timer", "important", "background"}
    /\ restoreShown \in {"none", "waiting", "usable", "complete"}

\* The indicator says "syncing" only while something is under way that will set
\* it again: it never stays there, however runs, restores, flushes and batches
\* overlap, unless a run ended by an exception (triggerSync sets it only at the
\* regular end).
IndicatorSettles ==
    syncStatus = "syncing" /\ ~thrown =>
        runs # {} \/ restoreStep # "none" \/ batchFailed # "none"

\* Once its transaction has its final receipt, an optimistic update is confirmed
\* or rolled back, whichever run brought the receipt (the two loops over
\* optimisticUpdates), unless the operation was still being coalesced then and
\* was registered only afterwards.
OptimisticSettles ==
    ~flushedLate => \A t \in Txs : txState[t] \in {"synced", "rejected"} => opState[t] # "syncing"

\* The application is declared usable, and the pull's cursor moved past the
\* restored data, only when the critical data was stored (triggerRestoreSync
\* gives up when apply_restore_critical fails).
UsableIsRestored == restoreShown \in {"usable", "complete"} \/ cursorSet => criticalIn
=============================================================================
