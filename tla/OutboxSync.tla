----------------------------- MODULE OutboxSync -----------------------------
(***************************************************************************)
(* The desktop's push path: the local ledger and its durable outbox in     *)
(* SQLite (apps/desktop/src-tauri/src/lib.rs), the sync runs that drain it *)
(* (apps/desktop/src/services/tauriSyncService.ts), an unreliable network  *)
(* and the central ledger, which is LedgerAbs: what Ingestion is shown to  *)
(* implement.  Each SQLite call of a sync run, each HTTP request and each  *)
(* item the server ingests is a step of its own; the user's edits, which   *)
(* are not wrapped in a SQLite transaction, are two steps.                 *)
(***************************************************************************)
EXTENDS Integers, FiniteSets, FiniteSetsExt

CONSTANTS
    TxIds,        \* inventory_transactions.transaction_id
    Keys, KeyOf,  \* the (store, product, bucket) triple a transaction moves
    Moves,        \* the movements the user may record: [tx, delta]
    Edits,        \* the quantities the user may correct them to: [tx, delta]
    Deletable,    \* the transactions the user may delete
    Refused,      \* transactions whose payload the server's validation refuses
    Runs,         \* concurrent callers of triggerSync
    Forced,       \* those that pass force: true
    BatchSize,    \* rows per push
    MaxSyncRetries,
    EditsInFlight,      \* do edits overlap sync runs?
    ServedAfterTimeout, \* may the server still serve an aborted request?
    Expires,            \* may the retention window pass?
    MaxEdits,     \* bound: edits and deletions of a behaviour
    MaxFaults,    \* bound: network errors and failed writes
    MaxCrashes    \* bound: crashes of the application

Events == {"EVT", "VOID"} \X TxIds     \* outbox_events.event_id
EVT(t) == <<"EVT", t>>
VOID(t) == <<"VOID", t>>
Movements == [tx : TxIds, delta : Int]

ASSUME OutboxAssumption ==
    /\ IsFiniteSet(TxIds)
    /\ KeyOf \in [TxIds -> Keys]
    /\ Moves \subseteq Movements
    /\ Edits \subseteq Movements
    /\ Deletable \subseteq TxIds
    /\ Refused \subseteq TxIds
    /\ Forced \subseteq Runs
    /\ BatchSize \in Nat \ {0}
    /\ MaxSyncRetries \in Nat
    /\ MaxEdits \in Nat
    /\ MaxFaults \in Nat
    /\ MaxCrashes \in Nat
    /\ {EditsInFlight, ServedAfterTimeout, Expires} \subseteq BOOLEAN

VARIABLES
    \* SQLite: survives a crash
    row,         \* inventory_transactions: [status, delta]
    outbox,      \* outbox_events: [status, delta, due, born]
    created,     \* how many outbox rows were ever inserted (created_at)
    \* the sync service's memory: lost in a crash
    syncing,     \* _syncInProgress
    pc, batch, todo, verdict, acks, attempts,
    ui,          \* the edit command being executed
    \* the network and the central ledger
    late,        \* items of requests the client has given up on
    posted, delta, balance,
    \* bounds
    edits, faults, crashes

localVars == <<row, outbox, created>>
runVars == <<syncing, pc, batch, todo, verdict, acks, attempts>>
serverVars == <<posted, delta, balance>>
bounds == <<edits, faults, crashes>>
vars == <<row, outbox, created, syncing, pc, batch, todo, verdict, acks, attempts,
          ui, late, posted, delta, balance, edits, faults, crashes>>

Ledger == INSTANCE LedgerAbs WITH Deltas <- Int

OutboxStatuses == {"NONE", "PENDING", "SENDING", "SYNCED", "RETRYABLE_ERROR",
                   "PERMANENT_REJECTION"}
Deliverable == {"PENDING", "SENDING", "RETRYABLE_ERROR"}
RowStatuses == {"none", "deleted", "PENDING", "SYNCED", "RETRYABLE_ERROR",
                "PERMANENT_REJECTION"}
Verdicts == {"none", "accepted", "permanent", "retryable"}
PCs == {"idle", "token", "fetch", "mark", "waiting", "apply", "failed", "ending"}

OutboxRows == [status : OutboxStatuses, delta : Int, due : BOOLEAN, born : Nat]
LedgerRows == [status : RowStatuses, delta : Int]
NoEvent == [status |-> "NONE", delta |-> 0, due |-> TRUE, born |-> 0]
Idle == [op |-> "none"]
Commands == [op : {"update", "delete"}, tx : TxIds, delta : Int, status : RowStatuses]

Exists(t) == row[t].status \notin {"none", "deleted"}
Active(r) == pc[r] \in {"fetch", "mark", "waiting", "apply", "failed", "ending"}

TypeOK ==
    /\ row \in [TxIds -> LedgerRows]
    /\ outbox \in [Events -> OutboxRows]
    /\ created \in Nat
    /\ syncing \in BOOLEAN
    /\ pc \in [Runs -> PCs]
    /\ batch \in [Runs -> SUBSET (Events \X Int)]
    /\ todo \in [Runs -> SUBSET Movements]
    /\ verdict \in [Runs -> [TxIds -> Verdicts]]
    /\ acks \in [Runs -> SUBSET {"outbox", "rows"}]
    /\ attempts \in [Runs -> 0..MaxSyncRetries]
    /\ ui \in Commands \cup {Idle}
    /\ late \subseteq Movements
    /\ posted \subseteq TxIds
    /\ delta \in [TxIds -> Int]
    /\ balance \in [Keys -> Int]
    /\ edits \in Nat
    /\ faults \in Nat
    /\ crashes \in Nat

Init ==
    /\ row = [t \in TxIds |-> [status |-> "none", delta |-> 0]]
    /\ outbox = [e \in Events |-> NoEvent]
    /\ created = 0
    /\ syncing = FALSE
    /\ pc = [r \in Runs |-> "idle"]
    /\ batch = [r \in Runs |-> {}]
    /\ todo = [r \in Runs |-> {}]
    /\ verdict = [r \in Runs |-> [t \in TxIds |-> "none"]]
    /\ acks = [r \in Runs |-> {}]
    /\ attempts = [r \in Runs |-> 0]
    /\ ui = Idle
    /\ late = {}
    /\ Ledger!LedgerInit
    /\ edits = 0
    /\ faults = 0
    /\ crashes = 0

-----------------------------------------------------------------------------
(* The user's commands. *)

(* Stock on hand as the local ledger has it; how stock_balances is kept in   *)
(* step with it is the subject of StockCommands.                             *)
Stock(k) == MapThenSumSet(LAMBDA t : row[t].delta,
                          {t \in TxIds : Exists(t) /\ KeyOf[t] = k})

Enqueued(d) == [status |-> "PENDING", delta |-> d, due |-> TRUE, born |-> created + 1]

(* The commands not declared (async) run on the application's main thread,   *)
(* one at a time; get_pending_outbox_events and the network do not wait.     *)
MainThreadFree == ui = Idle

(* receive_stock and sell_stock write the ledger row and its outbox event in *)
(* one SQLite transaction; a decrease must be covered by the stock on hand.  *)
Record(t, d) ==
    /\ row[t].status = "none"
    /\ MainThreadFree
    /\ d >= 0 \/ Stock(KeyOf[t]) + d >= 0
    /\ row' = [row EXCEPT ![t] = [status |-> "PENDING", delta |-> d]]
    /\ outbox' = [outbox EXCEPT ![EVT(t)] = Enqueued(d)]
    /\ created' = created + 1
    /\ UNCHANGED <<runVars, ui, late, serverVars, bounds>>

MayEdit ==
    /\ MainThreadFree
    /\ edits < MaxEdits
    /\ EditsInFlight \/ ~ \E r \in Runs : Active(r)
    /\ edits' = edits + 1

(* update_transaction: the row first ...                                     *)
UpdateRow(t, d) ==
    /\ Exists(t)
    /\ MayEdit
    /\ row' = [row EXCEPT ![t] = [status |-> row[t].status, delta |-> d]]
    /\ ui' = [op |-> "update", tx |-> t, delta |-> d, status |-> row[t].status]
    /\ UNCHANGED <<outbox, created, runVars, late, serverVars, faults, crashes>>

(* mutant: the payload is replaced but the status is not reset               *)
RequeuedQuietly(e, d) ==
    IF outbox[e].status = "NONE" THEN NoEvent
    ELSE [status |-> outbox[e].status, delta |-> d, due |-> outbox[e].due, born |-> outbox[e].born]

Requeued(e, d) ==
    IF outbox[e].status = "NONE" THEN NoEvent   \* UPDATE of no row
    ELSE [status |-> "PENDING", delta |-> d, due |-> outbox[e].due, born |-> outbox[e].born]

(* ... then the outbox event, back to PENDING with the new payload.          *)
UpdateOutbox ==
    /\ ui.op = "update"
    /\ outbox' = [outbox EXCEPT ![EVT(ui.tx)] = Requeued(EVT(ui.tx), ui.delta)]
    /\ ui' = Idle
    /\ UNCHANGED <<row, created, runVars, late, serverVars, bounds>>

(* delete_transaction: reads the row, removes it ...                         *)
DeleteRow(t) ==
    /\ Exists(t)
    /\ MayEdit
    /\ row' = [row EXCEPT ![t] = [status |-> "deleted", delta |-> 0]]
    /\ ui' = [op |-> "delete", tx |-> t, delta |-> row[t].delta, status |-> row[t].status]
    /\ UNCHANGED <<outbox, created, runVars, late, serverVars, faults, crashes>>

WithdrawnPending(e) == outbox[e]   \* mutant: the event stays queued

Withdrawn(e) ==
    IF outbox[e].status = "NONE" THEN NoEvent
    ELSE [status |-> "PERMANENT_REJECTION", delta |-> outbox[e].delta,
          due |-> outbox[e].due, born |-> outbox[e].born]

(* ... then, by the status it had read, either queues a reversal under the   *)
(* same transaction id or withdraws the event.                               *)
QueueReversal ==
    /\ ui.op = "delete"
    /\ ui.status = "SYNCED"
    /\ outbox' = [outbox EXCEPT ![VOID(ui.tx)] = Enqueued(-ui.delta)]
    /\ created' = created + 1
    /\ ui' = Idle
    /\ UNCHANGED <<row, runVars, late, serverVars, bounds>>

WithdrawEvent ==
    /\ ui.op = "delete"
    /\ ui.status # "SYNCED"
    /\ outbox' = [outbox EXCEPT ![EVT(ui.tx)] = Withdrawn(EVT(ui.tx))]
    /\ ui' = Idle
    /\ UNCHANGED <<row, created, runVars, late, serverVars, bounds>>
-----------------------------------------------------------------------------
(* triggerSync. *)

(* The flag is tested on entry, but set only after two awaits (the last sync *)
(* timestamp, the access token).                                             *)
Enter(r) ==
    /\ pc[r] = "idle"
    /\ ~syncing
    /\ pc' = [pc EXCEPT ![r] = "token"]
    /\ UNCHANGED <<localVars, syncing, batch, todo, verdict, acks, attempts, ui, late,
                   serverVars, bounds>>

Start(r) ==
    /\ pc[r] = "token"
    /\ EditsInFlight \/ ui = Idle
    /\ syncing' = TRUE
    /\ pc' = [pc EXCEPT ![r] = "fetch"]
    /\ attempts' = [attempts EXCEPT ![r] = 0]
    /\ UNCHANGED <<localVars, batch, todo, verdict, acks, ui, late, serverVars, bounds>>

Fails == faults < MaxFaults /\ faults' = faults + 1

(* Offline, or the session has expired: nothing is discarded.                *)
NoToken(r) ==
    /\ pc[r] = "token"
    /\ Fails
    /\ pc' = [pc EXCEPT ![r] = "idle"]
    /\ UNCHANGED <<localVars, syncing, batch, todo, verdict, acks, attempts, ui, late,
                   serverVars, edits, crashes>>

(* mutant: every run releases the rejected rows, not only a forced one       *)
ReleasedAlways(e, force) ==
    [status |-> IF outbox[e].status \in {"SENDING", "PERMANENT_REJECTION"} THEN "PENDING"
                ELSE outbox[e].status,
     delta |-> outbox[e].delta, due |-> outbox[e].due, born |-> outbox[e].born]
(* mutant: rows an interrupted run left SENDING are not released             *)
ReleasedRejectedOnly(e, force) ==
    LET s == outbox[e].status
    IN  [status |-> IF force /\ s = "PERMANENT_REJECTION" THEN "PENDING" ELSE s,
         delta |-> outbox[e].delta, due |-> outbox[e].due, born |-> outbox[e].born]

(* get_pending_outbox_events first releases the rows an interrupted run left *)
(* behind; a forced sync also releases rejected rows and the retry backoff.  *)
Released(e, force) ==
    LET s == outbox[e].status
    IN  [status |-> IF s = "SENDING" \/ (force /\ s = "PERMANENT_REJECTION") THEN "PENDING" ELSE s,
         delta |-> outbox[e].delta,
         due |-> outbox[e].due \/ (force /\ s = "RETRYABLE_ERROR"),
         born |-> outbox[e].born]
IsEligible(ev) == ev.status = "PENDING" \/ (ev.status = "RETRYABLE_ERROR" /\ ev.due)

(* ORDER BY created_at ASC LIMIT batchSize. *)
Oldest(ob) ==
    LET eligible == {e \in Events : IsEligible(ob[e])}
    IN  {e \in eligible : Cardinality({f \in eligible : ob[f].born < ob[e].born}) < BatchSize}

Fetch(r) ==
    /\ pc[r] = "fetch"
    /\ outbox' = [e \in Events |-> Released(e, r \in Forced)]
    /\ batch' = [batch EXCEPT ![r] = {<<e, outbox'[e].delta>> : e \in Oldest(outbox')}]
    /\ pc' = [pc EXCEPT ![r] = IF batch'[r] = {} THEN "ending" ELSE "mark"]
    /\ UNCHANGED <<row, created, syncing, todo, verdict, acks, attempts, ui, late,
                   serverVars, bounds>>

(* Rows of the batch, and the write of one status to them: the batch update  *)
(* fails as a whole when one of the rows is gone.                            *)
EventsOf(r) == {i[1] : i \in batch[r]}
AllThere(r) == \A e \in EventsOf(r) : outbox[e].status # "NONE"

(* RETRYABLE_ERROR starts a backoff, SYNCED ends one, the rest only set the  *)
(* status.                                                                   *)
WithStatus(ev, s) ==
    [status |-> s, delta |-> ev.delta, born |-> ev.born,
     due |-> IF s = "RETRYABLE_ERROR" THEN FALSE ELSE s = "SYNCED" \/ ev.due]

(* update_outbox_event_statuses: no look at the status the row has now.      *)
SetStatuses(r, new) ==
    IF AllThere(r)
    THEN [e \in Events |-> IF e \in EventsOf(r) THEN WithStatus(outbox[e], new[e]) ELSE outbox[e]]
    ELSE outbox

Items(r) == {[tx |-> i[1][2], delta |-> i[2]] : i \in batch[r]}

Send(r) ==
    /\ pc' = [pc EXCEPT ![r] = "waiting"]
    /\ todo' = [todo EXCEPT ![r] = Items(r)]
    /\ verdict' = [verdict EXCEPT ![r] = [t \in TxIds |-> "none"]]
    /\ UNCHANGED <<row, created, syncing, batch, acks, attempts, ui, late, serverVars, edits, crashes>>

(* Mark the rows SENDING and POST them.  The read of the payloads is over by *)
(* now; an error of the write is swallowed.                                  *)
MarkAndSend(r) ==
    /\ pc[r] = "mark"
    /\ MainThreadFree
    /\ outbox' = SetStatuses(r, [e \in Events |-> "SENDING"])
    /\ Send(r)
    /\ UNCHANGED faults

SendUnmarked(r) ==
    /\ pc[r] = "mark"
    /\ Fails
    /\ Send(r)
    /\ UNCHANGED outbox

(* The server ingests a push item by item, increases before decreases.       *)
Priority(d) == CASE d = 0 -> 0 [] d > 0 -> 1 [] OTHER -> 2

(* mutant: the server answers before it commits, and the commit may fail     *)
IngestUnchecked(t, d, v) ==
    /\ v = "accepted"
    /\ Ledger!Restate(t, d) \/ Ledger!PostOnce(t, d) \/ UNCHANGED serverVars

(* The ledger's answer to one item.                                          *)
Ingest(t, d, v) ==
    \/ v = "accepted" /\ Ledger!Restate(t, d)
    \/ /\ v = "accepted"
       /\ t \notin Refused
       /\ balance[KeyOf[t]] + d >= 0
       /\ Ledger!PostOnce(t, d)
    \/ /\ t \notin posted
       /\ v = IF t \in Refused THEN "permanent" ELSE "retryable"
       /\ t \in Refused \/ balance[KeyOf[t]] + d < 0
       /\ UNCHANGED serverVars

ServerIngests(r) ==
    \E i \in todo[r], v \in Verdicts :
        /\ pc[r] = "waiting"
        /\ \A j \in todo[r] : Priority(i.delta) <= Priority(j.delta)
        /\ Ingest(i.tx, i.delta, v)
        /\ todo' = [todo EXCEPT ![r] = @ \ {i}]
        /\ verdict' = [verdict EXCEPT ![r] = [verdict[r] EXCEPT ![i.tx] = v]]
        /\ UNCHANGED <<localVars, syncing, pc, batch, acks, attempts, ui, late, bounds>>

Rejected(r) == {t \in TxIds : verdict[r][t] = "retryable"}
LesserOf(a, b) == IF a < b THEN a ELSE b

(* The response arrives: the retry counter restarts, each retryable          *)
(* rejection counts as an attempt.                                           *)
Reply(r) ==
    /\ pc[r] = "waiting"
    /\ todo[r] = {}
    /\ pc' = [pc EXCEPT ![r] = "apply"]
    /\ acks' = [acks EXCEPT ![r] = {"outbox", "rows"}]
    /\ attempts' = [attempts EXCEPT ![r] = LesserOf(MaxSyncRetries, Cardinality(Rejected(r)))]
    /\ UNCHANGED <<localVars, syncing, batch, todo, verdict, ui, late, serverVars, bounds>>

(* A request is given up on: REQUEST_TIMEOUT_MS, a dropped connection or a   *)
(* 5xx.  What the server has not yet ingested it may ingest later, or never. *)
Abandon(r) == late' = IF ServedAfterTimeout THEN late \cup todo[r] ELSE late

PushFails(r) ==
    /\ pc[r] = "waiting"
    /\ Fails
    /\ Abandon(r)
    /\ todo' = [todo EXCEPT ![r] = {}]
    /\ pc' = [pc EXCEPT ![r] = "failed"]
    /\ UNCHANGED <<localVars, syncing, batch, verdict, acks, attempts, ui, serverVars, edits, crashes>>

LateIngest(i, v) ==
    /\ i \in late
    /\ Ingest(i.tx, i.delta, v)
    /\ late' = late \ {i}
    /\ UNCHANGED <<localVars, runVars, ui, bounds>>

LateDrop(i) ==
    /\ i \in late
    /\ late' = late \ {i}
    /\ UNCHANGED <<localVars, runVars, ui, serverVars, bounds>>
(* The receipt's verdict decides the new status of the outbox row and of the *)
(* ledger row; an event without a receipt is retried.                        *)
TargetStatusAccepted(v) ==   \* mutant: the lifecycle's ACCEPTED is stored
    IF v = "accepted" THEN "ACCEPTED" ELSE "RETRYABLE_ERROR"
TargetStatus(v) ==
    IF v = "accepted" THEN "SYNCED"
    ELSE IF v = "permanent" THEN "PERMANENT_REJECTION" ELSE "RETRYABLE_ERROR"

(* The two status writes are started together and awaited together; either   *)
(* may fail, which is only logged.                                           *)
Acked(r, which) ==
    /\ pc[r] = "apply"
    /\ which \in acks[r]
    /\ acks' = [acks EXCEPT ![r] = @ \ {which}]
    /\ UNCHANGED <<created, syncing, pc, batch, todo, verdict, attempts, ui, late,
                   serverVars, edits, crashes>>

ApplyOutboxStatuses(r) ==
    /\ Acked(r, "outbox")
    /\ MainThreadFree
    /\ outbox' = SetStatuses(r, [e \in Events |-> TargetStatus(verdict[r][e[2]])])
    /\ UNCHANGED <<row, faults>>

(* update_transaction_sync_statuses: rows deleted meanwhile are skipped.     *)
ApplyRowStatuses(r) ==
    /\ Acked(r, "rows")
    /\ MainThreadFree
    /\ row' = [t \in TxIds |->
                 IF verdict[r][t] # "none" /\ Exists(t)
                 THEN [status |-> TargetStatus(verdict[r][t]), delta |-> row[t].delta]
                 ELSE row[t]]
    /\ UNCHANGED <<outbox, faults>>

StatusWriteFails(r) ==
    /\ \E which \in acks[r] : Acked(r, which)
    /\ Fails
    /\ UNCHANGED <<row, outbox>>

(* A full batch means there may be more.                                     *)
EndBatch(r) ==
    /\ pc[r] = "apply"
    /\ acks[r] = {}
    /\ pc' = [pc EXCEPT ![r] = IF Cardinality(batch[r]) < BatchSize THEN "ending" ELSE "fetch"]
    /\ UNCHANGED <<localVars, syncing, batch, todo, verdict, acks, attempts, ui, late,
                   serverVars, bounds>>

(* After a network error: back off and start over, up to the cap ...         *)
RetryPush(r) ==
    /\ pc[r] = "failed"
    /\ attempts[r] < MaxSyncRetries
    /\ attempts' = [attempts EXCEPT ![r] = @ + 1]
    /\ pc' = [pc EXCEPT ![r] = "fetch"]
    /\ UNCHANGED <<localVars, syncing, batch, todo, verdict, acks, ui, late, serverVars, bounds>>

(* ... then mark the batch for a later run and stop.                         *)
GiveUp(r) ==
    /\ pc[r] = "failed"
    /\ attempts[r] = MaxSyncRetries
    /\ MainThreadFree
    /\ outbox' = SetStatuses(r, [e \in Events |-> "RETRYABLE_ERROR"])
    /\ pc' = [pc EXCEPT ![r] = "ending"]
    /\ UNCHANGED <<row, created, syncing, batch, todo, verdict, acks, attempts, ui, late,
                   serverVars, bounds>>

(* finally { _syncInProgress = false }, whoever else is still running.       *)
End(r) ==
    /\ pc[r] = "ending"
    /\ syncing' = FALSE
    /\ pc' = [pc EXCEPT ![r] = "idle"]
    /\ batch' = [batch EXCEPT ![r] = {}]
    /\ verdict' = [verdict EXCEPT ![r] = [t \in TxIds |-> "none"]]
    /\ attempts' = [attempts EXCEPT ![r] = 0]
    /\ UNCHANGED <<localVars, todo, acks, ui, late, serverVars, bounds>>

-----------------------------------------------------------------------------
(* Time and failures. *)

(* next_attempt_at passes. *)
BackoffElapses(e) ==
    /\ outbox[e].status = "RETRYABLE_ERROR"
    /\ ~outbox[e].due
    /\ outbox' = [outbox EXCEPT ![e] = [status |-> "RETRYABLE_ERROR", delta |-> outbox[e].delta,
                                       due |-> TRUE, born |-> outbox[e].born]]
    /\ UNCHANGED <<row, created, runVars, ui, late, serverVars, bounds>>

TerminalOrRetried == {"SYNCED", "PERMANENT_REJECTION", "RETRYABLE_ERROR"} \* mutant: failed rows too
Terminal == {"SYNCED", "PERMANENT_REJECTION"}

(* cleanup_expired_outbox_events archives terminal rows past retention.      *)
Cleanup(e) ==
    /\ Expires
    /\ MainThreadFree
    /\ outbox[e].status \in Terminal
    /\ outbox' = [outbox EXCEPT ![e] = NoEvent]
    /\ UNCHANGED <<row, created, runVars, ui, late, serverVars, bounds>>

(* The application dies and is started again: only SQLite survives.          *)
Crash ==
    /\ crashes < MaxCrashes
    /\ crashes' = crashes + 1
    /\ syncing \/ ui # Idle
    /\ syncing' = FALSE
    /\ pc' = [r \in Runs |-> "idle"]
    /\ batch' = [r \in Runs |-> {}]
    /\ todo' = [r \in Runs |-> {}]
    /\ verdict' = [r \in Runs |-> [t \in TxIds |-> "none"]]
    /\ acks' = [r \in Runs |-> {}]
    /\ attempts' = [r \in Runs |-> 0]
    /\ ui' = Idle
    /\ late' = IF ServedAfterTimeout THEN late \cup UNION {todo[r] : r \in Runs} ELSE late
    /\ UNCHANGED <<localVars, serverVars, edits, faults>>

-----------------------------------------------------------------------------
UserStep ==
    \/ \E m \in Moves : Record(m.tx, m.delta)
    \/ \E m \in Edits : UpdateRow(m.tx, m.delta)
    \/ \E t \in Deletable : DeleteRow(t)
    \/ UpdateOutbox \/ QueueReversal \/ WithdrawEvent

RunStep(r) ==
    \/ Start(r) \/ Fetch(r) \/ MarkAndSend(r) \/ ServerIngests(r) \/ Reply(r)
    \/ ApplyOutboxStatuses(r) \/ ApplyRowStatuses(r) \/ EndBatch(r)
    \/ RetryPush(r) \/ GiveUp(r) \/ End(r)

RunFault(r) == NoToken(r) \/ SendUnmarked(r) \/ PushFails(r) \/ StatusWriteFails(r)

Next ==
    \/ UserStep
    \/ \E r \in Runs : Enter(r) \/ RunStep(r) \/ RunFault(r)
    \/ \E i \in late : LateDrop(i) \/ \E v \in Verdicts : LateIngest(i, v)
    \/ \E e \in Events : BackoffElapses(e) \/ Cleanup(e)
    \/ Crash

(* The scheduler keeps calling triggerSync, a run that started goes on, time *)
(* passes.  Faults are finitely many; nothing is assumed of the user.        *)
Fairness ==
    /\ \A r \in Runs : WF_vars(Enter(r)) /\ WF_vars(RunStep(r))
    /\ \A e \in Events : WF_vars(BackoffElapses(e))
    /\ WF_vars(UpdateOutbox) /\ WF_vars(QueueReversal) /\ WF_vars(WithdrawEvent)

Spec == Init /\ [][Next]_vars
FairSpec == Spec /\ Fairness
-----------------------------------------------------------------------------
(* Properties. *)

(* Whatever the interleaving of runs, edits, late requests and crashes: what *)
(* is marked SYNCED, in the outbox or in the local ledger, is in the central *)
(* ledger, so no status write ever acknowledges a movement the server lacks. *)
SyncedIsOnServer ==
    \A t \in TxIds :
        row[t].status = "SYNCED" \/ outbox[EVT(t)].status = "SYNCED" => t \in posted

(* "Pending events survive crashes, restarts and power loss": a recorded     *)
(* movement the server lacks still has an event that a later run will pick   *)
(* up, unless the server's validation has refused its payload.               *)
DurableOutbox ==
    \A t \in TxIds :
        Exists(t) /\ t \notin posted =>
            outbox[EVT(t)].status \in IF t \in Refused THEN OutboxStatuses ELSE Deliverable

(* A corrected quantity the central ledger does not have yet is queued to be *)
(* pushed: otherwise the two ledgers differ for good (update_transaction:    *)
(* "the next sync push re-pushes the updated payload").                      *)
EditsReachServer ==
    \A t \in TxIds :
        ui = Idle /\ Exists(t) /\ t \in posted /\ delta[t] # row[t].delta
            => outbox[EVT(t)].status \in Deliverable

(* A deleted movement that the central ledger holds has a reversal queued,   *)
(* as long as every answer arrived: delete_transaction trusts the local      *)
(* sync_status to tell whether the server has the movement.                  *)
DeletionReachesServer ==
    \A t \in TxIds :
        faults = 0 /\ ui = Idle /\ row[t].status = "deleted" /\ t \in posted
            => outbox[VOID(t)].status # "NONE"

(* The terminal states of the outbox lifecycle are read-only: a row leaves   *)
(* SYNCED or PERMANENT_REJECTION only when it is archived or when the user   *)
(* edits its movement, never because a run applies a late or stale status.   *)
TerminalIsFinal ==
    [][\A e \in Events : outbox[e].status \in {"SYNCED", "PERMANENT_REJECTION"}
          => outbox'[e].status \in {outbox[e].status, "NONE"} \/ ui # ui']_vars

(* Every movement the server can take is delivered, and its event leaves the *)
(* queue: faults delay the drain, they never stop it.                        *)
OutboxDrains ==
    \A t \in TxIds \ Refused :
        Exists(t) ~> t \in posted /\ outbox[EVT(t)].status \in {"SYNCED", "NONE"}
-----------------------------------------------------------------------------
(* The strengthening the proofs of SyncProofs use: a verdict is only ever    *)
(* what the ledger answered, and a deletion in progress has no row.          *)
VerdictsAreTrue ==
    \A r \in Runs, t \in TxIds :
        /\ verdict[r][t] = "accepted" => t \in posted
        /\ verdict[r][t] = "permanent" => t \in Refused
DeletingHasNoRow == ui.op = "delete" => row[ui.tx].status = "deleted"

DurableInv ==
    /\ TypeOK
    /\ SyncedIsOnServer
    /\ DurableOutbox
    /\ VerdictsAreTrue
    /\ DeletingHasNoRow
=============================================================================
