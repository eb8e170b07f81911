----------------------------- MODULE SyncProofs -----------------------------
(***************************************************************************)
(* The two halves of a sync run.  The push, OutboxSync, for any number of  *)
(* transactions, sync runs, edits, network faults and crashes, and for     *)
(* every batch size.  Then the pull, SyncPull: types, and that the cursor  *)
(* passes over no row the device has not applied, except by a failure or a *)
(* race.                                                                   *)
(***************************************************************************)
EXTENDS OutboxSync, SyncPull, FiniteSetTheorems, TLAPS

(* Every action, for the case splits below. *)
LEMMA NextCases ==
    ASSUME Next
    PROVE  \/ \E m \in Moves : Record(m.tx, m.delta)
           \/ \E m \in Edits : UpdateRow(m.tx, m.delta)
           \/ \E t \in Deletable : DeleteRow(t)
           \/ UpdateOutbox \/ QueueReversal \/ WithdrawEvent
           \/ \E r \in Runs :
                 \/ Enter(r) \/ Start(r) \/ Fetch(r) \/ MarkAndSend(r)
                 \/ ServerIngests(r) \/ Reply(r) \/ ApplyOutboxStatuses(r)
                 \/ ApplyRowStatuses(r) \/ EndBatch(r) \/ RetryPush(r)
                 \/ GiveUp(r) \/ End(r) \/ NoToken(r) \/ SendUnmarked(r)
                 \/ PushFails(r) \/ StatusWriteFails(r)
           \/ \E i \in late : LateDrop(i) \/ \E v \in Verdicts : LateIngest(i, v)
           \/ \E e \in Events : BackoffElapses(e) \/ Cleanup(e)
           \/ Crash
BY DEF Next, UserStep, RunStep, RunFault

-----------------------------------------------------------------------------
(* What the helpers return. *)

LEMMA EventFacts ==
    ASSUME NEW t \in TxIds
    PROVE  EVT(t) \in Events /\ VOID(t) \in Events
BY DEF EVT, VOID, Events

LEMMA EnqueuedType ==
    ASSUME TypeOK, NEW d \in Int
    PROVE  Enqueued(d) \in OutboxRows /\ created + 1 \in Nat
BY DEF TypeOK, Enqueued, OutboxRows, OutboxStatuses

LEMMA RewrittenType ==
    ASSUME TypeOK, NEW e \in Events, NEW d \in Int
    PROVE  Requeued(e, d) \in OutboxRows /\ Withdrawn(e) \in OutboxRows
BY DEF TypeOK, Requeued, Withdrawn, NoEvent, OutboxRows, OutboxStatuses

LEMMA ReleasedType ==
    ASSUME TypeOK, NEW e \in Events, NEW force \in BOOLEAN
    PROVE  Released(e, force) \in OutboxRows
<1>1. /\ outbox[e].status \in OutboxStatuses
      /\ outbox[e].delta \in Int
      /\ outbox[e].due \in BOOLEAN
      /\ outbox[e].born \in Nat
  BY DEF TypeOK, OutboxRows
<1>2. (outbox[e].due \/ (force /\ outbox[e].status = "RETRYABLE_ERROR")) \in BOOLEAN
  BY <1>1
<1>3. (IF outbox[e].status = "SENDING" \/ (force /\ outbox[e].status = "PERMANENT_REJECTION")
       THEN "PENDING" ELSE outbox[e].status) \in OutboxStatuses
  BY <1>1 DEF OutboxStatuses
<1>. QED
  BY <1>1, <1>2, <1>3 DEF Released, OutboxRows

(* A batch update writes well-typed rows, whatever statuses it is given. *)
LEMMA SetStatusesType ==
    ASSUME TypeOK, NEW r \in Runs, NEW new \in [Events -> OutboxStatuses]
    PROVE  SetStatuses(r, new) \in [Events -> OutboxRows]
<1>1. ASSUME NEW e \in Events
      PROVE  WithStatus(outbox[e], new[e]) \in OutboxRows
  <2>1. outbox[e] \in OutboxRows /\ new[e] \in OutboxStatuses
    BY DEF TypeOK
  <2>2. (IF new[e] = "RETRYABLE_ERROR" THEN FALSE ELSE new[e] = "SYNCED" \/ outbox[e].due) \in BOOLEAN
    BY <2>1 DEF OutboxRows
  <2>. QED
    BY <2>1, <2>2 DEF WithStatus, OutboxRows
<1>. QED
  BY <1>1 DEF TypeOK, SetStatuses

LEMMA TargetType ==
    ASSUME NEW v
    PROVE  TargetStatus(v) \in OutboxStatuses /\ TargetStatus(v) \in RowStatuses
BY DEF TargetStatus, OutboxStatuses, RowStatuses

LEMMA TargetsType ==
    ASSUME NEW r \in Runs
    PROVE  [e \in Events |-> TargetStatus(verdict[r][e[2]])] \in [Events -> OutboxStatuses]
BY TargetType

(* The items of a batch are movements. *)
LEMMA ItemsType ==
    ASSUME TypeOK, NEW r \in Runs
    PROVE  Items(r) \subseteq Movements
BY DEF TypeOK, Items, Events, Movements

(* Ingesting one item keeps the central ledger well typed, only adds rows to *)
(* it, and answers what the ledger then shows.                               *)
LEMMA IngestFacts ==
    ASSUME TypeOK, NEW t \in TxIds, NEW d \in Int, NEW v \in Verdicts, Ingest(t, d, v)
    PROVE  /\ posted' \subseteq TxIds
           /\ delta' \in [TxIds -> Int]
           /\ balance' \in [Keys -> Int]
           /\ posted \subseteq posted'
           /\ v = "accepted" => t \in posted'
           /\ v = "permanent" => t \in Refused
<1>1. KeyOf[t] \in Keys
  BY OutboxAssumption
<1>2. CASE Ledger!Restate(t, d) /\ v = "accepted"
  BY <1>1, <1>2 DEF TypeOK, Ledger!Restate
<1>3. CASE Ledger!PostOnce(t, d) /\ v = "accepted"
  BY <1>1, <1>3 DEF TypeOK, Ledger!PostOnce
<1>4. CASE /\ t \notin posted
           /\ v = IF t \in Refused THEN "permanent" ELSE "retryable"
           /\ UNCHANGED serverVars
  BY <1>4 DEF TypeOK, serverVars
<1>. QED
  BY <1>2, <1>3, <1>4 DEF Ingest
-----------------------------------------------------------------------------
(* What an idle run holds. *)
LEMMA BlankType ==
    /\ 0 \in 0..MaxSyncRetries
    /\ [t \in TxIds |-> "none"] \in [TxIds -> Verdicts]
BY OutboxAssumption DEF Verdicts

LEMMA InitType == Init => TypeOK
<1>1. NoEvent \in OutboxRows /\ [status |-> "none", delta |-> 0] \in LedgerRows
  BY DEF NoEvent, OutboxRows, LedgerRows, OutboxStatuses, RowStatuses
<1>2. ASSUME Init
      PROVE  TypeOK
  <2>1. row \in [TxIds -> LedgerRows] /\ outbox \in [Events -> OutboxRows] /\ created \in Nat
    BY <1>1, <1>2 DEF Init
  <2>2. /\ pc \in [Runs -> PCs]
        /\ verdict \in [Runs -> [TxIds -> Verdicts]]
        /\ attempts \in [Runs -> 0..MaxSyncRetries]
    BY <1>2, BlankType DEF Init, PCs
  <2>3. /\ batch \in [Runs -> SUBSET (Events \X Int)]
        /\ todo \in [Runs -> SUBSET Movements]
        /\ acks \in [Runs -> SUBSET {"outbox", "rows"}]
    BY <1>2 DEF Init
  <2>4. posted \subseteq TxIds /\ delta \in [TxIds -> Int] /\ balance \in [Keys -> Int]
    BY <1>2 DEF Init, Ledger!LedgerInit
  <2>. QED
    BY <1>2, <2>1, <2>2, <2>3, <2>4 DEF Init, TypeOK
<1>. QED
  BY <1>2

(* The user's commands. *)
LEMMA UserStepType ==
    ASSUME TypeOK, UserStep
    PROVE  TypeOK'
<1>1. ASSUME NEW m \in Moves, Record(m.tx, m.delta)
      PROVE  TypeOK'
  <2>1. m.tx \in TxIds /\ m.delta \in Int
    BY OutboxAssumption DEF Movements
  <2>2. /\ EVT(m.tx) \in Events
        /\ Enqueued(m.delta) \in OutboxRows
        /\ created + 1 \in Nat
        /\ [status |-> "PENDING", delta |-> m.delta] \in LedgerRows
    BY <2>1, EventFacts, EnqueuedType DEF LedgerRows, RowStatuses
  <2>. QED
    BY <1>1, <2>1, <2>2 DEF Record, TypeOK, runVars, serverVars, bounds
<1>2. ASSUME NEW m \in Edits, UpdateRow(m.tx, m.delta)
      PROVE  TypeOK'
  <2>1. m.tx \in TxIds /\ m.delta \in Int
    BY OutboxAssumption DEF Movements
  <2>2. /\ [status |-> row[m.tx].status, delta |-> m.delta] \in LedgerRows
        /\ [op |-> "update", tx |-> m.tx, delta |-> m.delta, status |-> row[m.tx].status] \in Commands
    BY <2>1 DEF TypeOK, LedgerRows, Commands
  <2>. QED
    BY <1>2, <2>1, <2>2 DEF UpdateRow, MayEdit, TypeOK, runVars, serverVars
<1>3. ASSUME NEW t \in Deletable, DeleteRow(t)
      PROVE  TypeOK'
  <2>1. t \in TxIds
    BY OutboxAssumption
  <2>2. /\ [status |-> "deleted", delta |-> 0] \in LedgerRows
        /\ [op |-> "delete", tx |-> t, delta |-> row[t].delta, status |-> row[t].status] \in Commands
    BY <2>1 DEF TypeOK, LedgerRows, Commands, RowStatuses
  <2>. QED
    BY <1>3, <2>1, <2>2 DEF DeleteRow, MayEdit, TypeOK, runVars, serverVars
<1>4. CASE UpdateOutbox
  <2>1. ui.tx \in TxIds /\ ui.delta \in Int
    BY <1>4 DEF UpdateOutbox, TypeOK, Commands, Idle
  <2>2. EVT(ui.tx) \in Events /\ Requeued(EVT(ui.tx), ui.delta) \in OutboxRows
    BY <2>1, EventFacts, RewrittenType
  <2>. QED
    BY <1>4, <2>2 DEF UpdateOutbox, TypeOK, runVars, serverVars, bounds
<1>5. CASE QueueReversal
  <2>1. ui.tx \in TxIds /\ -ui.delta \in Int
    BY <1>5 DEF QueueReversal, TypeOK, Commands, Idle
  <2>2. VOID(ui.tx) \in Events /\ Enqueued(-ui.delta) \in OutboxRows /\ created + 1 \in Nat
    BY <2>1, EventFacts, EnqueuedType
  <2>. QED
    BY <1>5, <2>2 DEF QueueReversal, TypeOK, runVars, serverVars, bounds
<1>6. CASE WithdrawEvent
  <2>1. ui.tx \in TxIds
    BY <1>6 DEF WithdrawEvent, TypeOK, Commands, Idle
  <2>2. EVT(ui.tx) \in Events /\ Withdrawn(EVT(ui.tx)) \in OutboxRows
    BY <2>1, EventFacts, RewrittenType
  <2>. QED
    BY <1>6, <2>2 DEF WithdrawEvent, TypeOK, runVars, serverVars, bounds
<1>. QED
  BY <1>1, <1>2, <1>3, <1>4, <1>5, <1>6 DEF UserStep

(* The steps of one sync run. *)
LEMMA RunStepType ==
    ASSUME TypeOK, NEW r \in Runs, Enter(r) \/ RunStep(r) \/ RunFault(r)
    PROVE  TypeOK'
<1>1. CASE Enter(r)
  BY <1>1 DEF Enter, TypeOK, PCs, localVars, serverVars, bounds
<1>2. CASE Start(r)
  BY <1>2, OutboxAssumption DEF Start, TypeOK, PCs, localVars, serverVars, bounds
<1>3. CASE Fetch(r)
  <2>1. \A e \in Events : Released(e, r \in Forced) \in OutboxRows
    <3>1. (r \in Forced) \in BOOLEAN
      OBVIOUS
    <3>. QED
      BY <3>1, ReleasedType, Zenon
  <2>2. outbox' \in [Events -> OutboxRows]
    BY <1>3, <2>1 DEF Fetch
  <2>3. ASSUME NEW e \in Oldest(outbox')
        PROVE  <<e, outbox'[e].delta>> \in Events \X Int
    <3>1. e \in Events
      BY DEF Oldest
    <3>2. outbox'[e].delta \in Int
      BY <2>2, <3>1 DEF OutboxRows
    <3>. QED
      BY <3>1, <3>2
  <2>. QED
    <3>1. batch' \in [Runs -> SUBSET (Events \X Int)]
      <4>. DEFINE B == {<<e, outbox'[e].delta>> : e \in Oldest(outbox')}
      <4>1. B \in SUBSET (Events \X Int)
        BY <2>3
      <4>2. batch' = [batch EXCEPT ![r] = B]
        BY <1>3 DEF Fetch
      <4>. QED
        BY <4>1, <4>2, Zenon DEF TypeOK
    <3>2. pc' \in [Runs -> PCs]
      BY <1>3 DEF Fetch, TypeOK, PCs
    <3>. QED
      BY <1>3, <2>2, <3>1, <3>2 DEF Fetch, TypeOK, serverVars, bounds
<1>4. ASSUME Send(r), outbox' \in [Events -> OutboxRows], faults' \in Nat
      PROVE  TypeOK'
  BY <1>4, ItemsType DEF Send, TypeOK, PCs, Verdicts, serverVars
<1>5. CASE MarkAndSend(r)
  <2>1. [e \in Events |-> "SENDING"] \in [Events -> OutboxStatuses]
    BY DEF OutboxStatuses
  <2>. QED
    BY <1>4, <1>5, <2>1, SetStatusesType DEF MarkAndSend, TypeOK
<1>6. CASE SendUnmarked(r)
  BY <1>4, <1>6 DEF SendUnmarked, Fails, TypeOK
<1>7. CASE ServerIngests(r)
  <2>1. PICK i \in todo[r], v \in Verdicts :
           /\ Ingest(i.tx, i.delta, v)
           /\ todo' = [todo EXCEPT ![r] = @ \ {i}]
           /\ verdict' = [verdict EXCEPT ![r] = [verdict[r] EXCEPT ![i.tx] = v]]
           /\ UNCHANGED <<localVars, syncing, pc, batch, acks, attempts, ui, late, bounds>>
    BY <1>7 DEF ServerIngests
  <2>2. i.tx \in TxIds /\ i.delta \in Int
    BY <2>1 DEF TypeOK, Movements
  <2>3. /\ posted' \subseteq TxIds
        /\ delta' \in [TxIds -> Int]
        /\ balance' \in [Keys -> Int]
    BY <2>1, <2>2, IngestFacts
  <2>4. verdict' \in [Runs -> [TxIds -> Verdicts]]
    BY <2>1, <2>2 DEF TypeOK
  <2>. QED
    BY <2>1, <2>3, <2>4 DEF TypeOK, localVars, bounds
<1>8. CASE Reply(r)
  <2>1. Cardinality(Rejected(r)) \in Nat
    BY FS_Subset, FS_CardinalityType, OutboxAssumption DEF Rejected
  <2>2. LesserOf(MaxSyncRetries, Cardinality(Rejected(r))) \in 0..MaxSyncRetries
    BY <2>1, OutboxAssumption DEF LesserOf
  <2>. QED
    BY <1>8, <2>2 DEF Reply, TypeOK, PCs, localVars, serverVars, bounds
<1>9. CASE PushFails(r)
  BY <1>9 DEF PushFails, Fails, Abandon, TypeOK, PCs, localVars, serverVars
<1>10. CASE ApplyOutboxStatuses(r)
  BY <1>10, SetStatusesType, TargetsType
     DEF ApplyOutboxStatuses, Acked, TypeOK, serverVars
<1>11. CASE ApplyRowStatuses(r)
  <2>1. row' \in [TxIds -> LedgerRows]
    BY <1>11, TargetType DEF ApplyRowStatuses, TypeOK, LedgerRows
  <2>. QED
    BY <1>11, <2>1 DEF ApplyRowStatuses, Acked, TypeOK, serverVars
<1>12. CASE StatusWriteFails(r)
  BY <1>12 DEF StatusWriteFails, Acked, Fails, TypeOK, serverVars
<1>13. CASE EndBatch(r)
  BY <1>13 DEF EndBatch, TypeOK, PCs, localVars, serverVars, bounds
<1>14. CASE RetryPush(r)
  <2>1. attempts[r] + 1 \in 0..MaxSyncRetries
    BY <1>14, OutboxAssumption DEF RetryPush, TypeOK
  <2>. QED
    BY <1>14, <2>1 DEF RetryPush, TypeOK, PCs, localVars, serverVars, bounds
<1>15. CASE GiveUp(r)
  <2>1. [e \in Events |-> "RETRYABLE_ERROR"] \in [Events -> OutboxStatuses]
    BY DEF OutboxStatuses
  <2>. QED
    BY <1>15, <2>1, SetStatusesType DEF GiveUp, TypeOK, PCs, serverVars, bounds
<1>16. CASE End(r)
  BY <1>16, BlankType DEF End, TypeOK, PCs, localVars, serverVars, bounds
<1>17. CASE NoToken(r)
  BY <1>17 DEF NoToken, Fails, TypeOK, PCs, localVars, serverVars
<1>. QED
  BY <1>1, <1>2, <1>3, <1>5, <1>6, <1>7, <1>8, <1>9, <1>10, <1>11, <1>12, <1>13,
     <1>14, <1>15, <1>16, <1>17 DEF RunStep, RunFault

(* Late requests, time and crashes. *)
LEMMA EnvironmentStepType ==
    ASSUME TypeOK,
           \/ \E i \in late : LateDrop(i) \/ \E v \in Verdicts : LateIngest(i, v)
           \/ \E e \in Events : BackoffElapses(e) \/ Cleanup(e)
           \/ Crash
    PROVE  TypeOK'
<1>1. ASSUME NEW i \in late, LateDrop(i)
      PROVE  TypeOK'
  BY <1>1 DEF LateDrop, TypeOK, localVars, runVars, serverVars, bounds
<1>2. ASSUME NEW i \in late, NEW v \in Verdicts, LateIngest(i, v)
      PROVE  TypeOK'
  <2>1. i.tx \in TxIds /\ i.delta \in Int
    BY DEF TypeOK, Movements
  <2>2. /\ posted' \subseteq TxIds
        /\ delta' \in [TxIds -> Int]
        /\ balance' \in [Keys -> Int]
    BY <1>2, <2>1, IngestFacts DEF LateIngest
  <2>. QED
    BY <1>2, <2>2 DEF LateIngest, TypeOK, localVars, runVars, bounds
<1>3. ASSUME NEW e \in Events, BackoffElapses(e)
      PROVE  TypeOK'
  <2>1. [status |-> "RETRYABLE_ERROR", delta |-> outbox[e].delta, due |-> TRUE,
         born |-> outbox[e].born] \in OutboxRows
    BY DEF TypeOK, OutboxRows, OutboxStatuses
  <2>. QED
    BY <1>3, <2>1 DEF BackoffElapses, TypeOK, runVars, serverVars, bounds
<1>4. ASSUME NEW e \in Events, Cleanup(e)
      PROVE  TypeOK'
  <2>1. NoEvent \in OutboxRows
    BY DEF NoEvent, OutboxRows, OutboxStatuses
  <2>. QED
    BY <1>4, <2>1 DEF Cleanup, TypeOK, runVars, serverVars, bounds
<1>5. CASE Crash
  <2>1. /\ pc' \in [Runs -> PCs]
        /\ verdict' \in [Runs -> [TxIds -> Verdicts]]
        /\ attempts' \in [Runs -> 0..MaxSyncRetries]
    BY <1>5, BlankType DEF Crash, PCs
  <2>2. /\ batch' \in [Runs -> SUBSET (Events \X Int)]
        /\ todo' \in [Runs -> SUBSET Movements]
        /\ acks' \in [Runs -> SUBSET {"outbox", "rows"}]
    BY <1>5 DEF Crash
  <2>3. late' \subseteq Movements
    <3>1. UNION {todo[r] : r \in Runs} \subseteq Movements
      BY DEF TypeOK
    <3>. QED
      BY <1>5, <3>1 DEF Crash, TypeOK
  <2>4. /\ UNCHANGED <<row, outbox, created, posted, delta, balance, edits, faults>>
        /\ syncing' = FALSE /\ ui' = Idle /\ crashes' = crashes + 1
    BY <1>5 DEF Crash, localVars, serverVars
  <2>5. crashes' \in Nat
    BY <2>4 DEF TypeOK
  <2>. QED
    BY <2>1, <2>2, <2>3, <2>4, <2>5, Zenon DEF TypeOK
<1>. QED
  BY <1>1, <1>2, <1>3, <1>4, <1>5

LEMMA StepType == TypeOK /\ [Next]_vars => TypeOK'
<1>1. ASSUME TypeOK, UNCHANGED vars
      PROVE  TypeOK'
  BY <1>1 DEF TypeOK, vars
<1>. QED
  BY <1>1, UserStepType, RunStepType, EnvironmentStepType DEF Next

(* The outbox, the runs and the central ledger keep their types.             *)
THEOREM TypeCorrect == Spec => []TypeOK
<1>. QED
  BY InitType, StepType, PTL DEF Spec
-----------------------------------------------------------------------------
(* Durability. *)

(* Distinct transactions and distinct kinds have distinct event ids. *)
LEMMA EventIdentity ==
    ASSUME NEW t \in TxIds, NEW u \in TxIds
    PROVE  /\ EVT(t) = EVT(u) => t = u
           /\ EVT(t) # VOID(u)
           /\ EVT(t)[2] = t
BY DEF EVT, VOID

(* A status write reaches only rows that exist, and gives them the status    *)
(* asked for: every other row keeps its own.                                 *)
LEMMA SetStatusesFacts ==
    ASSUME NEW r \in Runs, NEW new, NEW e \in Events, TypeOK
    PROVE  \/ SetStatuses(r, new)[e] = outbox[e]
           \/ outbox[e].status # "NONE" /\ SetStatuses(r, new)[e].status = new[e]
BY DEF SetStatuses, WithStatus, AllThere, TypeOK

LEMMA InitDurable == Init => DurableInv
<1>. SUFFICES ASSUME Init
              PROVE  DurableInv
  OBVIOUS
<1>1. TypeOK
  BY InitType
<1>2. SyncedIsOnServer
  BY EventFacts DEF Init, SyncedIsOnServer, NoEvent
<1>3. DurableOutbox
  BY DEF Init, DurableOutbox, Exists
<1>4. VerdictsAreTrue
  BY DEF Init, VerdictsAreTrue
<1>5. DeletingHasNoRow
  BY DEF Init, DeletingHasNoRow, Idle
<1>. QED
  BY <1>1, <1>2, <1>3, <1>4, <1>5 DEF DurableInv

(* What a step must respect to keep the invariant: the central ledger only   *)
(* grows; a row or an event becomes SYNCED only with its transaction posted; *)
(* and the event of an undelivered movement stays deliverable.               *)
LEMMA Preserves ==
    ASSUME DurableInv, TypeOK', VerdictsAreTrue', DeletingHasNoRow',
           posted \subseteq posted',
           \A t \in TxIds :
              row'[t].status = "SYNCED" => row[t].status = "SYNCED" \/ t \in posted',
           \A t \in TxIds :
              outbox'[EVT(t)].status = "SYNCED"
                 => outbox[EVT(t)].status = "SYNCED" \/ t \in posted',
           \A t \in TxIds \ Refused :
              /\ row'[t].status \notin {"none", "deleted"}
              /\ t \notin posted'
              => \/ outbox'[EVT(t)].status \in Deliverable
                 \/ /\ row[t].status \notin {"none", "deleted"}
                    /\ outbox[EVT(t)].status \in Deliverable
                         => outbox'[EVT(t)].status \in Deliverable
    PROVE  DurableInv'
<1>1. SyncedIsOnServer'
  BY DEF DurableInv, SyncedIsOnServer
<1>2. DurableOutbox'
  <2>1. ASSUME NEW t \in TxIds, t \in Refused
        PROVE  outbox'[EVT(t)].status \in OutboxStatuses
    BY EventFacts DEF TypeOK, OutboxRows
  <2>. QED
    BY <2>1 DEF DurableInv, DurableOutbox, Exists
<1>. QED
  BY <1>1, <1>2 DEF DurableInv
(* The user's commands.  A deletion withdraws an event only after its row is *)
(* gone.                                                                     *)
LEMMA UserStepDurable ==
    ASSUME DurableInv, UserStep
    PROVE  DurableInv'
<1>. TypeOK /\ VerdictsAreTrue /\ DeletingHasNoRow
  BY DEF DurableInv
<1>. TypeOK'
  BY UserStepType
<1>1. ASSUME NEW m \in Moves, Record(m.tx, m.delta)
      PROVE  DurableInv'
  <2>1. m.tx \in TxIds
    BY OutboxAssumption DEF Movements
  <2>2. VerdictsAreTrue' /\ DeletingHasNoRow' /\ posted' = posted
    BY <1>1, <2>1 DEF Record, VerdictsAreTrue, DeletingHasNoRow, TypeOK, Commands, Idle,
                      runVars, serverVars
  <2>3. ASSUME NEW t \in TxIds, t # m.tx
        PROVE  row'[t] = row[t] /\ outbox'[EVT(t)] = outbox[EVT(t)]
    BY <1>1, <2>1, <2>3, EventFacts, EventIdentity DEF Record, TypeOK
  <2>4. row'[m.tx].status = "PENDING" /\ outbox'[EVT(m.tx)].status = "PENDING"
    BY <1>1, <2>1, EventFacts DEF Record, TypeOK, Enqueued
  <2>. QED
    BY <2>2, <2>3, <2>4, Preserves DEF Deliverable
<1>2. ASSUME NEW m \in Edits, UpdateRow(m.tx, m.delta)
      PROVE  DurableInv'
  <2>1. m.tx \in TxIds
    BY OutboxAssumption DEF Movements
  <2>2. VerdictsAreTrue' /\ DeletingHasNoRow' /\ posted' = posted /\ outbox' = outbox
    BY <1>2 DEF UpdateRow, MayEdit, VerdictsAreTrue, DeletingHasNoRow, runVars, serverVars
  <2>3. \A t \in TxIds : row'[t].status = row[t].status
    BY <1>2, <2>1 DEF UpdateRow, TypeOK
  <2>. QED
    BY <2>2, <2>3, Preserves
<1>3. ASSUME NEW t \in Deletable, DeleteRow(t)
      PROVE  DurableInv'
  <2>1. t \in TxIds
    BY OutboxAssumption
  <2>2. VerdictsAreTrue' /\ posted' = posted /\ outbox' = outbox
    BY <1>3 DEF DeleteRow, MayEdit, VerdictsAreTrue, runVars, serverVars
  <2>3. row'[t].status = "deleted" /\ \A u \in TxIds \ {t} : row'[u] = row[u]
    BY <1>3, <2>1 DEF DeleteRow, TypeOK
  <2>4. DeletingHasNoRow'
    BY <1>3, <2>3 DEF DeleteRow, DeletingHasNoRow
  <2>. QED
    BY <2>2, <2>3, <2>4, Preserves
<1>4. CASE UpdateOutbox
  <2>1. ui.tx \in TxIds
    BY <1>4 DEF UpdateOutbox, TypeOK, Commands, Idle
  <2>2. VerdictsAreTrue' /\ DeletingHasNoRow' /\ posted' = posted /\ row' = row
    BY <1>4 DEF UpdateOutbox, VerdictsAreTrue, DeletingHasNoRow, Idle, runVars, serverVars
  <2>3. \A t \in TxIds : t # ui.tx => outbox'[EVT(t)] = outbox[EVT(t)]
    BY <1>4, <2>1, EventFacts, EventIdentity DEF UpdateOutbox, TypeOK
  <2>4. \/ outbox'[EVT(ui.tx)].status = "PENDING"
        \/ outbox[EVT(ui.tx)].status = "NONE" /\ outbox'[EVT(ui.tx)].status = "NONE"
    BY <1>4, <2>1, EventFacts DEF UpdateOutbox, TypeOK, Requeued, NoEvent
  <2>. QED
    BY <2>2, <2>3, <2>4, Preserves DEF Deliverable
<1>5. CASE QueueReversal
  <2>1. ui.tx \in TxIds
    BY <1>5 DEF QueueReversal, TypeOK, Commands, Idle
  <2>2. VerdictsAreTrue' /\ DeletingHasNoRow' /\ posted' = posted /\ row' = row
    BY <1>5 DEF QueueReversal, VerdictsAreTrue, DeletingHasNoRow, Idle, runVars, serverVars
  <2>3. \A t \in TxIds : outbox'[EVT(t)] = outbox[EVT(t)]
    BY <1>5, <2>1, EventFacts, EventIdentity DEF QueueReversal, TypeOK
  <2>. QED
    BY <2>2, <2>3, Preserves
<1>6. CASE WithdrawEvent
  <2>1. ui.tx \in TxIds /\ row[ui.tx].status = "deleted"
    BY <1>6 DEF WithdrawEvent, TypeOK, Commands, Idle, DeletingHasNoRow
  <2>2. VerdictsAreTrue' /\ DeletingHasNoRow' /\ posted' = posted /\ row' = row
    BY <1>6 DEF WithdrawEvent, VerdictsAreTrue, DeletingHasNoRow, Idle, runVars, serverVars
  <2>3. \A t \in TxIds : t # ui.tx => outbox'[EVT(t)] = outbox[EVT(t)]
    BY <1>6, <2>1, EventFacts, EventIdentity DEF WithdrawEvent, TypeOK
  <2>4. outbox'[EVT(ui.tx)].status # "SYNCED"
    BY <1>6, <2>1, EventFacts DEF WithdrawEvent, TypeOK, Withdrawn, NoEvent
  <2>. QED
    BY <2>1, <2>2, <2>3, <2>4, Preserves
<1>. QED
  BY <1>1, <1>2, <1>3, <1>4, <1>5, <1>6 DEF UserStep
(* The steps of a sync run.  The only writes that make a row terminal follow *)
(* the ledger's own verdict.                                                 *)
LEMMA RunStepDurable ==
    ASSUME DurableInv, NEW r \in Runs, Enter(r) \/ RunStep(r) \/ RunFault(r)
    PROVE  DurableInv'
<1>. TypeOK /\ VerdictsAreTrue /\ DeletingHasNoRow
  BY DEF DurableInv
<1>. TypeOK'
  BY RunStepType
<1>1. ASSUME UNCHANGED <<row, outbox, ui, posted>>,
             \A s \in Runs, t \in TxIds : verdict'[s][t] \in {verdict[s][t], "none"}
      PROVE  DurableInv'
  <2>1. VerdictsAreTrue' /\ DeletingHasNoRow'
    BY <1>1 DEF VerdictsAreTrue, DeletingHasNoRow
  <2>. QED
    BY <1>1, <2>1, Preserves
<1>2. CASE \/ Enter(r) \/ Start(r) \/ Reply(r) \/ EndBatch(r) \/ RetryPush(r)
           \/ NoToken(r) \/ PushFails(r) \/ StatusWriteFails(r)
  <2>1. UNCHANGED <<row, outbox, ui, posted, verdict>>
    BY <1>2 DEF Enter, Start, Reply, EndBatch, RetryPush, NoToken, PushFails,
                StatusWriteFails, Acked, localVars, serverVars
  <2>. QED
    BY <1>1, <2>1
<1>3. ASSUME verdict' = [verdict EXCEPT ![r] = [t \in TxIds |-> "none"]]
      PROVE  \A s \in Runs, t \in TxIds : verdict'[s][t] \in {verdict[s][t], "none"}
  BY <1>3 DEF TypeOK
<1>4. CASE End(r)
  BY <1>1, <1>3, <1>4 DEF End, localVars, serverVars
<1>5. CASE SendUnmarked(r)
  BY <1>1, <1>3, <1>5 DEF SendUnmarked, Send, serverVars
<1>6. CASE MarkAndSend(r)
  <2>1. /\ UNCHANGED <<row, ui, posted>>
        /\ outbox' = SetStatuses(r, [e \in Events |-> "SENDING"])
        /\ \A s \in Runs, t \in TxIds : verdict'[s][t] \in {verdict[s][t], "none"}
    BY <1>3, <1>6 DEF MarkAndSend, Send, serverVars
  <2>2. VerdictsAreTrue' /\ DeletingHasNoRow'
    BY <2>1 DEF VerdictsAreTrue, DeletingHasNoRow
  <2>3. \A t \in TxIds : \/ outbox'[EVT(t)] = outbox[EVT(t)]
                         \/ outbox'[EVT(t)].status = "SENDING"
    BY <2>1, EventFacts, SetStatusesFacts
  <2>. QED
    BY <2>1, <2>2, <2>3, Preserves DEF Deliverable
<1>7. CASE GiveUp(r)
  <2>1. /\ UNCHANGED <<row, ui, posted, verdict>>
        /\ outbox' = SetStatuses(r, [e \in Events |-> "RETRYABLE_ERROR"])
    BY <1>7 DEF GiveUp, serverVars
  <2>2. VerdictsAreTrue' /\ DeletingHasNoRow'
    BY <2>1 DEF VerdictsAreTrue, DeletingHasNoRow
  <2>3. \A t \in TxIds : \/ outbox'[EVT(t)] = outbox[EVT(t)]
                         \/ outbox'[EVT(t)].status = "RETRYABLE_ERROR"
    BY <2>1, EventFacts, SetStatusesFacts
  <2>. QED
    BY <2>1, <2>2, <2>3, Preserves DEF Deliverable
<1>8. CASE Fetch(r)
  <2>1. UNCHANGED <<row, ui, posted, verdict>>
    BY <1>8 DEF Fetch, serverVars
  <2>2. VerdictsAreTrue' /\ DeletingHasNoRow'
    BY <2>1 DEF VerdictsAreTrue, DeletingHasNoRow
  <2>3. \A t \in TxIds : outbox'[EVT(t)].status \in {outbox[EVT(t)].status, "PENDING"}
    BY <1>8, EventFacts DEF Fetch, Released
  <2>. QED
    BY <2>1, <2>2, <2>3, Preserves DEF Deliverable
<1>9. CASE ServerIngests(r)
  <2>1. PICK i \in todo[r], v \in Verdicts :
           /\ Ingest(i.tx, i.delta, v)
           /\ verdict' = [verdict EXCEPT ![r] = [verdict[r] EXCEPT ![i.tx] = v]]
           /\ UNCHANGED <<row, outbox, ui>>
    BY <1>9 DEF ServerIngests, localVars
  <2>2. i.tx \in TxIds /\ i.delta \in Int
    BY <2>1 DEF TypeOK, Movements
  <2>3. /\ posted \subseteq posted'
        /\ v = "accepted" => i.tx \in posted'
        /\ v = "permanent" => i.tx \in Refused
    BY <2>1, <2>2, IngestFacts
  <2>4. VerdictsAreTrue'
    BY <2>1, <2>2, <2>3 DEF VerdictsAreTrue, TypeOK
  <2>5. DeletingHasNoRow'
    BY <2>1 DEF DeletingHasNoRow
  <2>. QED
    BY <2>1, <2>3, <2>4, <2>5, Preserves
<1>10. CASE ApplyOutboxStatuses(r)
  <2>1. /\ UNCHANGED <<row, ui, posted, verdict>>
        /\ outbox' = SetStatuses(r, [e \in Events |-> TargetStatus(verdict[r][e[2]])])
    BY <1>10 DEF ApplyOutboxStatuses, Acked, serverVars
  <2>2. VerdictsAreTrue' /\ DeletingHasNoRow'
    BY <2>1 DEF VerdictsAreTrue, DeletingHasNoRow
  <2>3. ASSUME NEW t \in TxIds
        PROVE  \/ outbox'[EVT(t)] = outbox[EVT(t)]
               \/ outbox'[EVT(t)].status = TargetStatus(verdict[r][t])
    BY <2>1, EventFacts, EventIdentity, SetStatusesFacts
  <2>4. ASSUME NEW t \in TxIds
        PROVE  /\ TargetStatus(verdict[r][t]) = "SYNCED" => t \in posted
               /\ t \notin Refused /\ t \notin posted
                    => TargetStatus(verdict[r][t]) \in Deliverable
    BY DEF TargetStatus, VerdictsAreTrue, Deliverable
  <2>. QED
    BY <2>1, <2>2, <2>3, <2>4, Preserves
<1>11. CASE ApplyRowStatuses(r)
  <2>1. UNCHANGED <<outbox, ui, posted, verdict>>
    BY <1>11 DEF ApplyRowStatuses, Acked, serverVars
  <2>2. ASSUME NEW t \in TxIds
        PROVE  \/ row'[t] = row[t]
               \/ /\ row[t].status \notin {"none", "deleted"}
                  /\ row'[t].status = TargetStatus(verdict[r][t])
    BY <1>11 DEF ApplyRowStatuses, Exists
  <2>3. \A t \in TxIds : TargetStatus(verdict[r][t]) = "SYNCED" => t \in posted
    BY DEF TargetStatus, VerdictsAreTrue
  <2>4. VerdictsAreTrue'
    BY <2>1 DEF VerdictsAreTrue
  <2>5. DeletingHasNoRow'
    BY <2>1, <2>2 DEF DeletingHasNoRow, TypeOK, Commands, Idle
  <2>. QED
    BY <2>1, <2>2, <2>3, <2>4, <2>5, Preserves
<1>. QED
  BY <1>2, <1>4, <1>5, <1>6, <1>7, <1>8, <1>9, <1>10, <1>11 DEF RunStep, RunFault

(* Late requests, time and crashes.  Only terminal events are archived, and  *)
(* the event of an undelivered movement is not terminal.                     *)
LEMMA EnvironmentStepDurable ==
    ASSUME DurableInv,
           \/ \E i \in late : LateDrop(i) \/ \E v \in Verdicts : LateIngest(i, v)
           \/ \E e \in Events : BackoffElapses(e) \/ Cleanup(e)
           \/ Crash
    PROVE  DurableInv'
<1>. TypeOK /\ VerdictsAreTrue /\ DeletingHasNoRow
  BY DEF DurableInv
<1>. TypeOK'
  BY EnvironmentStepType
<1>1. ASSUME NEW i \in late, LateDrop(i)
      PROVE  DurableInv'
  <2>1. UNCHANGED <<row, outbox, ui, posted, verdict>>
    BY <1>1 DEF LateDrop, localVars, runVars, serverVars
  <2>2. VerdictsAreTrue' /\ DeletingHasNoRow'
    BY <2>1 DEF VerdictsAreTrue, DeletingHasNoRow
  <2>. QED
    BY <2>1, <2>2, Preserves
<1>2. ASSUME NEW i \in late, NEW v \in Verdicts, LateIngest(i, v)
      PROVE  DurableInv'
  <2>1. i.tx \in TxIds /\ i.delta \in Int
    BY DEF TypeOK, Movements
  <2>2. posted \subseteq posted' /\ UNCHANGED <<row, outbox, ui, verdict>>
    BY <1>2, <2>1, IngestFacts DEF LateIngest, localVars, runVars
  <2>3. VerdictsAreTrue' /\ DeletingHasNoRow'
    BY <2>2 DEF VerdictsAreTrue, DeletingHasNoRow
  <2>. QED
    BY <2>2, <2>3, Preserves
<1>3. ASSUME NEW e \in Events, BackoffElapses(e)
      PROVE  DurableInv'
  <2>1. UNCHANGED <<row, ui, posted, verdict>>
    BY <1>3 DEF BackoffElapses, runVars, serverVars
  <2>2. VerdictsAreTrue' /\ DeletingHasNoRow'
    BY <2>1 DEF VerdictsAreTrue, DeletingHasNoRow
  <2>3. \A t \in TxIds : outbox'[EVT(t)].status = outbox[EVT(t)].status
    BY <1>3, EventFacts DEF BackoffElapses, TypeOK
  <2>. QED
    BY <2>1, <2>2, <2>3, Preserves
<1>4. ASSUME NEW e \in Events, Cleanup(e)
      PROVE  DurableInv'
  <2>1. UNCHANGED <<row, ui, posted, verdict>>
    BY <1>4 DEF Cleanup, runVars, serverVars
  <2>2. VerdictsAreTrue' /\ DeletingHasNoRow'
    BY <2>1 DEF VerdictsAreTrue, DeletingHasNoRow
  <2>3. \A t \in TxIds : \/ outbox'[EVT(t)] = outbox[EVT(t)]
                         \/ /\ outbox[EVT(t)].status \notin Deliverable
                            /\ outbox'[EVT(t)].status # "SYNCED"
    BY <1>4, EventFacts DEF Cleanup, Terminal, Deliverable, NoEvent, TypeOK
  <2>. QED
    BY <2>1, <2>2, <2>3, Preserves
<1>5. CASE Crash
  <2>1. UNCHANGED <<row, outbox, posted>> /\ ui' = Idle
        /\ \A r \in Runs, t \in TxIds : verdict'[r][t] = "none"
    BY <1>5 DEF Crash, localVars, serverVars
  <2>2. VerdictsAreTrue' /\ DeletingHasNoRow'
    BY <2>1 DEF VerdictsAreTrue, DeletingHasNoRow, Idle
  <2>. QED
    BY <2>1, <2>2, Preserves
<1>. QED
  BY <1>1, <1>2, <1>3, <1>4, <1>5

LEMMA StepDurable == DurableInv /\ [Next]_vars => DurableInv'
<1>1. ASSUME DurableInv, UNCHANGED vars
      PROVE  DurableInv'
  BY <1>1 DEF DurableInv, TypeOK, SyncedIsOnServer, DurableOutbox, Exists, VerdictsAreTrue,
              DeletingHasNoRow, vars
<1>. QED
  BY <1>1, UserStepDurable, RunStepDurable, EnvironmentStepDurable DEF Next

(* "Pending events survive crashes, restarts and power loss": no crash, lost *)
(* or late request, failed write, edit, deletion, clean-up or second sync    *)
(* run ever leaves a recorded movement neither in the central ledger nor     *)
(* queued for delivery.                                                      *)
THEOREM NothingIsLost == Spec => []DurableOutbox
<1>1. DurableInv => DurableOutbox
  BY DEF DurableInv
<1>. QED
  BY <1>1, InitDurable, StepDurable, PTL DEF Spec

(* A movement marked SYNCED on the device is in the central ledger, however  *)
(* status writes of overlapping runs and late answers interleave.            *)
THEOREM SyncedIsTrue == Spec => []SyncedIsOnServer
<1>1. DurableInv => SyncedIsOnServer
  BY DEF DurableInv
<1>. QED
  BY <1>1, InitDurable, StepDurable, PTL DEF Spec
-----------------------------------------------------------------------------
(* Edits and deletions. They reach the server where the two statements of a  *)
(* command are not separated by a crash or by a sync run, no request is      *)
(* served after its timeout, and events are not archived.                    *)
Undisturbed ==
    EditsInFlight = FALSE /\ ServedAfterTimeout = FALSE /\ Expires = FALSE /\ MaxCrashes = 0

(* What the tables hold of a movement that was not recorded yet, and the     *)
(* reversal of one is there only once it is deleted.                         *)
UnknownInv ==
    \A t \in TxIds :
        /\ row[t].status = "none" => /\ outbox[EVT(t)].status = "NONE" /\ t \notin posted
                                     /\ \A r \in Runs : verdict[r][t] = "none"
        /\ outbox[VOID(t)].status # "NONE" => row[t].status = "deleted"
        /\ t \in posted => t \notin Refused

(* An edit and a run keep out of each other's way; a run that is not active  *)
(* holds nothing.                                                            *)
ApartInv ==
    /\ late = {} /\ crashes = 0
    /\ ui # Idle => \A r \in Runs : ~Active(r)
    /\ \A r \in Runs : ~Active(r) => batch[r] = {} /\ \A t \in TxIds : verdict[r][t] = "none"
    /\ \A r \in Runs : todo[r] # {} => pc[r] = "waiting"

(* An edit: the row has the new quantity, the event will have it.            *)
EditInv ==
    /\ ui.op = "update" => Exists(ui.tx) /\ ui.delta = row[ui.tx].delta
    /\ \A t \in TxIds : Exists(t) \/ (ui.op = "delete" /\ ui.tx = t) => outbox[EVT(t)].status # "NONE"
    /\ \A t \in TxIds : Exists(t) /\ ~(ui.op = "update" /\ ui.tx = t) => outbox[EVT(t)].delta = row[t].delta

(* What a run carries and what the server accepted from it is the quantity   *)
(* of the row.                                                               *)
CarriedInv ==
    \A r \in Runs :
        /\ \A i \in batch[r] : outbox[i[1]].status # "NONE" /\ i[2] = outbox[i[1]].delta
        /\ todo[r] \subseteq Items(r)
        /\ \A t \in TxIds : Exists(t) /\ verdict[r][t] = "accepted" => delta[t] = row[t].delta

(* EditsReachServer, also while a command is between its two statements.     *)
QueuedInv ==
    \A t \in TxIds :
        Exists(t) /\ t \in posted /\ delta[t] # row[t].delta /\ ~(ui.op = "update" /\ ui.tx = t)
            => outbox[EVT(t)].status \in Deliverable

EditsInv ==
    DurableInv /\ UnknownInv /\ ApartInv /\ EditInv /\ CarriedInv /\ QueuedInv

(* With one run at a time and none of them forced, a deletion can rely on    *)
(* the status it has read.                                                   *)
OneRun == Forced = {} /\ \A r, s \in Runs : r = s

(* The server's answer about a movement is final for the batch, and as long  *)
(* as no answer was lost a posted movement is SYNCED or about to be.         *)
Answering(r) == pc[r] = "waiting" \/ (pc[r] = "apply" /\ "rows" \in acks[r])

AnswerInv ==
    /\ \A r \in Runs : \A i \in todo[r] : Exists(i.tx) => verdict[r][i.tx] = "none"
    /\ \A r \in Runs, t \in TxIds : Exists(t) /\ verdict[r][t] \in {"retryable", "permanent"} => t \notin posted
    /\ faults = 0 =>
         \A t \in TxIds : Exists(t) /\ t \in posted /\ row[t].status # "SYNCED" =>
             \E r \in Runs : verdict[r][t] = "accepted" /\ Answering(r)

(* Then a deletion is that of a SYNCED movement, with a reversal, or of one  *)
(* the server lacks and will not get.                                        *)
Buried(t) ==
    /\ outbox[EVT(t)].status = "PERMANENT_REJECTION"
    /\ \A r \in Runs : EVT(t) \notin EventsOf(r)

DeletedInv ==
    faults = 0 =>
        /\ ui.op = "delete" /\ ui.tx \in posted => ui.status = "SYNCED"
        /\ \A t \in TxIds : row[t].status = "deleted" /\ ~(ui.op = "delete" /\ ui.tx = t) =>
              outbox[VOID(t)].status # "NONE" \/ (t \notin posted /\ Buried(t))

(* The rows a run may still write to are not terminal.                       *)
Writing(r) == pc[r] \in {"mark", "waiting", "failed"} \/ (pc[r] = "apply" /\ "outbox" \in acks[r])

OpenInv == \A r \in Runs : Writing(r) => \A e \in EventsOf(r) : outbox[e].status \notin Terminal

DeletionsInv == EditsInv /\ AnswerInv /\ DeletedInv /\ OpenInv
-----------------------------------------------------------------------------
(* A step that changes nothing about the tables but statuses: no movement    *)
(* and no event comes or goes, and none has another quantity.                *)
SameTables ==
    /\ UNCHANGED <<ui, late, crashes, posted, delta>>
    /\ \A t \in TxIds : /\ row'[t].delta = row[t].delta
                        /\ row'[t].status = "none" <=> row[t].status = "none"
                        /\ row'[t].status = "deleted" <=> row[t].status = "deleted"
    /\ \A e \in Events : /\ outbox'[e].delta = outbox[e].delta
                         /\ outbox'[e].status = "NONE" <=> outbox[e].status = "NONE"

(* Such a step keeps what is known of the tables, as long as it forgets      *)
(* verdicts only; and edits stay queued if an event is only taken from the   *)
(* queue when the server has the quantity of the row.                        *)
LEMMA TablesKeep ==
    ASSUME EditsInv, SameTables,
           \A r \in Runs, t \in TxIds : verdict'[r][t] \in {verdict[r][t], "none"},
           \A t \in TxIds : \/ outbox'[EVT(t)].status = outbox[EVT(t)].status
                            \/ outbox'[EVT(t)].status \in Deliverable
                            \/ Exists(t) /\ t \in posted => delta[t] = row[t].delta
    PROVE  UnknownInv' /\ EditInv' /\ QueuedInv'
<1> USE DEF EditsInv
<1>1. \A t \in TxIds : EVT(t) \in Events /\ VOID(t) \in Events
  BY EventFacts
<1>2. \A t \in TxIds : Exists(t)' <=> Exists(t)
  BY DEF SameTables, Exists
<1>3. UnknownInv'
  BY <1>1 DEF UnknownInv, SameTables
<1>4. EditInv'
  <2>1. ui.op = "update" => ui.tx \in TxIds
    BY DEF DurableInv, TypeOK, Commands, Idle
  <2> QED
    BY <1>1, <1>2, <2>1 DEF EditInv, SameTables
<1>5. QueuedInv'
  BY <1>1, <1>2 DEF QueuedInv, EditInv, SameTables
<1> QED
  BY <1>3, <1>4, <1>5

(* A batch, and what is left of a push, in such a step.                      *)
LEMMA CarriedKeep ==
    ASSUME EditsInv, SameTables, UNCHANGED batch,
           \A r \in Runs : todo'[r] \subseteq todo[r] \cup Items(r),
           \A r \in Runs, t \in TxIds : verdict'[r][t] \in {verdict[r][t], "none"}
    PROVE  CarriedInv'
<1> USE DEF EditsInv
<1>1. \A t \in TxIds : Exists(t)' <=> Exists(t)
  BY DEF SameTables, Exists
<1>2. \A r \in Runs : Items(r)' = Items(r) /\ batch[r] \subseteq Events \X Int
  BY DEF Items, DurableInv, TypeOK
<1>3. \A r \in Runs : \A i \in batch[r] : i[1] \in Events
  BY <1>2
<1> QED
  BY <1>1, <1>2, <1>3 DEF CarriedInv, SameTables

(* A write of statuses keeps quantities and neither adds nor removes events. *)
LEMMA StatusesKeepTables ==
    ASSUME TypeOK, NEW r \in Runs, NEW new \in [Events -> OutboxStatuses \ {"NONE"}], NEW e \in Events
    PROVE  /\ SetStatuses(r, new)[e].delta = outbox[e].delta
           /\ SetStatuses(r, new)[e].status = "NONE" <=> outbox[e].status = "NONE"
           /\ SetStatuses(r, new)[e].status \in {outbox[e].status, new[e]}
           /\ e \notin EventsOf(r) => SetStatuses(r, new)[e] = outbox[e]
  BY DEF SetStatuses, WithStatus, AllThere, TypeOK

(* Steps of a run that touch neither tables nor batch.                       *)
LEMMA QuietKeeps ==
    ASSUME EditsInv, DurableInv', Undisturbed, NEW r \in Runs,
           \/ Enter(r) \/ NoToken(r) \/ Reply(r) \/ EndBatch(r) \/ RetryPush(r)
           \/ PushFails(r) \/ StatusWriteFails(r) \/ Start(r)
    PROVE  EditsInv'
<1> USE DEF EditsInv
<1>1. /\ UNCHANGED <<row, outbox, ui, posted, delta, verdict, batch, crashes>> /\ late' = late
      /\ \A s \in Runs : todo'[s] \subseteq todo[s] /\ todo'[s] \subseteq todo[s] \cup Items(s)
  BY DEF Enter, NoToken, Reply, EndBatch, RetryPush, PushFails, StatusWriteFails, Start, Acked, Abandon,
         localVars, serverVars, bounds, Undisturbed, DurableInv, TypeOK
<1>2. SameTables
  BY <1>1 DEF SameTables
<1>3. UnknownInv' /\ EditInv' /\ QueuedInv' /\ CarriedInv'
  BY <1>1, <1>2, TablesKeep, CarriedKeep
<1>4. /\ \A s \in Runs \ {r} : pc'[s] = pc[s] /\ todo'[s] = todo[s]
      /\ Active(r)' => Active(r) \/ (pc[r] = "token" /\ ui = Idle)
      /\ Active(r) => Active(r)'
      /\ todo'[r] # {} => todo'[r] = todo[r] /\ pc'[r] = pc[r]
  BY DEF Enter, NoToken, Reply, EndBatch, RetryPush, PushFails, StatusWriteFails, Start, Acked, Abandon,
         localVars, serverVars, bounds, Undisturbed, DurableInv, TypeOK, Active, ApartInv
<1>5. \A s \in Runs \ {r} : Active(s)' <=> Active(s)
  BY <1>4 DEF Active
<1>6. ApartInv'
  BY <1>1, <1>4, <1>5 DEF ApartInv
<1> QED
  BY <1>3, <1>6

(* Steps of a run that write statuses.                                       *)
LEMMA StatusWritesKeep ==
    ASSUME EditsInv, DurableInv', Undisturbed, NEW r \in Runs,
           MarkAndSend(r) \/ SendUnmarked(r) \/ ApplyOutboxStatuses(r) \/ GiveUp(r)
    PROVE  EditsInv'
<1> USE DEF EditsInv
<1>1. /\ UNCHANGED <<row, ui, late, crashes, posted, delta, batch>>
      /\ \A s \in Runs : todo'[s] \subseteq todo[s] \cup Items(s)
      /\ \A s \in Runs, t \in TxIds : verdict'[s][t] \in {verdict[s][t], "none"}
      /\ \A s \in Runs \ {r} : pc'[s] = pc[s] /\ todo'[s] = todo[s] /\ verdict'[s] = verdict[s]
      /\ pc[r] \in {"mark", "apply", "failed"} /\ pc'[r] \in {"waiting", "apply", "ending"}
      /\ todo'[r] # {} => pc'[r] = "waiting"
  <2>1. CASE Send(r) /\ pc[r] = "mark"
    BY <2>1 DEF Send, serverVars, DurableInv, TypeOK
  <2>2. CASE ApplyOutboxStatuses(r)
    BY <2>2 DEF ApplyOutboxStatuses, Acked, serverVars, ApartInv
  <2>3. CASE GiveUp(r)
    BY <2>3 DEF GiveUp, serverVars, bounds, DurableInv, TypeOK, ApartInv
  <2> QED
    BY <2>1, <2>2, <2>3 DEF MarkAndSend, SendUnmarked
<1>2. \E new \in [Events -> OutboxStatuses \ {"NONE"}] :
          /\ outbox' = SetStatuses(r, new) \/ outbox' = outbox
          /\ \A t \in TxIds : \/ new[EVT(t)] \in Deliverable
                              \/ Exists(t) /\ t \in posted => delta[t] = row[t].delta
  <2>1. CASE MarkAndSend(r)
    <3>1. [e \in Events |-> "SENDING"] \in [Events -> OutboxStatuses \ {"NONE"}]
      BY DEF OutboxStatuses
    <3>2. \A t \in TxIds : [e \in Events |-> "SENDING"][EVT(t)] \in Deliverable
      BY EventFacts DEF Deliverable
    <3> QED
      BY <2>1, <3>1, <3>2 DEF MarkAndSend
  <2>2. CASE GiveUp(r) \/ SendUnmarked(r)
    <3>1. [e \in Events |-> "RETRYABLE_ERROR"] \in [Events -> OutboxStatuses \ {"NONE"}]
      BY DEF OutboxStatuses
    <3>2. \A t \in TxIds : [e \in Events |-> "RETRYABLE_ERROR"][EVT(t)] \in Deliverable
      BY EventFacts DEF Deliverable
    <3> QED
      BY <2>2, <3>1, <3>2 DEF GiveUp, SendUnmarked
  <2>3. CASE ApplyOutboxStatuses(r)
    <3>1. PICK new : new = [e \in Events |-> TargetStatus(verdict[r][e[2]])]
      OBVIOUS
    <3>2. new \in [Events -> OutboxStatuses \ {"NONE"}]
      BY <3>1, TargetType DEF TargetStatus
    <3>3. ASSUME NEW t \in TxIds
          PROVE  \/ new[EVT(t)] \in Deliverable
                 \/ Exists(t) /\ t \in posted => delta[t] = row[t].delta
      <4>1. new[EVT(t)] = TargetStatus(verdict[r][t])
        BY <3>1, EventFacts DEF EVT
      <4>2. CASE verdict[r][t] = "accepted"
        BY <4>2 DEF CarriedInv
      <4>3. CASE verdict[r][t] = "permanent"
        BY <4>3 DEF UnknownInv, DurableInv, VerdictsAreTrue
      <4>4. CASE verdict[r][t] \notin {"accepted", "permanent"}
        BY <4>1, <4>4 DEF TargetStatus, Deliverable
      <4> QED
        BY <4>2, <4>3, <4>4
    <3>4. outbox' = SetStatuses(r, new)
      BY <2>3, <3>1 DEF ApplyOutboxStatuses
    <3> QED
      BY <3>2, <3>3, <3>4
  <2> QED
    BY <2>1, <2>2, <2>3
<1>3. /\ SameTables
      /\ \A t \in TxIds : \/ outbox'[EVT(t)].status = outbox[EVT(t)].status
                          \/ outbox'[EVT(t)].status \in Deliverable
                          \/ Exists(t) /\ t \in posted => delta[t] = row[t].delta
  <2>1. PICK new \in [Events -> OutboxStatuses \ {"NONE"}] :
          /\ outbox' = SetStatuses(r, new) \/ outbox' = outbox
          /\ \A t \in TxIds : \/ new[EVT(t)] \in Deliverable
                              \/ Exists(t) /\ t \in posted => delta[t] = row[t].delta
    BY <1>2
  <2>2. \A e \in Events : /\ outbox'[e].delta = outbox[e].delta
                          /\ outbox'[e].status = "NONE" <=> outbox[e].status = "NONE"
                          /\ outbox'[e].status \in {outbox[e].status, new[e]}
    BY <2>1, StatusesKeepTables DEF DurableInv
  <2>3. SameTables
    BY <1>1, <2>2 DEF SameTables
  <2> QED
    BY <2>1, <2>2, <2>3, EventFacts
<1>4. UnknownInv' /\ EditInv' /\ QueuedInv' /\ CarriedInv'
  BY <1>1, <1>3, TablesKeep, CarriedKeep
<1>5. ApartInv'
  <2>1. Active(r) /\ Active(r)' /\ \A s \in Runs \ {r} : Active(s)' <=> Active(s)
    BY <1>1 DEF Active
  <2> QED
    BY <1>1, <2>1 DEF ApartInv
<1> QED
  BY <1>4, <1>5

(* Reading the next batch.                                                   *)
LEMMA FetchKeeps ==
    ASSUME EditsInv, DurableInv', NEW r \in Runs, Fetch(r)
    PROVE  EditsInv'
<1> USE DEF EditsInv
<1>1. /\ UNCHANGED <<row, ui, late, crashes, posted, delta, verdict, todo>>
      /\ outbox' = [e \in Events |-> Released(e, r \in Forced)]
      /\ pc[r] = "fetch" /\ pc'[r] \in {"ending", "mark"}
      /\ \A s \in Runs \ {r} : pc'[s] = pc[s] /\ batch'[s] = batch[s]
      /\ batch'[r] = {<<e, outbox'[e].delta>> : e \in Oldest(outbox')}
  BY DEF Fetch, serverVars, bounds, DurableInv, TypeOK
<1>2. \A e \in Events : /\ outbox'[e].delta = outbox[e].delta
                        /\ outbox'[e].status = "NONE" <=> outbox[e].status = "NONE"
                        /\ outbox'[e].status \in {outbox[e].status, "PENDING"}
  BY <1>1 DEF Released
<1>3. SameTables
  BY <1>1, <1>2 DEF SameTables
<1>4. UnknownInv' /\ EditInv' /\ QueuedInv'
  BY <1>1, <1>2, <1>3, TablesKeep, EventFacts DEF Deliverable
<1>5. CarriedInv'
  <2>1. \A i \in batch'[r] : outbox'[i[1]].status # "NONE" /\ i[2] = outbox'[i[1]].delta
    <3>1. \A e \in Oldest(outbox') : outbox'[e].status # "NONE"
      BY DEF Oldest, IsEligible
    <3> QED
      BY <1>1, <3>1
  <2>2. ASSUME NEW s \in Runs \ {r}
        PROVE  /\ \A i \in batch'[s] : outbox'[i[1]].status # "NONE" /\ i[2] = outbox'[i[1]].delta
               /\ todo'[s] \subseteq Items(s)'
    <3>1. batch[s] \subseteq Events \X Int
      BY DEF DurableInv, TypeOK
    <3>2. \A i \in batch[s] : i[1] \in Events
      BY <3>1
    <3>3. Items(s)' = Items(s)
      BY <1>1 DEF Items
    <3>4. \A i \in batch[s] : outbox'[i[1]].status # "NONE" /\ i[2] = outbox'[i[1]].delta
      BY <1>2, <3>2 DEF CarriedInv
    <3> QED
      BY <1>1, <3>3, <3>4 DEF CarriedInv
  <2>3. todo'[r] = {}
    BY <1>1 DEF ApartInv
  <2>4. \A t \in TxIds : Exists(t)' <=> Exists(t)
    BY <1>1 DEF Exists
  <2> QED
    BY <1>1, <2>1, <2>2, <2>3, <2>4 DEF CarriedInv
<1>6. ApartInv'
  <2>1. Active(r) /\ Active(r)' /\ \A s \in Runs \ {r} : Active(s)' <=> Active(s)
    BY <1>1 DEF Active
  <2> QED
    BY <1>1, <2>1 DEF ApartInv
<1> QED
  BY <1>4, <1>5, <1>6

LEMMA BackoffKeeps ==
    ASSUME EditsInv, DurableInv', NEW e \in Events, BackoffElapses(e)
    PROVE  EditsInv'
<1> USE DEF EditsInv
<1>1. UNCHANGED <<row, ui, late, crashes, posted, delta, verdict, todo, pc, batch>>
  BY DEF BackoffElapses, runVars, serverVars, bounds
<1>2. \A f \in Events : outbox'[f].delta = outbox[f].delta /\ outbox'[f].status = outbox[f].status
  BY DEF BackoffElapses, DurableInv, TypeOK
<1>3. SameTables
  BY <1>1, <1>2 DEF SameTables
<1>4. UnknownInv' /\ EditInv' /\ QueuedInv' /\ CarriedInv'
  BY <1>1, <1>2, <1>3, TablesKeep, CarriedKeep, EventFacts
<1>5. ApartInv'
  BY <1>1 DEF ApartInv, Active
<1> QED
  BY <1>4, <1>5

(* What a run sends for a movement that is still there is the quantity of    *)
(* its row, and it sends nothing for one that was never recorded.            *)
LEMMA SentIsCurrent ==
    ASSUME EditsInv, NEW r \in Runs, NEW i \in todo[r]
    PROVE  /\ i.tx \in TxIds /\ i.delta \in Int
           /\ row[i.tx].status # "none"
           /\ Exists(i.tx) => i.delta = row[i.tx].delta
           /\ ui = Idle /\ ui.op = "none"
<1> USE DEF EditsInv
<1>1. PICK b \in batch[r] : i.tx = b[1][2] /\ i.delta = b[2]
  BY DEF CarriedInv, Items
<1>2. b \in Events \X Int
  BY DEF DurableInv, TypeOK
<1>3. PICK t \in TxIds : t = b[1][2] /\ (b[1] = EVT(t) \/ b[1] = VOID(t))
  BY <1>2 DEF Events, EVT, VOID
<1>4. outbox[b[1]].status # "NONE" /\ b[2] = outbox[b[1]].delta
  BY DEF CarriedInv
<1>5. ui = Idle /\ ui.op = "none"
  BY DEF ApartInv, Active, Idle
<1>6. row[t].status # "none"
  BY <1>3, <1>4 DEF UnknownInv
<1>7. Exists(t) => b[2] = row[t].delta
  BY <1>3, <1>4, <1>5 DEF UnknownInv, EditInv, Exists
<1> QED
  BY <1>1, <1>2, <1>3, <1>5, <1>6, <1>7

(* The server's answer: only the item's movement is touched, and an accepted *)
(* item is the server's quantity.                                            *)
LEMMA IngestChanges ==
    ASSUME TypeOK, NEW t \in TxIds, NEW d \in Int, NEW v \in Verdicts, Ingest(t, d, v)
    PROVE  /\ posted \subseteq posted' /\ posted' \subseteq posted \cup {t}
           /\ \A u \in TxIds \ {t} : delta'[u] = delta[u]
           /\ v = "accepted" => delta'[t] = d /\ t \in posted'
           /\ v # "accepted" => delta'[t] = delta[t] /\ posted' = posted /\ t \notin posted
           /\ t \in posted' => t \notin Refused \/ t \in posted
  BY DEF TypeOK, Ingest, Ledger!Restate, Ledger!PostOnce, serverVars

LEMMA ServerIngestsKeeps ==
    ASSUME EditsInv, DurableInv', NEW r \in Runs, ServerIngests(r)
    PROVE  EditsInv'
<1> USE DEF EditsInv
<1>1. PICK i \in todo[r], v \in Verdicts :
         /\ pc[r] = "waiting"
         /\ Ingest(i.tx, i.delta, v)
         /\ todo' = [todo EXCEPT ![r] = @ \ {i}]
         /\ verdict' = [verdict EXCEPT ![r] = [verdict[r] EXCEPT ![i.tx] = v]]
         /\ UNCHANGED <<localVars, syncing, pc, batch, acks, attempts, ui, late, bounds>>
  BY DEF ServerIngests
<1>2. /\ i.tx \in TxIds /\ i.delta \in Int
      /\ row[i.tx].status # "none"
      /\ Exists(i.tx) => i.delta = row[i.tx].delta
      /\ ui = Idle /\ ui.op = "none"
  BY SentIsCurrent
<1>3. /\ posted \subseteq posted' /\ posted' \subseteq posted \cup {i.tx}
      /\ \A u \in TxIds \ {i.tx} : delta'[u] = delta[u]
      /\ v = "accepted" => delta'[i.tx] = i.delta /\ i.tx \in posted'
      /\ v # "accepted" => delta'[i.tx] = delta[i.tx] /\ posted' = posted /\ i.tx \notin posted
      /\ i.tx \in posted' => i.tx \notin Refused \/ i.tx \in posted
  BY <1>1, <1>2, IngestChanges DEF DurableInv
<1>4. /\ UNCHANGED <<row, outbox, ui, late, crashes, pc, batch>>
      /\ \A s \in Runs, t \in TxIds : s # r \/ t # i.tx => verdict'[s][t] = verdict[s][t]
      /\ verdict'[r][i.tx] = v
      /\ \A s \in Runs : todo'[s] \subseteq todo[s]
  BY <1>1, <1>2 DEF localVars, bounds, DurableInv, TypeOK
<1>5. \A t \in TxIds : Exists(t)' <=> Exists(t)
  BY <1>4 DEF Exists
<1>6. UnknownInv'
  BY <1>2, <1>3, <1>4 DEF UnknownInv
<1>7. ApartInv'
  <2>1. Active(r) /\ \A s \in Runs : Active(s)' <=> Active(s)
    BY <1>1, <1>4 DEF Active
  <2>2. \A s \in Runs : ~Active(s) => s # r
    BY <2>1
  <2>3. \A s \in Runs : todo'[s] # {} => todo[s] # {}
    BY <1>4
  <2>4. \A s \in Runs : ~Active(s)' => batch'[s] = {} /\ \A t \in TxIds : verdict'[s][t] = "none"
    BY <1>4, <2>1, <2>2 DEF ApartInv
  <2> QED
    BY <1>2, <1>4, <2>3, <2>4 DEF ApartInv
<1>8. EditInv'
  BY <1>2, <1>4, <1>5 DEF EditInv
<1>9. CarriedInv'
  <2>1. \A s \in Runs : Items(s)' = Items(s)
    BY <1>4 DEF Items
  <2>2. ASSUME NEW s \in Runs, NEW t \in TxIds, Exists(t), verdict'[s][t] = "accepted"
        PROVE  delta'[t] = row[t].delta
    <3>1. CASE t = i.tx
      <4>1. v = "accepted" \/ (v # "accepted" /\ s # r)
        BY <1>4, <2>2, <3>1
      <4>2. v # "accepted" /\ s # r => t \in posted
        BY <1>4, <2>2 DEF DurableInv, VerdictsAreTrue
      <4> QED
        BY <1>2, <1>3, <2>2, <3>1, <4>1, <4>2
    <3>2. CASE t # i.tx
      BY <1>3, <1>4, <2>2, <3>2 DEF CarriedInv
    <3> QED
      BY <3>1, <3>2
  <2> QED
    BY <1>4, <1>5, <2>1, <2>2 DEF CarriedInv
<1>10. QueuedInv'
  <2> SUFFICES ASSUME NEW t \in TxIds, Exists(t)', t \in posted', delta'[t] # row'[t].delta
               PROVE  outbox'[EVT(t)].status \in Deliverable
    BY DEF QueuedInv
  <2>1. Exists(t) /\ row' = row /\ outbox' = outbox
    BY <1>4, <1>5
  <2>2. t # i.tx \/ v # "accepted"
    BY <1>2, <1>3, <2>1
  <2>3. t \in posted /\ delta[t] # row[t].delta
    BY <1>3, <2>1, <2>2
  <2> QED
    BY <1>2, <2>1, <2>3 DEF QueuedInv
<1> QED
  BY <1>6, <1>7, <1>8, <1>9, <1>10

LEMMA RowStatusesKeep ==
    ASSUME EditsInv, DurableInv', NEW r \in Runs, ApplyRowStatuses(r)
    PROVE  EditsInv'
<1> USE DEF EditsInv
<1>1. UNCHANGED <<outbox, ui, late, crashes, posted, delta, verdict, todo, pc, batch>>
  BY DEF ApplyRowStatuses, Acked, serverVars
<1>2. \A t \in TxIds : /\ row'[t].delta = row[t].delta
                       /\ row'[t].status = "none" <=> row[t].status = "none"
                       /\ row'[t].status = "deleted" <=> row[t].status = "deleted"
  BY DEF ApplyRowStatuses, TargetStatus, Exists
<1>3. SameTables
  BY <1>1, <1>2 DEF SameTables
<1>4. UnknownInv' /\ EditInv' /\ QueuedInv' /\ CarriedInv'
  BY <1>1, <1>3, TablesKeep, CarriedKeep
<1>5. ApartInv'
  BY <1>1 DEF ApartInv, Active
<1> QED
  BY <1>4, <1>5

LEMMA EndKeeps ==
    ASSUME EditsInv, DurableInv', NEW r \in Runs, End(r)
    PROVE  EditsInv'
<1> USE DEF EditsInv
<1>1. /\ UNCHANGED <<row, outbox, ui, late, crashes, posted, delta, todo>>
      /\ pc[r] = "ending" /\ pc'[r] = "idle" /\ batch'[r] = {}
      /\ \A t \in TxIds : verdict'[r][t] = "none"
      /\ \A s \in Runs \ {r} : pc'[s] = pc[s] /\ batch'[s] = batch[s] /\ verdict'[s] = verdict[s]
  BY DEF End, localVars, serverVars, bounds, DurableInv, TypeOK
<1>2. SameTables
  BY <1>1 DEF SameTables
<1>3. UnknownInv' /\ EditInv' /\ QueuedInv'
  BY <1>1, <1>2, TablesKeep
<1>4. CarriedInv'
  <2>1. todo'[r] = {}
    BY <1>1 DEF ApartInv
  <2>2. \A s \in Runs \ {r} : Items(s)' = Items(s)
    BY <1>1 DEF Items
  <2>3. \A t \in TxIds : Exists(t)' <=> Exists(t)
    BY <1>1 DEF Exists
  <2> QED
    BY <1>1, <2>1, <2>2, <2>3 DEF CarriedInv
<1>5. ApartInv'
  <2>1. Active(r) /\ ~Active(r)' /\ \A s \in Runs \ {r} : Active(s)' <=> Active(s)
    BY <1>1 DEF Active
  <2> QED
    BY <1>1, <2>1 DEF ApartInv
<1> QED
  BY <1>3, <1>4, <1>5

(* The user records a movement.                                              *)
LEMMA RecordKeeps ==
    ASSUME EditsInv, DurableInv', NEW t \in TxIds, NEW d \in Int, Record(t, d)
    PROVE  EditsInv'
<1> USE DEF EditsInv
<1>1. /\ UNCHANGED <<ui, late, crashes, posted, delta, verdict, todo, pc, batch>>
      /\ row[t].status = "none" /\ ui = Idle /\ ui.op = "none"
      /\ row'[t].status = "PENDING" /\ row'[t].delta = d
      /\ \A u \in TxIds \ {t} : row'[u] = row[u]
      /\ outbox'[EVT(t)].status = "PENDING" /\ outbox'[EVT(t)].delta = d
      /\ \A e \in Events \ {EVT(t)} : outbox'[e] = outbox[e]
  BY EventFacts DEF Record, MainThreadFree, Idle, Enqueued, runVars, serverVars, bounds, DurableInv, TypeOK
<1>2. /\ \A u \in TxIds : EVT(u) \in Events /\ VOID(u) \in Events /\ VOID(u) # EVT(t)
      /\ \A u \in TxIds \ {t} : EVT(u) # EVT(t)
  BY EventFacts DEF EVT, VOID
<1>3. outbox[EVT(t)].status = "NONE" /\ t \notin posted /\ outbox[VOID(t)].status = "NONE"
  BY <1>1 DEF UnknownInv
<1>4. /\ \A u \in TxIds \ {t} : Exists(u)' <=> Exists(u)
      /\ Exists(t)'
  BY <1>1 DEF Exists
<1>5. UnknownInv'
  BY <1>1, <1>2, <1>3 DEF UnknownInv
<1>6. ApartInv'
  BY <1>1 DEF ApartInv, Active
<1>7. EditInv'
  BY <1>1, <1>2, <1>4 DEF EditInv
<1>8. CarriedInv'
  <2>1. ASSUME NEW s \in Runs, NEW i \in batch[s]
        PROVE  outbox'[i[1]] = outbox[i[1]]
    <3>1. i[1] \in Events
      BY DEF DurableInv, TypeOK
    <3> QED
      BY <1>1, <1>3, <3>1 DEF CarriedInv
  <2>2. \A s \in Runs : Items(s)' = Items(s)
    BY <1>1 DEF Items
  <2>3. \A s \in Runs : verdict[s][t] = "none"
    BY <1>1 DEF UnknownInv
  <2> QED
    BY <1>1, <1>4, <2>1, <2>2, <2>3 DEF CarriedInv
<1>9. QueuedInv'
  BY <1>1, <1>2, <1>3, <1>4 DEF QueuedInv
<1> QED
  BY <1>5, <1>6, <1>7, <1>8, <1>9

(* While a command is between its two statements no run holds anything, and  *)
(* neither does one when the command begins.                                 *)
LEMMA NothingHeld ==
    ASSUME EditsInv, \A r \in Runs : ~Active(r)
    PROVE  \A r \in Runs : batch[r] = {} /\ todo[r] = {} /\ \A t \in TxIds : verdict[r][t] = "none"
  BY DEF EditsInv, ApartInv, Active

(* The first statement of a correction or a deletion.                        *)
LEMMA RowEditsKeep ==
    ASSUME EditsInv, DurableInv', Undisturbed, NEW t \in TxIds, NEW d \in Int, UpdateRow(t, d) \/ DeleteRow(t)
    PROVE  EditsInv'
<1> USE DEF EditsInv
<1>1. /\ UNCHANGED <<outbox, late, crashes, posted, delta, verdict, todo, pc, batch>>
      /\ Exists(t) /\ ui = Idle /\ ui.op = "none" /\ \A r \in Runs : ~Active(r)
      /\ ui'.tx = t /\ ui' # Idle
      /\ \A u \in TxIds \ {t} : row'[u] = row[u]
      /\ \/ /\ ui'.op = "update" /\ ui'.delta = d
            /\ row'[t].delta = d /\ row'[t].status = row[t].status
         \/ ui'.op = "delete" /\ row'[t].status = "deleted"
  BY DEF UpdateRow, DeleteRow, MayEdit, MainThreadFree, Idle, runVars, serverVars, Undisturbed,
         DurableInv, TypeOK
<1>2. \A r \in Runs : batch[r] = {} /\ todo[r] = {} /\ \A u \in TxIds : verdict[r][u] = "none"
  BY <1>1, NothingHeld
<1>3. /\ \A u \in TxIds \ {t} : Exists(u)' <=> Exists(u)
      /\ Exists(t)' <=> ui'.op = "update"
  BY <1>1 DEF Exists
<1>4. UnknownInv'
  BY <1>1 DEF UnknownInv, Exists
<1>5. ApartInv'
  BY <1>1 DEF ApartInv, Active
<1>6. EditInv'
  BY <1>1, <1>3 DEF EditInv
<1>7. CarriedInv'
  BY <1>1, <1>2 DEF CarriedInv
<1>8. QueuedInv'
  <2> SUFFICES ASSUME NEW u \in TxIds, Exists(u)', u \in posted', delta'[u] # row'[u].delta,
                      ~(ui'.op = "update" /\ ui'.tx = u)
               PROVE  outbox'[EVT(u)].status \in Deliverable
    BY DEF QueuedInv
  <2>1. u # t
    BY <1>1, <1>3
  <2> QED
    BY <1>1, <1>3, <2>1 DEF QueuedInv
<1> QED
  BY <1>4, <1>5, <1>6, <1>7, <1>8

(* And the second.                                                           *)
LEMMA OutboxEditsKeep ==
    ASSUME EditsInv, DurableInv', UpdateOutbox \/ QueueReversal \/ WithdrawEvent
    PROVE  EditsInv'
<1> USE DEF EditsInv
<1>1. PICK t \in TxIds : t = ui.tx
  BY DEF UpdateOutbox, QueueReversal, WithdrawEvent, DurableInv, TypeOK, Commands, Idle
<1>2. /\ UNCHANGED <<row, late, crashes, posted, delta, verdict, todo, pc, batch>>
      /\ ui # Idle /\ ui' = Idle /\ ui'.op = "none"
      /\ UpdateOutbox => ui.op = "update"
      /\ ~UpdateOutbox => ui.op = "delete"
  BY DEF UpdateOutbox, QueueReversal, WithdrawEvent, Idle, runVars, serverVars, bounds
<1>3. \A r \in Runs : batch[r] = {} /\ todo[r] = {} /\ \A u \in TxIds : verdict[r][u] = "none"
  <2>1. \A r \in Runs : ~Active(r)
    BY <1>2 DEF ApartInv
  <2> QED
    BY <2>1, NothingHeld
<1>4. /\ ~UpdateOutbox => row[t].status = "deleted" /\ ~Exists(t)
      /\ UpdateOutbox => Exists(t) /\ ui.delta = row[t].delta
      /\ outbox[EVT(t)].status # "NONE"
  BY <1>1, <1>2 DEF DurableInv, DeletingHasNoRow, Exists, EditInv
<1>5. /\ \A u \in TxIds \ {t} : outbox'[EVT(u)] = outbox[EVT(u)] /\ outbox'[VOID(u)] = outbox[VOID(u)]
      /\ outbox'[EVT(t)].status # "NONE"
      /\ UpdateOutbox => /\ outbox'[EVT(t)].status = "PENDING" /\ outbox'[EVT(t)].delta = ui.delta
                         /\ outbox'[VOID(t)] = outbox[VOID(t)]
  <2>1. /\ \A u \in TxIds : EVT(u) \in Events /\ VOID(u) \in Events /\ VOID(u) # EVT(t) /\ VOID(t) # EVT(u)
        /\ \A u \in TxIds \ {t} : EVT(u) # EVT(t) /\ VOID(u) # VOID(t)
    BY EventFacts DEF EVT, VOID
  <2>2. CASE UpdateOutbox
    BY <1>1, <1>4, <2>1, <2>2 DEF UpdateOutbox, Requeued, DurableInv, TypeOK
  <2>3. CASE QueueReversal
    BY <1>1, <1>2, <1>4, <2>1, <2>3 DEF QueueReversal, DurableInv, TypeOK
  <2>4. CASE WithdrawEvent
    BY <1>1, <1>2, <1>4, <2>1, <2>4 DEF WithdrawEvent, Withdrawn, DurableInv, TypeOK
  <2> QED
    BY <1>2, <2>2, <2>3, <2>4
<1>6. \A u \in TxIds : Exists(u)' <=> Exists(u)
  BY <1>2 DEF Exists
<1>7. UnknownInv'
  BY <1>2, <1>4, <1>5 DEF UnknownInv, Exists
<1>8. ApartInv'
  BY <1>2 DEF ApartInv, Active
<1>9. EditInv'
  BY <1>1, <1>2, <1>4, <1>5, <1>6 DEF EditInv
<1>10. CarriedInv'
  BY <1>2, <1>3 DEF CarriedInv
<1>11. QueuedInv'
  BY <1>1, <1>2, <1>4, <1>5, <1>6 DEF QueuedInv, Deliverable
<1> QED
  BY <1>7, <1>8, <1>9, <1>10, <1>11

LEMMA InitEdits == Undisturbed /\ Init => EditsInv
<1>1. Init => UnknownInv
  BY EventFacts DEF Init, UnknownInv, NoEvent, Ledger!LedgerInit
<1>2. Init => ApartInv
  BY DEF Init, ApartInv, Active
<1>3. Init => EditInv /\ CarriedInv /\ QueuedInv
  BY DEF Init, EditInv, CarriedInv, QueuedInv, Exists, Idle
<1> QED
  BY <1>1, <1>2, <1>3, InitDurable DEF EditsInv

LEMMA StepEdits == Undisturbed /\ EditsInv /\ [Next]_vars => EditsInv'
<1> SUFFICES ASSUME Undisturbed, EditsInv, [Next]_vars
             PROVE  EditsInv'
  OBVIOUS
<1>1. DurableInv'
  BY StepDurable DEF EditsInv
<1>2. CASE UNCHANGED vars
  BY <1>1, <1>2 DEF vars, EditsInv, UnknownInv, ApartInv, EditInv, CarriedInv, QueuedInv, Exists, Active, Items
<1>3. ASSUME NEW m \in Moves, Record(m.tx, m.delta)
      PROVE  EditsInv'
  <2>1. m.tx \in TxIds /\ m.delta \in Int
    BY OutboxAssumption DEF Movements
  <2> QED
    BY <1>1, <1>3, <2>1, RecordKeeps
<1>4. ASSUME NEW m \in Edits, UpdateRow(m.tx, m.delta)
      PROVE  EditsInv'
  <2>1. m.tx \in TxIds /\ m.delta \in Int
    BY OutboxAssumption DEF Movements
  <2> QED
    BY <1>1, <1>4, <2>1, RowEditsKeep
<1>5. ASSUME NEW t \in Deletable, DeleteRow(t)
      PROVE  EditsInv'
  <2>1. t \in TxIds /\ 0 \in Int
    BY OutboxAssumption
  <2> QED
    BY <1>1, <1>5, <2>1, RowEditsKeep
<1>6. CASE UpdateOutbox \/ QueueReversal \/ WithdrawEvent
  BY <1>1, <1>6, OutboxEditsKeep
<1>7. ASSUME NEW r \in Runs, Enter(r) \/ RunStep(r) \/ RunFault(r)
      PROVE  EditsInv'
  <2>1. CASE \/ Enter(r) \/ NoToken(r) \/ Reply(r) \/ EndBatch(r) \/ RetryPush(r)
             \/ PushFails(r) \/ StatusWriteFails(r) \/ Start(r)
    BY <1>1, <2>1, QuietKeeps
  <2>2. CASE MarkAndSend(r) \/ SendUnmarked(r) \/ ApplyOutboxStatuses(r) \/ GiveUp(r)
    BY <1>1, <2>2, StatusWritesKeep
  <2>3. CASE Fetch(r) \/ ServerIngests(r) \/ ApplyRowStatuses(r) \/ End(r)
    BY <1>1, <2>3, FetchKeeps, ServerIngestsKeeps, RowStatusesKeep, EndKeeps
  <2> QED
    BY <1>7, <2>1, <2>2, <2>3 DEF RunStep, RunFault
<1>8. ASSUME NEW e \in Events, BackoffElapses(e) \/ Cleanup(e)
      PROVE  EditsInv'
  BY <1>1, <1>8, BackoffKeeps DEF Cleanup, Undisturbed
<1>9. ~Crash /\ late = {}
  BY DEF Crash, Undisturbed, EditsInv, ApartInv
<1> QED
  BY <1>2, <1>3, <1>4, <1>5, <1>6, <1>7, <1>8, <1>9 DEF Next, UserStep

(* update_transaction: "the next sync push re-pushes the updated payload".   *)
(* However many runs overlap, whatever fails in them, and whatever is edited *)
(* between them, a corrected quantity the central ledger lacks stays queued, *)
(* where a correction and a sync run do not overlap, no request outlives its *)
(* timeout, nothing is archived and the application does not die. Without    *)
(* the first of these it is false: OutboxEditInFlight.                       *)
THEOREM CorrectionsReachServer == Undisturbed => (Spec => []EditsReachServer)
<1> SUFFICES ASSUME Undisturbed
             PROVE  Spec => []EditsReachServer
  OBVIOUS
<1>1. Init => EditsInv
  BY InitEdits
<1>2. EditsInv /\ [Next]_vars => EditsInv'
  BY StepEdits
<1>3. EditsInv => EditsReachServer
  BY DEF EditsInv, QueuedInv, EditsReachServer, Idle
<1> QED
  BY <1>1, <1>2, <1>3, PTL DEF Spec
-----------------------------------------------------------------------------
(* The events of a batch are events.                                         *)
LEMMA BatchEvents ==
    ASSUME TypeOK, NEW r \in Runs
    PROVE  EventsOf(r) \subseteq Events
  BY DEF TypeOK, EventsOf

(* A step keeps OpenInv if whoever may write afterwards already could, to    *)
(* the same rows, and it makes no row terminal.                              *)
LEMMA OpenFrame ==
    ASSUME EditsInv, OpenInv,
           \A r \in Runs : Writing(r)' => Writing(r) /\ batch'[r] = batch[r],
           \A e \in Events : outbox'[e].status \in Terminal => outbox[e].status \in Terminal
    PROVE  OpenInv'
<1>1. \A r \in Runs : EventsOf(r) \subseteq Events
  BY BatchEvents DEF EditsInv, DurableInv
<1>2. \A r \in Runs : batch'[r] = batch[r] => EventsOf(r)' = EventsOf(r)
  BY DEF EventsOf
<1> QED
  BY <1>1, <1>2 DEF OpenInv

LEMMA OpenKeeps ==
    ASSUME Undisturbed, OneRun, EditsInv, OpenInv, [Next]_vars
    PROVE  OpenInv'
<1>0. TypeOK
  BY DEF EditsInv, DurableInv
<1>1. CASE UNCHANGED vars
  BY <1>1, OpenFrame DEF vars, Writing
<1>2. ASSUME NEW m \in Moves, Record(m.tx, m.delta)
      PROVE  OpenInv'
  <2>1. m.tx \in TxIds
    BY OutboxAssumption DEF Movements
  <2>2. \A e \in Events : outbox'[e].status = outbox[e].status \/ outbox'[e].status = "PENDING"
    BY <1>0, <1>2, <2>1, EventFacts DEF Record, Enqueued, TypeOK
  <2>3. UNCHANGED <<pc, batch, acks>>
    BY <1>2 DEF Record, runVars
  <2> QED
    BY <2>2, <2>3, OpenFrame DEF Writing, Terminal
<1>3. CASE UserStep /\ ~(\E m \in Moves : Record(m.tx, m.delta))
  <2>1. UNCHANGED batch
    BY <1>3 DEF UserStep, UpdateRow, DeleteRow, UpdateOutbox, QueueReversal, WithdrawEvent, runVars
  <2>2. \A r \in Runs : ~Active(r)
    <3>1. CASE UpdateOutbox \/ QueueReversal \/ WithdrawEvent
      BY <3>1 DEF UpdateOutbox, QueueReversal, WithdrawEvent, EditsInv, ApartInv, Idle
    <3>2. CASE (\E m \in Edits : UpdateRow(m.tx, m.delta)) \/ (\E t \in Deletable : DeleteRow(t))
      BY <3>2 DEF UpdateRow, DeleteRow, MayEdit, Undisturbed
    <3> QED
      BY <1>3, <3>1, <3>2 DEF UserStep
  <2>3. \A r \in Runs : batch'[r] = {}
    BY <2>1, <2>2, NothingHeld
  <2> QED
    BY <2>3 DEF OpenInv, EventsOf
<1>4. ASSUME NEW r \in Runs, Enter(r) \/ RunStep(r) \/ RunFault(r)
      PROVE  OpenInv'
  <2>0. \A s \in Runs : s = r
    BY DEF OneRun
  <2>1. CASE Fetch(r)
    <3>1. EventsOf(r)' \subseteq Oldest(outbox')
      BY <1>0, <2>1 DEF Fetch, EventsOf, TypeOK
    <3>2. \A e \in Oldest(outbox') : outbox'[e].status \notin Terminal
      BY DEF Oldest, IsEligible, Terminal
    <3> QED
      BY <2>0, <3>1, <3>2 DEF OpenInv
  <2>2. CASE ApplyOutboxStatuses(r) \/ GiveUp(r)
    <3>1. ~Writing(r)'
      BY <1>0, <2>2 DEF ApplyOutboxStatuses, Acked, GiveUp, TypeOK, Writing
    <3> QED
      BY <2>0, <3>1 DEF OpenInv
  <2>3. CASE MarkAndSend(r)
    <3>1. [e \in Events |-> "SENDING"] \in [Events -> OutboxStatuses \ {"NONE"}]
      BY DEF OutboxStatuses
    <3>2. \A e \in Events : outbox'[e].status \in {outbox[e].status, "SENDING"}
      BY <1>0, <2>3, <3>1, StatusesKeepTables DEF MarkAndSend
    <3>3. Writing(r) /\ batch' = batch
      BY <2>3 DEF MarkAndSend, Send, Writing
    <3> QED
      BY <2>0, <3>2, <3>3, OpenFrame DEF Terminal
  <2>4. CASE \/ Enter(r) \/ NoToken(r) \/ Reply(r) \/ EndBatch(r) \/ RetryPush(r) \/ Start(r) \/ End(r)
             \/ PushFails(r) \/ StatusWriteFails(r) \/ SendUnmarked(r) \/ ApplyRowStatuses(r) \/ ServerIngests(r)
    <3>1. outbox' = outbox
      BY <2>4 DEF Enter, NoToken, Reply, EndBatch, RetryPush, Start, End, PushFails, StatusWriteFails,
                  SendUnmarked, ApplyRowStatuses, ServerIngests, localVars
    <3>2. Writing(r)' => Writing(r) /\ batch'[r] = batch[r]
      <4>1. CASE Enter(r) \/ NoToken(r) \/ Start(r) \/ EndBatch(r) \/ RetryPush(r) \/ End(r)
        <5>1. pc'[r] \in {"token", "idle", "fetch", "ending"}
          BY <1>0, <4>1 DEF Enter, NoToken, Start, EndBatch, RetryPush, End, TypeOK
        <5> QED
          BY <5>1 DEF Writing
      <4>2. CASE Reply(r) \/ PushFails(r) \/ SendUnmarked(r)
        BY <4>2 DEF Reply, PushFails, SendUnmarked, Send, Writing
      <4>3. CASE StatusWriteFails(r) \/ ApplyRowStatuses(r) \/ ServerIngests(r)
        <5>1. UNCHANGED <<pc, batch>> /\ acks'[r] \subseteq acks[r]
          BY <1>0, <4>3 DEF StatusWriteFails, ApplyRowStatuses, ServerIngests, Acked, TypeOK
        <5> QED
          BY <5>1 DEF Writing
      <4> QED
        BY <2>4, <4>1, <4>2, <4>3
    <3> QED
      BY <2>0, <3>1, <3>2, OpenFrame
  <2> QED
    BY <1>4, <2>1, <2>2, <2>3, <2>4 DEF RunStep, RunFault
<1>5. ASSUME NEW e \in Events, BackoffElapses(e) \/ Cleanup(e)
      PROVE  OpenInv'
  <2>1. BackoffElapses(e)
    BY <1>5 DEF Cleanup, Undisturbed
  <2>2. \A f \in Events : outbox'[f].status = outbox[f].status
    BY <1>0, <2>1 DEF BackoffElapses, TypeOK
  <2>3. UNCHANGED <<pc, batch, acks>>
    BY <2>1 DEF BackoffElapses, runVars
  <2> QED
    BY <2>2, <2>3, OpenFrame DEF Writing
<1>6. ~Crash /\ late = {}
  BY DEF Crash, Undisturbed, EditsInv, ApartInv
<1> QED
  BY <1>1, <1>2, <1>3, <1>4, <1>5, <1>6 DEF Next, UserStep

(* A step keeps AnswerInv if no movement or item appears, no answer but      *)
(* "none" does, and a run that has answers to apply keeps them unless the    *)
(* step is a fault.                                                          *)
LEMMA AnswerFrame ==
    ASSUME EditsInv, AnswerInv, UNCHANGED posted,
           \A r \in Runs : todo'[r] \subseteq todo[r],
           \A r \in Runs, t \in TxIds : verdict'[r][t] \in {verdict[r][t], "none"},
           \A t \in TxIds : Exists(t)' => Exists(t) /\ row'[t].status = row[t].status,
           faults' = 0 => /\ faults = 0
                          /\ \A r \in Runs : Answering(r) => Answering(r)' /\ verdict'[r] = verdict[r]
    PROVE  AnswerInv'
<1>1. \A r \in Runs : \A i \in todo[r] : i.tx \in TxIds
  BY DEF EditsInv, DurableInv, TypeOK, Movements
<1>2. \A r \in Runs : \A i \in todo'[r] : Exists(i.tx)' => verdict'[r][i.tx] = "none"
  BY <1>1 DEF AnswerInv
<1>3. \A r \in Runs, t \in TxIds : Exists(t)' /\ verdict'[r][t] \in {"retryable", "permanent"} => t \notin posted
  BY DEF AnswerInv
<1>4. ASSUME faults' = 0, NEW t \in TxIds, Exists(t)', t \in posted, row'[t].status # "SYNCED"
      PROVE  \E r \in Runs : verdict'[r][t] = "accepted" /\ Answering(r)'
  BY <1>4 DEF AnswerInv
<1> QED
  BY <1>2, <1>3, <1>4 DEF AnswerInv

(* The user's steps, and time.                                               *)
LEMMA UserAnswers ==
    ASSUME Undisturbed, EditsInv, AnswerInv,
           UserStep \/ UNCHANGED vars \/ \E e \in Events : BackoffElapses(e)
    PROVE  AnswerInv'
<1>0. TypeOK
  BY DEF EditsInv, DurableInv
<1>1. UNCHANGED <<posted, faults, todo, verdict, pc, acks>>
  BY DEF UserStep, Record, UpdateRow, DeleteRow, UpdateOutbox, QueueReversal, WithdrawEvent, BackoffElapses,
         runVars, serverVars, bounds, vars
<1>2. \A r \in Runs : Answering(r)' <=> Answering(r)
  BY <1>1 DEF Answering
<1>3. ASSUME NEW m \in Moves, Record(m.tx, m.delta)
      PROVE  AnswerInv'
  <2>1. PICK u \in TxIds : u = m.tx
    BY OutboxAssumption DEF Movements
  <2>2. /\ \A t \in TxIds \ {u} : row'[t] = row[t]
        /\ row[u].status = "none"
    BY <1>0, <1>3, <2>1 DEF Record, TypeOK
  <2>3. \A t \in TxIds \ {u} : Exists(t)' <=> Exists(t)
    BY <2>2 DEF Exists
  <2>4. u \notin posted /\ \A r \in Runs : verdict[r][u] = "none"
    BY <2>2 DEF EditsInv, UnknownInv
  <2>5. \A r \in Runs : \A i \in todo[r] : i.tx \in TxIds \ {u}
    BY <2>2, SentIsCurrent
  <2>6. \A r \in Runs : \A i \in todo'[r] : Exists(i.tx)' => verdict'[r][i.tx] = "none"
    BY <1>1, <2>3, <2>5 DEF AnswerInv
  <2>7. \A r \in Runs, t \in TxIds : Exists(t)' /\ verdict'[r][t] \in {"retryable", "permanent"} => t \notin posted'
    BY <1>1, <2>3, <2>4 DEF AnswerInv
  <2>8. ASSUME faults' = 0, NEW t \in TxIds, Exists(t)', t \in posted', row'[t].status # "SYNCED"
        PROVE  \E r \in Runs : verdict'[r][t] = "accepted" /\ Answering(r)'
    BY <1>1, <1>2, <2>2, <2>3, <2>4, <2>8 DEF AnswerInv
  <2> QED
    BY <2>6, <2>7, <2>8 DEF AnswerInv
<1>4. CASE ~(\E m \in Moves : Record(m.tx, m.delta))
  <2>1. \A t \in TxIds : Exists(t)' => Exists(t) /\ row'[t].status = row[t].status
    <3>1. CASE UpdateOutbox \/ QueueReversal \/ WithdrawEvent \/ UNCHANGED vars \/ \E e \in Events : BackoffElapses(e)
      BY <3>1 DEF UpdateOutbox, QueueReversal, WithdrawEvent, vars, BackoffElapses, Exists
    <3>2. ASSUME NEW m \in Edits, UpdateRow(m.tx, m.delta)
          PROVE  \A t \in TxIds : row'[t].status = row[t].status
      BY <1>0, <3>2 DEF UpdateRow, TypeOK
    <3>3. ASSUME NEW u \in Deletable, DeleteRow(u)
          PROVE  \A t \in TxIds : row'[t] = row[t] \/ row'[t].status = "deleted"
      BY <1>0, <3>3 DEF DeleteRow, TypeOK
    <3> QED
      BY <1>4, <3>1, <3>2, <3>3 DEF UserStep, Exists
  <2> QED
    BY <1>1, <1>2, <2>1, AnswerFrame
<1> QED
  BY <1>3, <1>4

LEMMA RunAnswers ==
    ASSUME OneRun, EditsInv, EditsInv', AnswerInv, NEW r \in Runs, Enter(r) \/ RunStep(r) \/ RunFault(r)
    PROVE  AnswerInv'
<1>0. TypeOK /\ \A s \in Runs : s = r
  BY DEF EditsInv, DurableInv, OneRun
<1>1. CASE ServerIngests(r)
  <2>1. PICK i \in todo[r], v \in Verdicts :
           /\ pc[r] = "waiting"
           /\ Ingest(i.tx, i.delta, v)
           /\ todo' = [todo EXCEPT ![r] = @ \ {i}]
           /\ verdict' = [verdict EXCEPT ![r] = [verdict[r] EXCEPT ![i.tx] = v]]
           /\ UNCHANGED <<localVars, syncing, pc, batch, acks, attempts, ui, late, bounds>>
    BY <1>1 DEF ServerIngests
  <2>2. /\ i.tx \in TxIds /\ i.delta \in Int
        /\ Exists(i.tx) => i.delta = row[i.tx].delta
    BY SentIsCurrent
  <2>3. /\ posted \subseteq posted' /\ posted' \subseteq posted \cup {i.tx}
        /\ v = "accepted" => i.tx \in posted'
        /\ v # "accepted" => posted' = posted /\ i.tx \notin posted
    BY <1>0, <2>1, <2>2, IngestChanges
  <2>4. /\ UNCHANGED <<row, pc, faults>>
        /\ \A t \in TxIds \ {i.tx} : verdict'[r][t] = verdict[r][t]
        /\ verdict'[r][i.tx] = v
        /\ todo'[r] = todo[r] \ {i}
    BY <1>0, <2>1, <2>2 DEF localVars, bounds, TypeOK
  <2>5. /\ \A t \in TxIds : Exists(t)' <=> Exists(t)
        /\ Answering(r)'
    BY <2>1, <2>4 DEF Exists, Answering
  <2>6. ASSUME NEW j \in todo'[r], Exists(j.tx)'
        PROVE  verdict'[r][j.tx] = "none"
    <3>1. j \in todo[r] /\ j # i /\ j.tx \in TxIds /\ j.delta \in Int
      BY <2>4, SentIsCurrent
    <3>2. Exists(j.tx) /\ j.delta = row[j.tx].delta
      BY <2>5, <2>6, <3>1, SentIsCurrent
    <3>3. j.tx # i.tx
      <4>1. i \in Movements /\ j \in Movements
        BY <1>0, <3>1 DEF TypeOK
      <4>2. j.tx = i.tx => j.delta = i.delta
        BY <2>2, <3>2
      <4> QED
        BY <3>1, <4>1, <4>2 DEF Movements
    <3> QED
      BY <2>4, <3>1, <3>2, <3>3 DEF AnswerInv
  <2>7. ASSUME NEW t \in TxIds, Exists(t)', verdict'[r][t] \in {"retryable", "permanent"}
        PROVE  t \notin posted'
    BY <2>3, <2>4, <2>5, <2>7 DEF AnswerInv
  <2>8. ASSUME faults' = 0, NEW t \in TxIds, Exists(t)', t \in posted', row'[t].status # "SYNCED"
        PROVE  verdict'[r][t] = "accepted"
    <3>1. CASE t = i.tx
      BY <2>3, <2>4, <2>8, <3>1
    <3>2. CASE t # i.tx
      BY <1>0, <2>3, <2>4, <2>5, <2>8, <3>2 DEF AnswerInv
    <3> QED
      BY <3>1, <3>2
  <2> QED
    BY <1>0, <2>5, <2>6, <2>7, <2>8 DEF AnswerInv
<1>2. CASE MarkAndSend(r) \/ SendUnmarked(r)
  <2>1. /\ UNCHANGED <<posted, row>> /\ pc[r] = "mark"
        /\ \A t \in TxIds : verdict'[r][t] = "none"
        /\ faults' = 0 => faults = 0
    BY <1>0, <1>2 DEF MarkAndSend, SendUnmarked, Send, Fails, serverVars, TypeOK
  <2>2. \A t \in TxIds : Exists(t)' <=> Exists(t)
    BY <2>1 DEF Exists
  <2>3. \A i \in todo'[r] : i.tx \in TxIds
    BY DEF EditsInv, DurableInv, TypeOK, Movements
  <2>4. ~Answering(r)
    BY <2>1 DEF Answering
  <2> QED
    BY <1>0, <2>1, <2>2, <2>3, <2>4 DEF AnswerInv
<1>3. CASE ApplyRowStatuses(r)
  <2>1. /\ UNCHANGED <<posted, verdict, todo, pc, faults>>
        /\ \A t \in TxIds : row'[t].status = IF verdict[r][t] # "none" /\ Exists(t)
                                             THEN TargetStatus(verdict[r][t]) ELSE row[t].status
    BY <1>3 DEF ApplyRowStatuses, Acked, serverVars
  <2>2. \A t \in TxIds : Exists(t)' <=> Exists(t)
    BY <2>1 DEF Exists, TargetStatus
  <2>3. \A i \in todo[r] : i.tx \in TxIds
    BY <1>0 DEF TypeOK, Movements
  <2>4. ASSUME faults' = 0, NEW t \in TxIds, Exists(t), t \in posted
        PROVE  row'[t].status = "SYNCED"
    <3>1. verdict[r][t] \notin {"retryable", "permanent"} /\ verdict[r][t] \in Verdicts
      BY <1>0, <2>4 DEF AnswerInv, TypeOK
    <3>2. verdict[r][t] = "none" => row[t].status = "SYNCED"
      BY <1>0, <2>1, <2>4 DEF AnswerInv
    <3> QED
      BY <2>1, <2>4, <3>1, <3>2 DEF TargetStatus, Verdicts
  <2> QED
    BY <1>0, <2>1, <2>2, <2>3, <2>4 DEF AnswerInv
<1>4. CASE \/ Enter(r) \/ Start(r) \/ Fetch(r) \/ Reply(r) \/ ApplyOutboxStatuses(r) \/ EndBatch(r)
           \/ RetryPush(r) \/ GiveUp(r) \/ End(r) \/ NoToken(r) \/ PushFails(r) \/ StatusWriteFails(r)
  <2>1. /\ UNCHANGED <<posted, row>>
        /\ todo'[r] \subseteq todo[r]
        /\ \A t \in TxIds : verdict'[r][t] \in {verdict[r][t], "none"}
        /\ faults' = 0 => faults = 0
    BY <1>0, <1>4 DEF Enter, Start, Fetch, Reply, ApplyOutboxStatuses, EndBatch, RetryPush, GiveUp, End,
       NoToken, PushFails, StatusWriteFails, Acked, Fails, localVars, serverVars, bounds, TypeOK
  <2>2. faults' = 0 /\ Answering(r) => Answering(r)' /\ verdict'[r] = verdict[r]
    <3>1. CASE Enter(r) \/ Start(r) \/ Fetch(r) \/ EndBatch(r) \/ RetryPush(r) \/ GiveUp(r) \/ End(r)
      BY <3>1 DEF Enter, Start, Fetch, EndBatch, RetryPush, GiveUp, End, Answering
    <3>2. CASE NoToken(r) \/ PushFails(r) \/ StatusWriteFails(r)
      BY <1>0, <3>2 DEF NoToken, PushFails, StatusWriteFails, Fails, TypeOK
    <3>3. CASE Reply(r)
      BY <1>0, <3>3 DEF Reply, Answering, TypeOK
    <3>4. CASE ApplyOutboxStatuses(r)
      BY <1>0, <3>4 DEF ApplyOutboxStatuses, Acked, Answering, TypeOK
    <3> QED
      BY <1>4, <3>1, <3>2, <3>3, <3>4
  <2>3. \A t \in TxIds : Exists(t)' => Exists(t) /\ row'[t].status = row[t].status
    BY <2>1 DEF Exists
  <2> QED
    BY <1>0, <2>1, <2>2, <2>3, AnswerFrame
<1> QED
  BY <1>1, <1>2, <1>3, <1>4 DEF RunStep, RunFault

(* A step keeps DeletedInv if it neither begins nor ends a deletion, posts   *)
(* nothing, and leaves reversals and withdrawn events as they are.           *)
LEMMA DeletedFrame ==
    ASSUME DeletedInv, UNCHANGED posted, faults' = 0 => faults = 0,
           ui' = ui \/ (ui.op # "delete" /\ ui'.op # "delete"),
           \A t \in TxIds : row'[t].status = "deleted" =>
               /\ row[t].status = "deleted"
               /\ outbox[VOID(t)].status # "NONE" => outbox'[VOID(t)].status # "NONE"
               /\ Buried(t) => Buried(t)'
    PROVE  DeletedInv'
  BY DEF DeletedInv

LEMMA UserDeletes ==
    ASSUME Undisturbed, EditsInv, EditsInv', AnswerInv, DeletedInv,
           UserStep \/ UNCHANGED vars \/ \E e \in Events : BackoffElapses(e)
    PROVE  DeletedInv'
<1>0. TypeOK
  BY DEF EditsInv, DurableInv
<1>1. UNCHANGED <<posted, faults, batch>>
  BY DEF UserStep, Record, UpdateRow, DeleteRow, UpdateOutbox, QueueReversal, WithdrawEvent, BackoffElapses,
         runVars, serverVars, bounds, vars
<1>2. \A r \in Runs : EventsOf(r)' = EventsOf(r)
  BY <1>1 DEF EventsOf
<1>3. /\ \A t, u \in TxIds : VOID(u) # EVT(t) /\ (t # u => EVT(t) # EVT(u) /\ VOID(t) # VOID(u))
      /\ \A t \in TxIds : EVT(t) \in Events /\ VOID(t) \in Events
  BY EventFacts DEF EVT, VOID
<1>4. CASE UNCHANGED vars \/ \E e \in Events : BackoffElapses(e)
  <2>1. UNCHANGED <<row, ui>> /\ \A e \in Events : outbox'[e].status = outbox[e].status
    BY <1>0, <1>4 DEF vars, BackoffElapses, TypeOK
  <2>2. \A t \in TxIds : Buried(t) => Buried(t)'
    BY <1>2, <1>3, <2>1 DEF Buried
  <2> QED
    BY <1>1, <1>3, <2>1, <2>2, DeletedFrame
<1>5. ASSUME NEW m \in Moves, Record(m.tx, m.delta)
      PROVE  DeletedInv'
  <2>1. PICK u \in TxIds : u = m.tx
    BY OutboxAssumption DEF Movements
  <2>2. /\ \A t \in TxIds \ {u} : row'[t] = row[t]
        /\ row'[u].status = "PENDING" /\ ui' = ui
        /\ \A e \in Events \ {EVT(u)} : outbox'[e] = outbox[e]
    BY <1>0, <1>5, <2>1 DEF Record, TypeOK
  <2>3. \A t \in TxIds \ {u} : Buried(t) => Buried(t)'
    BY <1>2, <1>3, <2>2 DEF Buried
  <2> QED
    BY <1>1, <1>3, <2>2, <2>3, DeletedFrame
<1>6. ASSUME NEW m \in Edits, UpdateRow(m.tx, m.delta)
      PROVE  DeletedInv'
  <2>1. /\ \A t \in TxIds : row'[t].status = row[t].status
        /\ UNCHANGED outbox /\ ui.op # "delete" /\ ui'.op # "delete"
    BY <1>0, <1>6 DEF UpdateRow, MayEdit, MainThreadFree, Idle, TypeOK
  <2>2. \A t \in TxIds : Buried(t) => Buried(t)'
    BY <1>2, <2>1 DEF Buried
  <2> QED
    BY <1>1, <2>1, <2>2, DeletedFrame
<1>7. CASE UpdateOutbox
  <2>1. PICK u \in TxIds : u = ui.tx
    BY <1>0, <1>7 DEF UpdateOutbox, TypeOK, Commands, Idle
  <2>2. /\ UNCHANGED row /\ ui.op # "delete" /\ ui'.op # "delete"
        /\ \A e \in Events \ {EVT(u)} : outbox'[e] = outbox[e]
        /\ row[u].status # "deleted"
    BY <1>0, <1>7, <2>1 DEF UpdateOutbox, Idle, TypeOK, EditsInv, EditInv, Exists
  <2>3. \A t \in TxIds \ {u} : Buried(t) => Buried(t)'
    BY <1>2, <1>3, <2>2 DEF Buried
  <2> QED
    BY <1>1, <1>3, <2>2, <2>3, DeletedFrame
<1>8. ASSUME NEW u \in Deletable, DeleteRow(u)
      PROVE  DeletedInv'
  <2>1. u \in TxIds
    BY OutboxAssumption
  <2>2. /\ \A t \in TxIds \ {u} : row'[t] = row[t]
        /\ UNCHANGED outbox /\ ui.op # "delete" /\ Exists(u)
        /\ ui'.op = "delete" /\ ui'.tx = u /\ ui'.status = row[u].status
        /\ \A r \in Runs : ~Active(r)
    BY <1>0, <1>8, <2>1 DEF DeleteRow, MayEdit, MainThreadFree, Idle, TypeOK, Undisturbed
  <2>3. \A t \in TxIds : Buried(t) => Buried(t)'
    BY <1>2, <2>2 DEF Buried
  <2>4. \A r \in Runs : ~Answering(r)
    BY <2>2 DEF Active, Answering
  <2>5. faults = 0 /\ u \in posted => row[u].status = "SYNCED"
    BY <2>1, <2>2, <2>4 DEF AnswerInv
  <2> QED
    BY <1>1, <2>1, <2>2, <2>3, <2>5 DEF DeletedInv
<1>9. CASE QueueReversal \/ WithdrawEvent
  <2>1. PICK u \in TxIds : u = ui.tx
    BY <1>0, <1>9 DEF QueueReversal, WithdrawEvent, TypeOK, Commands, Idle
  <2>2. /\ UNCHANGED row /\ ui.op = "delete" /\ ui'.op # "delete" /\ ui # Idle
        /\ QueueReversal => outbox'[VOID(u)].status = "PENDING"
        /\ \A t \in TxIds \ {u} : outbox'[EVT(t)] = outbox[EVT(t)] /\ outbox'[VOID(t)] = outbox[VOID(t)]
        /\ ~QueueReversal => ui.status # "SYNCED"
    BY <1>0, <1>3, <1>9, <2>1 DEF QueueReversal, WithdrawEvent, Idle, TypeOK, Enqueued
  <2>3. \A t \in TxIds \ {u} : Buried(t) => Buried(t)'
    BY <1>2, <2>2 DEF Buried
  <2>4. ~QueueReversal => Buried(u)'
    <3>1. \A r \in Runs : batch[r] = {}
      <4>1. \A r \in Runs : ~Active(r)
        BY <2>2 DEF EditsInv, ApartInv
      <4> QED
        BY <4>1, NothingHeld
    <3>2. outbox[EVT(u)].status # "NONE"
      BY <2>1, <2>2 DEF EditsInv, EditInv
    <3>3. WithdrawEvent => outbox'[EVT(u)].status = "PERMANENT_REJECTION"
      BY <1>0, <1>3, <2>1, <3>2 DEF WithdrawEvent, Withdrawn, TypeOK
    <3> QED
      BY <1>1, <1>9, <3>1, <3>3 DEF Buried, EventsOf
  <2>5. faults' = 0 => \A t \in TxIds : row'[t].status = "deleted" =>
                          outbox'[VOID(t)].status # "NONE" \/ (t \notin posted' /\ Buried(t)')
    BY <1>1, <2>1, <2>2, <2>3, <2>4 DEF DeletedInv
  <2> QED
    BY <2>2, <2>5 DEF DeletedInv
<1> QED
  BY <1>4, <1>5, <1>6, <1>7, <1>8, <1>9 DEF UserStep

LEMMA RunDeletes ==
    ASSUME OneRun, EditsInv, DeletedInv, NEW r \in Runs, Enter(r) \/ RunStep(r) \/ RunFault(r)
    PROVE  DeletedInv'
<1>0. TypeOK /\ (\A s \in Runs : s = r) /\ r \notin Forced
  BY DEF EditsInv, DurableInv, OneRun
<1>1. UNCHANGED ui /\ (faults' = 0 => faults = 0)
  BY <1>0 DEF Enter, RunStep, RunFault, Start, Fetch, MarkAndSend, ServerIngests, Reply, ApplyOutboxStatuses,
     ApplyRowStatuses, EndBatch, RetryPush, GiveUp, End, NoToken, SendUnmarked, PushFails, StatusWriteFails,
     Send, Acked, Fails, bounds, TypeOK
<1>2. CASE ServerIngests(r)
  <2>1. PICK i \in todo[r], v \in Verdicts :
           /\ Ingest(i.tx, i.delta, v)
           /\ UNCHANGED <<localVars, syncing, pc, batch, acks, attempts, ui, late, bounds>>
    BY <1>2 DEF ServerIngests
  <2>2. i.tx \in TxIds /\ i.delta \in Int /\ ui.op = "none"
    BY SentIsCurrent
  <2>3. posted' \subseteq posted \cup {i.tx}
    BY <1>0, <2>1, <2>2, IngestChanges
  <2>4. UNCHANGED <<row, outbox, batch>>
    BY <2>1 DEF localVars
  <2>5. \A t \in TxIds : Buried(t)' <=> Buried(t)
    BY <2>4 DEF Buried, EventsOf
  <2>6. Buried(i.tx) => outbox[VOID(i.tx)].status # "NONE"
    <3>1. PICK b \in batch[r] : i.tx = b[1][2]
      BY DEF EditsInv, CarriedInv, Items
    <3>2. b \in Events \X Int
      BY <1>0 DEF TypeOK
    <3>3. b[1] = EVT(i.tx) \/ b[1] = VOID(i.tx)
      BY <3>1, <3>2 DEF Events, EVT, VOID
    <3>4. outbox[b[1]].status # "NONE" /\ b[1] \in EventsOf(r)
      BY DEF EditsInv, CarriedInv, EventsOf
    <3> QED
      BY <3>3, <3>4 DEF Buried
  <2> QED
    BY <1>1, <2>2, <2>3, <2>4, <2>5, <2>6 DEF DeletedInv
<1>3. CASE Fetch(r)
  <2>1. /\ UNCHANGED <<posted, row>>
        /\ outbox' = [e \in Events |-> Released(e, r \in Forced)]
        /\ batch'[r] = {<<e, outbox'[e].delta>> : e \in Oldest(outbox')}
    BY <1>0, <1>3 DEF Fetch, serverVars, TypeOK
  <2>2. \A e \in Events : /\ outbox[e].status # "NONE" => outbox'[e].status # "NONE"
                          /\ outbox[e].status = "PERMANENT_REJECTION" => outbox'[e].status = "PERMANENT_REJECTION"
    BY <1>0, <2>1 DEF Released
  <2>3. \A e \in EventsOf(r)' : outbox'[e].status # "PERMANENT_REJECTION"
    <3>1. \A e \in Oldest(outbox') : outbox'[e].status # "PERMANENT_REJECTION"
      BY DEF Oldest, IsEligible
    <3>2. EventsOf(r)' \subseteq Oldest(outbox')
      BY <2>1 DEF EventsOf
    <3> QED
      BY <3>1, <3>2
  <2>4. \A t \in TxIds : Buried(t) => Buried(t)'
    BY <1>0, <2>2, <2>3, EventFacts DEF Buried
  <2> QED
    BY <1>1, <2>1, <2>2, <2>4, DeletedFrame, EventFacts
<1>4. CASE MarkAndSend(r) \/ ApplyOutboxStatuses(r) \/ GiveUp(r)
  <2>1. UNCHANGED <<posted, row, batch>>
    BY <1>4 DEF MarkAndSend, ApplyOutboxStatuses, GiveUp, Send, Acked, serverVars
  <2>2. PICK new \in [Events -> OutboxStatuses \ {"NONE"}] : outbox' = SetStatuses(r, new)
    <3>1. CASE MarkAndSend(r)
      <4>1. [e \in Events |-> "SENDING"] \in [Events -> OutboxStatuses \ {"NONE"}]
        BY DEF OutboxStatuses
      <4> QED
        BY <3>1, <4>1 DEF MarkAndSend
    <3>2. CASE GiveUp(r)
      <4>1. [e \in Events |-> "RETRYABLE_ERROR"] \in [Events -> OutboxStatuses \ {"NONE"}]
        BY DEF OutboxStatuses
      <4> QED
        BY <3>2, <4>1 DEF GiveUp
    <3>3. CASE ApplyOutboxStatuses(r)
      <4>1. [e \in Events |-> TargetStatus(verdict[r][e[2]])] \in [Events -> OutboxStatuses \ {"NONE"}]
        BY TargetType DEF TargetStatus
      <4> QED
        BY <3>3, <4>1 DEF ApplyOutboxStatuses
    <3> QED
      BY <1>4, <3>1, <3>2, <3>3
  <2>3. \A e \in Events : /\ outbox[e].status # "NONE" => outbox'[e].status # "NONE"
                          /\ e \notin EventsOf(r) => outbox'[e] = outbox[e]
    BY <1>0, <2>2, StatusesKeepTables
  <2>4. \A t \in TxIds : Buried(t) => Buried(t)'
    <3>1. EventsOf(r)' = EventsOf(r)
      BY <2>1 DEF EventsOf
    <3> QED
      BY <1>0, <2>3, <3>1, EventFacts DEF Buried
  <2> QED
    BY <1>1, <2>1, <2>3, <2>4, DeletedFrame, EventFacts
<1>5. CASE \/ Enter(r) \/ Start(r) \/ Reply(r) \/ ApplyRowStatuses(r) \/ EndBatch(r) \/ RetryPush(r)
           \/ End(r) \/ NoToken(r) \/ SendUnmarked(r) \/ PushFails(r) \/ StatusWriteFails(r)
  <2>1. UNCHANGED <<posted, outbox>> /\ batch'[r] \subseteq batch[r]
    BY <1>0, <1>5 DEF Enter, Start, Reply, ApplyRowStatuses, EndBatch, RetryPush, End, NoToken, SendUnmarked,
       PushFails, StatusWriteFails, Send, Acked, localVars, serverVars, TypeOK
  <2>2. \A t \in TxIds : row'[t].status = "deleted" => row[t].status = "deleted"
    <3>1. CASE ApplyRowStatuses(r)
      BY <3>1 DEF ApplyRowStatuses, TargetStatus
    <3>2. CASE UNCHANGED row
      BY <3>2
    <3> QED
      BY <1>5, <3>1, <3>2 DEF Enter, Start, Reply, EndBatch, RetryPush, End, NoToken, SendUnmarked,
         PushFails, StatusWriteFails, Send, localVars
  <2>3. \A t \in TxIds : Buried(t) => Buried(t)'
    BY <1>0, <2>1 DEF Buried, EventsOf
  <2> QED
    BY <1>1, <2>1, <2>2, <2>3, DeletedFrame
<1> QED
  BY <1>2, <1>3, <1>4, <1>5 DEF RunStep, RunFault

LEMMA InitDeletions == Undisturbed /\ Init => DeletionsInv
<1>1. Init => AnswerInv
  BY DEF Init, AnswerInv, Exists
<1>2. Init => DeletedInv
  BY DEF Init, DeletedInv, Idle
<1>3. Init => OpenInv
  BY DEF Init, OpenInv, Writing
<1> QED
  BY <1>1, <1>2, <1>3, InitEdits DEF DeletionsInv

LEMMA StepDeletions == Undisturbed /\ OneRun /\ DeletionsInv /\ [Next]_vars => DeletionsInv'
<1> SUFFICES ASSUME Undisturbed, OneRun, DeletionsInv, [Next]_vars
             PROVE  DeletionsInv'
  OBVIOUS
<1> USE DEF DeletionsInv
<1>1. EditsInv' /\ OpenInv'
  BY StepEdits, OpenKeeps
<1>2. CASE UserStep \/ UNCHANGED vars \/ \E e \in Events : BackoffElapses(e)
  BY <1>1, <1>2, UserAnswers, UserDeletes
<1>3. CASE \E r \in Runs : Enter(r) \/ RunStep(r) \/ RunFault(r)
  BY <1>1, <1>3, RunAnswers, RunDeletes
<1>4. late = {} /\ ~Crash /\ \A e \in Events : ~Cleanup(e)
  BY DEF Crash, Cleanup, Undisturbed, EditsInv, ApartInv
<1> QED
  BY <1>2, <1>3, <1>4 DEF Next

(* delete_transaction trusts the status it has read: with one unforced run   *)
(* at a time, and as long as every answer arrives, a deleted movement that   *)
(* the central ledger holds has its reversal queued.                         *)
THEOREM DeletionsReachServer == Undisturbed /\ OneRun => (Spec => []DeletionReachesServer)
<1> SUFFICES ASSUME Undisturbed, OneRun
             PROVE  Spec => []DeletionReachesServer
  OBVIOUS
<1>1. Init => DeletionsInv
  BY InitDeletions
<1>2. DeletionsInv /\ [Next]_vars => DeletionsInv'
  BY StepDeletions
<1>3. DeletionsInv => DeletionReachesServer
  BY DEF DeletionsInv, DeletedInv, DeletionReachesServer, Idle
<1> QED
  BY <1>1, <1>2, <1>3, PTL DEF Spec

(* No step but an edit takes an event out of a terminal state.               *)
LEMMA TerminalStep ==
    ASSUME Undisturbed, OneRun, DeletionsInv, [Next]_vars, NEW e \in Events,
           outbox[e].status \in {"SYNCED", "PERMANENT_REJECTION"}
    PROVE  outbox'[e].status \in {outbox[e].status, "NONE"} \/ ui # ui'
<1> USE DEF DeletionsInv
<1>0. TypeOK
  BY DEF EditsInv, DurableInv
<1>1. CASE UNCHANGED vars \/ \E f \in Events : BackoffElapses(f) \/ Cleanup(f)
  BY <1>0, <1>1 DEF vars, BackoffElapses, Cleanup, NoEvent, TypeOK
<1>2. ASSUME NEW m \in Moves, Record(m.tx, m.delta)
      PROVE  outbox'[e] = outbox[e]
  <2>1. m.tx \in TxIds
    BY OutboxAssumption DEF Movements
  <2>2. outbox[EVT(m.tx)].status = "NONE"
    BY <1>2, <2>1 DEF Record, EditsInv, UnknownInv
  <2> QED
    BY <1>0, <1>2, <2>2 DEF Record, TypeOK
<1>3. CASE UserStep /\ ~(\E m \in Moves : Record(m.tx, m.delta))
  <2>1. CASE UNCHANGED outbox
    BY <2>1
  <2>2. CASE UpdateOutbox \/ QueueReversal \/ WithdrawEvent
    <3>1. ui.op # "none" /\ ui'.op = "none"
      BY <2>2 DEF UpdateOutbox, QueueReversal, WithdrawEvent, Idle
    <3> QED
      BY <3>1
  <2> QED
    BY <1>3, <2>1, <2>2 DEF UserStep, UpdateRow, DeleteRow
<1>4. ASSUME NEW r \in Runs, Enter(r) \/ RunStep(r) \/ RunFault(r)
      PROVE  outbox'[e].status = outbox[e].status
  <2>1. CASE Fetch(r)
    BY <2>1 DEF Fetch, Released, OneRun
  <2>2. CASE MarkAndSend(r) \/ ApplyOutboxStatuses(r) \/ GiveUp(r)
    <3>1. Writing(r)
      BY <2>2 DEF MarkAndSend, ApplyOutboxStatuses, Acked, GiveUp, Writing
    <3>2. e \notin EventsOf(r)
      BY <3>1 DEF OpenInv, Terminal
    <3> QED
      BY <1>0, <2>2, <3>2 DEF MarkAndSend, ApplyOutboxStatuses, GiveUp, SetStatuses
  <2>3. CASE UNCHANGED outbox
    BY <2>3
  <2> QED
    BY <1>4, <2>1, <2>2, <2>3
       DEF RunStep, RunFault, Enter, Start, ServerIngests, Reply, ApplyRowStatuses, EndBatch, RetryPush, End,
           NoToken, SendUnmarked, PushFails, StatusWriteFails, localVars
<1>5. late = {} /\ ~Crash
  BY DEF Crash, Undisturbed, EditsInv, ApartInv
<1> QED
  BY <1>1, <1>2, <1>3, <1>4, <1>5 DEF Next

(* The terminal states of the outbox lifecycle are read-only: with one       *)
(* unforced run at a time, no late or stale status write, backoff or release *)
(* takes an event out of SYNCED or PERMANENT_REJECTION.                      *)
THEOREM TerminalStatesAreFinal == Undisturbed /\ OneRun => (Spec => TerminalIsFinal)
<1> SUFFICES ASSUME Undisturbed, OneRun
             PROVE  Spec => TerminalIsFinal
  OBVIOUS
<1>1. Init => DeletionsInv
  BY InitDeletions
<1>2. DeletionsInv /\ [Next]_vars => DeletionsInv'
  BY StepDeletions
<1>3. DeletionsInv /\ [Next]_vars =>
          [\A e \in Events : outbox[e].status \in {"SYNCED", "PERMANENT_REJECTION"}
              => outbox'[e].status \in {outbox[e].status, "NONE"} \/ ui # ui']_vars
  BY TerminalStep
<1> QED
  BY <1>1, <1>2, <1>3, PTL DEF Spec, TerminalIsFinal

-----------------------------------------------------------------------------
(* The pull.                                                                 *)

(* Types, and how far a page is in each state of the run. A stamp is never   *)
(* ahead of the clock, wherever it is.                                       *)
PullTypes ==
    /\ PullTypeOK
    /\ \A w \in {"device", "others"} : session[w] # None => session[w].stamp <= clock
    /\ \A r \in Rows : merged[r].stamp <= clock
    /\ pullPc = "count" => counted < 3 /\ selected = 0
    /\ pullPc = "select" => counted = 3
    /\ pullPc \in {"count", "select", "apply", "advance"} => since = cursor
    /\ pullPc \in {"idle", "push"} \/ (pullPc = "count" /\ offset = 0) => merged = [r \in Rows |-> NotPulled]

(* server_time of the pull under way has been read.                          *)
TimeRead == ~(pullPc = "count" /\ counted = 0 /\ offset = 0)

(* The rows the pull under way must bring: when it ends the cursor will have *)
(* passed them.                                                              *)
Wanted == {r \in Exposed \ risky : stamp[r] <= time}
Brought(r) == merged[r].stamp # 0 /\ merged[r].stamp = stamp[r]

(* A row in the pages is there in its version of now, unless that will be    *)
(* pulled the next time or the row is marked.                                *)
MergedInv ==
    \A r \in Rows : merged[r].stamp # 0 /\ ~Brought(r) /\ (stamp[r] <= cursor \/ stamp[r] <= time)
                        => r \in risky

(* The rows of section k, as counted or, before, as they will be; and the    *)
(* place of a row in the stream of the three sections.                       *)
Size(k) == IF k <= counted THEN totals[k] ELSE Cardinality(Stream(k))
Before(k) == (IF k > 1 THEN Size(1) ELSE 0) + (IF k > 2 THEN Size(2) ELSE 0)
Place(k, r) == Before(k) + Rank(k, r)

(* As long as the pull must bring something, streams only grow, and not      *)
(* between count and select.                                                 *)
SizesInv ==
    pullPc \in {"count", "select"} /\ Wanted # {} =>
        \A k \in 1..3 : k <= counted =>
            /\ totals[k] <= Cardinality(Stream(k))
            /\ selected < k => totals[k] = Cardinality(Stream(k))

(* A row the pull must bring is in the pages or its place is not yet passed: *)
(* it is on this page or after it, and in a section that was selected on a   *)
(* later page, which there will be.                                          *)
PlacesInv ==
    pullPc \in {"count", "select"} /\ TimeRead =>
        \A k \in 1..3 : \A r \in Wanted \cap Sections[k] :
            \/ Brought(r)
            \/ k <= selected /\ PageEnd < Total(3) /\ PageEnd <= Place(k, r)
            \/ selected < k /\ offset <= Place(k, r)

(* All pages are here: they have what they must bring. After the apply, or   *)
(* its failure, there is nothing left to bring.                              *)
ArrivedInv ==
    /\ pullPc = "apply" => \A r \in Wanted : Brought(r)
    /\ pullPc = "advance" => Wanted = {}

PullInv == PullTypes /\ NothingSkipped /\ MergedInv /\ SizesInv /\ PlacesInv /\ ArrivedInv
-----------------------------------------------------------------------------
(* The sections are finite, disjoint and hold all rows.                      *)
LEMMA SectionFacts ==
    /\ \A k \in 1..3 : Sections[k] \subseteq Rows /\ IsFiniteSet(Sections[k]) /\ Sections[k] \subseteq Nat
    /\ \A r \in Rows : \E k \in 1..3 : r \in Sections[k]
    /\ Rows \subseteq Nat /\ IsFiniteSet(Rows)
    /\ Cardinality(Rows) = Cardinality(Sections[1]) + Cardinality(Sections[2]) + Cardinality(Sections[3])
<1>1. Sections[1] = Products /\ Sections[2] = Stores /\ Sections[3] = Balances
  BY DEF Sections
<1>2. 1..3 = {1, 2, 3}
  OBVIOUS
<1>3. \A k \in 1..3 : Sections[k] \in {Products, Stores, Balances}
  BY <1>1, <1>2
<1>4. IsFiniteSet(Products) /\ IsFiniteSet(Stores) /\ IsFiniteSet(Balances)
  BY PullAssumption
<1>5. Products \cap Stores = {} /\ (Products \cup Stores) \cap Balances = {}
  BY PullAssumption
<1>6. /\ IsFiniteSet(Products \cup Stores)
      /\ Cardinality(Products \cup Stores) = Cardinality(Products) + Cardinality(Stores)
  <2>1. Cardinality(Products \cup Stores) = Cardinality(Products) + Cardinality(Stores) - Cardinality(Products \cap Stores)
    BY <1>4, FS_Union
  <2>2. Cardinality(Products) \in Nat /\ Cardinality(Stores) \in Nat /\ Cardinality({}) = 0
    BY <1>4, FS_CardinalityType, FS_EmptySet
  <2> QED
    BY <2>1, <2>2, <1>4, <1>5, FS_Union
<1>7. /\ IsFiniteSet(Rows)
      /\ Cardinality(Rows) = Cardinality(Products) + Cardinality(Stores) + Cardinality(Balances)
  <2>1. Cardinality(Rows) = Cardinality(Products \cup Stores) + Cardinality(Balances) - Cardinality((Products \cup Stores) \cap Balances)
    BY <1>4, <1>6, FS_Union DEF Rows
  <2>2. /\ Cardinality(Products) \in Nat /\ Cardinality(Stores) \in Nat
        /\ Cardinality(Balances) \in Nat /\ Cardinality({}) = 0
    BY <1>4, FS_CardinalityType, FS_EmptySet
  <2> QED
    BY <2>1, <2>2, <1>4, <1>5, <1>6, FS_Union DEF Rows
<1> QED
  BY <1>1, <1>2, <1>3, <1>4, <1>7, PullAssumption DEF Rows

(* Counting rows: a part counts no more than the whole, and fewer come       *)
(* before a row than there are.                                              *)
LEMMA CountFacts ==
    ASSUME NEW S, NEW T, IsFiniteSet(T), S \subseteq T, T \subseteq Nat, NEW r \in Nat
    PROVE  /\ Cardinality(S) \in Nat /\ Cardinality(T) \in Nat /\ Cardinality(S) <= Cardinality(T)
           /\ Cardinality({x \in S : x < r}) \in Nat
           /\ Cardinality({x \in S : x < r}) <= Cardinality({x \in T : x < r})
           /\ r \in S => Cardinality({x \in S : x < r}) < Cardinality(S)
<1>1. IsFiniteSet(S) /\ Cardinality(S) <= Cardinality(T)
  BY FS_Subset
<1>2. IsFiniteSet({x \in T : x < r})
  BY FS_Subset
<1>3. /\ IsFiniteSet({x \in S : x < r})
      /\ Cardinality({x \in S : x < r}) <= Cardinality({x \in T : x < r})
  BY <1>2, FS_Subset
<1>4. Cardinality(S) \in Nat /\ Cardinality(T) \in Nat /\ Cardinality({x \in S : x < r}) \in Nat
  BY <1>1, <1>3, FS_CardinalityType
<1>5. ASSUME r \in S PROVE Cardinality({x \in S : x < r}) < Cardinality(S)
  <2>1. {x \in S : x < r} \subseteq S \ {r}
    OBVIOUS
  <2>2. IsFiniteSet(S \ {r}) /\ Cardinality(S \ {r}) = Cardinality(S) - 1
    BY <1>1, <1>5, FS_RemoveElement
  <2>3. Cardinality({x \in S : x < r}) <= Cardinality(S \ {r})
    BY <2>1, <2>2, FS_Subset
  <2> QED
    BY <2>2, <2>3, <1>4
<1> QED
  BY <1>1, <1>3, <1>4, <1>5

(* A stream is a part of its section.                                        *)
LEMMA StreamFacts ==
    ASSUME NEW k \in 1..3
    PROVE  /\ Stream(k) \subseteq Sections[k] /\ Stream(k) \subseteq Nat /\ IsFiniteSet(Stream(k))
           /\ Cardinality(Stream(k)) \in Nat /\ Cardinality(Stream(k)) <= Cardinality(Sections[k])
           /\ \A r \in Nat : Rank(k, r) \in Nat
           /\ \A r \in Stream(k) : Rank(k, r) < Cardinality(Stream(k))
<1>1. Stream(k) \subseteq Sections[k]
  BY DEF Stream
<1>2. IsFiniteSet(Sections[k]) /\ Sections[k] \subseteq Nat
  BY SectionFacts
<1>3. IsFiniteSet(Stream(k)) /\ Stream(k) \subseteq Nat
  BY <1>1, <1>2, FS_Subset
<1>4. Cardinality(Stream(k)) \in Nat /\ Cardinality(Stream(k)) <= Cardinality(Sections[k])
  BY <1>1, <1>2, FS_Subset, FS_CardinalityType
<1>5. ASSUME NEW r \in Nat
      PROVE  Rank(k, r) \in Nat /\ (r \in Stream(k) => Rank(k, r) < Cardinality(Stream(k)))
  BY <1>3, CountFacts DEF Rank
<1> QED
  BY <1>1, <1>3, <1>4, <1>5

(* The end of a page is at most the number of rows.                          *)
LEMMA PageFacts ==
    ASSUME PullTypeOK
    PROVE  /\ \A n \in 0..3 : Total(n) \in Nat /\ Total(n) <= Total(3)
           /\ Total(0) = 0 /\ Total(1) = totals[1] /\ Total(2) = totals[1] + totals[2]
           /\ Total(3) = totals[1] + totals[2] + totals[3]
           /\ Total(3) <= Cardinality(Rows)
           /\ PageEnd \in Nat /\ PageEnd <= Total(3)
           /\ PageEnd < Total(3) => PageEnd = offset + Limit
           /\ offset \in Nat /\ Limit \in Nat /\ Limit > 0
           /\ offset <= Cardinality(Rows) /\ Cardinality(Rows) \in Nat
<1>1. /\ totals[1] \in Nat /\ totals[2] \in Nat /\ totals[3] \in Nat
      /\ totals[1] <= Cardinality(Sections[1]) /\ totals[2] <= Cardinality(Sections[2])
      /\ totals[3] <= Cardinality(Sections[3])
  BY DEF PullTypeOK
<1>2. Cardinality(Rows) \in Nat
  BY SectionFacts, FS_CardinalityType
<1>3. /\ Cardinality(Sections[1]) \in Nat /\ Cardinality(Sections[2]) \in Nat
      /\ Cardinality(Sections[3]) \in Nat
  BY SectionFacts, FS_CardinalityType
<1>4. /\ \A n \in 0..3 : Total(n) \in Nat /\ Total(n) <= Total(3)
      /\ Total(0) = 0 /\ Total(1) = totals[1] /\ Total(2) = totals[1] + totals[2]
      /\ Total(3) = totals[1] + totals[2] + totals[3]
  BY <1>1 DEF Total
<1>5. Total(3) <= Cardinality(Rows)
  BY <1>1, <1>3, <1>4, SectionFacts
<1>6. offset \in Nat /\ offset <= Cardinality(Rows) /\ Limit \in Nat /\ Limit > 0
  BY <1>2, PullAssumption DEF PullTypeOK
<1> QED
  BY <1>2, <1>4, <1>5, <1>6 DEF PageEnd, Least
-----------------------------------------------------------------------------
(* The fields of a change under way.                                         *)
LEMMA ChangeFacts ==
    ASSUME PullTypes, NEW w \in {"device", "others"}, session[w] # None
    PROVE  /\ session[w] \in Changes /\ session[w].row \in Rows /\ session[w].delta \in Int
           /\ session[w].stamp \in 0..clock /\ session[w].listed \in BOOLEAN
  BY DEF PullTypes, PullTypeOK, Changes

(* Everything is empty at first.                                             *)
LEMMA PullStarts == PullInit => PullInv
<1> SUFFICES ASSUME PullInit PROVE PullInv
  OBVIOUS
<1>1. Cardinality(Rows) \in Nat /\ \A k \in 1..3 : Cardinality(Sections[k]) \in Nat
  BY SectionFacts, FS_CardinalityType
<1>2. PullTypeOK
  BY <1>1, PullAssumption DEF PullInit, PullTypeOK, NoTotals, Versions, NotPulled
<1>3. /\ \A w \in {"device", "others"} : session[w] = None
      /\ \A r \in Rows : merged[r].stamp = 0 /\ stamp[r] = applied[r]
      /\ merged = [r \in Rows |-> NotPulled] /\ pullPc = "idle" /\ clock = 0
  BY DEF PullInit, NotPulled
<1>4. Exposed = {}
  BY <1>3 DEF PullInit, Exposed
<1> QED
  BY <1>2, <1>3, <1>4 DEF PullInv, PullTypes, NothingSkipped, MergedInv, SizesInv, PlacesInv, ArrivedInv

(* Stamping a change.                                                        *)
LEMMA StampKeepsTypes ==
    ASSUME PullTypes, NEW w \in {"device", "others"}, NEW r \in Rows, NEW d \in Int,
           NEW shown \in BOOLEAN, Stamps(w, r, d, shown),
           UNCHANGED <<local, queued, applied, cursor, pullPc, run, risky>>,
           <<records, others, pullFaults, pullCrashes>>' \in
               (0..MaxRecords) \X (0..MaxOthers) \X (0..MaxPullFaults) \X (0..MaxPullCrashes)
    PROVE  PullTypes'
<1>1. PICK c \in Changes : c.stamp = clock + 1 /\ session' = [session EXCEPT ![w] = c]
  <2>1. [row |-> r, delta |-> d, stamp |-> clock + 1, listed |-> shown] \in Changes
    BY DEF Changes, PullTypes, PullTypeOK
  <2> QED
    BY <2>1 DEF Stamps
<1>2. clock' = clock + 1 /\ UNCHANGED <<stamp, quantity, listed>> /\ clock \in Nat /\ MaxSkew \in Nat
  BY PullAssumption DEF Stamps, PullTypes, PullTypeOK
<1>3. session' \in [{"device", "others"} -> Changes \cup {None}]
  BY <1>1 DEF PullTypes, PullTypeOK
<1>4. \A v \in {"device", "others"} : session'[v] # None => session'[v].stamp <= clock'
  <2> SUFFICES ASSUME NEW v \in {"device", "others"}, session'[v] # None PROVE session'[v].stamp <= clock'
    OBVIOUS
  <2>1. CASE v = w
    BY <2>1, <1>1, <1>2 DEF PullTypes, PullTypeOK
  <2>2. CASE v # w
    <3>1. session'[v] = session[v]
      BY <2>2, <1>1 DEF PullTypes, PullTypeOK
    <3>2. session[v].stamp \in 0..clock
      BY <3>1, ChangeFacts
    <3> QED
      BY <3>1, <3>2, <1>2
  <2> QED
    BY <2>1, <2>2
<1>5. /\ stamp' \in [Rows -> 0..clock'] /\ applied' \in [Rows -> 0..clock']
      /\ cursor' \in 0..(clock' + MaxSkew) /\ since' \in 0..(clock' + MaxSkew)
      /\ time' \in 0..(clock' + MaxSkew) /\ clock' \in Nat
      /\ \A x \in Rows : merged'[x].stamp <= clock'
  <2>1. 0..clock \subseteq 0..(clock + 1) /\ 0..(clock + MaxSkew) \subseteq 0..(clock + 1 + MaxSkew)
    BY <1>2
  <2>2. \A x \in Rows : merged[x].stamp \in Nat
    BY DEF PullTypes, PullTypeOK, Versions
  <2> QED
    BY <2>1, <2>2, <1>2 DEF PullTypes, PullTypeOK, run
<1> QED
  BY <1>2, <1>3, <1>4, <1>5 DEF PullTypes, PullTypeOK, run, page

(* Committing a change.                                                      *)
LEMMA CommitKeepsTypes ==
    ASSUME PullTypes, NEW w \in {"device", "others"}, Commits(w), Endangers(session[w]),
           queued' \in [Balances -> Int], runBatch' \subseteq Balances,
           UNCHANGED <<local, applied, cursor, pullPc, since, time, page, merged, counters>>
    PROVE  PullTypes'
<1>1. PICK c : c = session[w]
  OBVIOUS
<1>2. /\ c \in Changes /\ c.row \in Rows /\ c.delta \in Int /\ c.stamp \in 0..clock
  BY <1>1, ChangeFacts DEF Commits
<1>3. /\ session' = [session EXCEPT ![w] = None]
      /\ stamp' = [stamp EXCEPT ![c.row] = c.stamp]
      /\ quantity' = IF c.row \in Balances THEN [quantity EXCEPT ![c.row] = @ + c.delta] ELSE quantity
      /\ listed' = IF c.listed THEN listed \cup {c.row} ELSE listed \ {c.row}
      /\ clock' = clock
  BY <1>1 DEF Commits
<1>4. session' \in [{"device", "others"} -> Changes \cup {None}]
  BY <1>3 DEF PullTypes, PullTypeOK
<1>5. \A v \in {"device", "others"} : session'[v] # None => session'[v].stamp <= clock'
  BY <1>3 DEF PullTypes, PullTypeOK
<1>6. stamp' \in [Rows -> 0..clock'] /\ quantity' \in [Balances -> Int] /\ listed' \subseteq Rows
  BY <1>2, <1>3 DEF PullTypes, PullTypeOK
<1>7. risky' \subseteq Rows
  BY <1>1, <1>2 DEF Endangers, PullTypes, PullTypeOK, Exposed
<1> QED
  BY <1>3, <1>4, <1>5, <1>6, <1>7 DEF PullTypes, PullTypeOK, page, counters
-----------------------------------------------------------------------------
(* Where streams, counts and stamps stay, sizes and places do.               *)
LEMMA SamePlaces ==
    ASSUME UNCHANGED <<listed, stamp, since>>
    PROVE  /\ \A k \in 1..3 : Stream(k)' = Stream(k)
           /\ \A k \in 1..3, r \in Rows : Rank(k, r)' = Rank(k, r)
           /\ UNCHANGED <<counted, totals>> => \A k \in 1..3, r \in Rows : Place(k, r)' = Place(k, r)
           /\ UNCHANGED totals => \A n \in 0..3 : Total(n)' = Total(n)
<1>1. \A k \in 1..3 : Stream(k)' = Stream(k)
  BY DEF Stream
<1>2. \A k \in 1..3, r \in Rows : Rank(k, r)' = Rank(k, r)
  BY DEF Stream, Rank
<1>3. ASSUME UNCHANGED <<counted, totals>> PROVE \A k \in 1..3, r \in Rows : Place(k, r)' = Place(k, r)
  BY <1>3 DEF Stream, Rank, Place, Before, Size
<1>4. ASSUME UNCHANGED totals PROVE \A n \in 0..3 : Total(n)' = Total(n)
  BY <1>4 DEF Total
<1> QED
  BY <1>1, <1>2, <1>3, <1>4

(* A step that leaves the run, the server's rows and the device's versions   *)
(* alone.                                                                    *)
LEMMA RestKeeps ==
    ASSUME PullInv, PullTypes',
           UNCHANGED <<stamp, listed, applied, cursor, pullPc, since, time, page, merged, risky>>
    PROVE  PullInv'
<1>1. /\ Exposed' = Exposed /\ Wanted' = Wanted /\ PageEnd' = PageEnd /\ (TimeRead' <=> TimeRead)
      /\ \A r \in Rows : Brought(r)' <=> Brought(r)
  BY DEF Exposed, Wanted, PageEnd, Least, Total, TimeRead, Brought, page
<1>2. /\ \A k \in 1..3 : Stream(k)' = Stream(k)
      /\ \A k \in 1..3, r \in Rows : Place(k, r)' = Place(k, r)
      /\ Total(3)' = Total(3)
  BY SamePlaces DEF page
<1>3. Wanted \subseteq Rows
  BY DEF Wanted, Exposed, PullInv, PullTypes, PullTypeOK
<1>4. NothingSkipped' /\ MergedInv' /\ ArrivedInv'
  BY <1>1, <1>3 DEF PullInv, NothingSkipped, MergedInv, ArrivedInv
<1>5. SizesInv'
  BY <1>1, <1>2 DEF PullInv, SizesInv, page
<1>6. PlacesInv'
  BY <1>1, <1>2, <1>3 DEF PullInv, PlacesInv, page
<1> QED
  BY <1>4, <1>5, <1>6 DEF PullInv

(* A commit adds nothing to what the pull under way must bring, and changes  *)
(* none of it; if it displaces rows, nothing is left to bring.               *)
LEMMA CommitWants ==
    ASSUME PullTypes, NEW w \in {"device", "others"}, Commits(w), Endangers(session[w]),
           UNCHANGED <<applied, cursor, time>>
    PROVE  /\ session[w].row \notin Wanted' /\ Wanted' \subseteq Wanted
           /\ \A r \in Rows \ {session[w].row} : stamp'[r] = stamp[r] /\ (r \in listed' <=> r \in listed)
           /\ Displaces(session[w]) => Wanted' = {}
<1>1. PICK c : c = session[w]
  OBVIOUS
<1>2. c.row \in Rows /\ c.stamp \in Nat
  BY <1>1, ChangeFacts DEF Commits, PullTypes, PullTypeOK
<1>3. /\ stamp' = [stamp EXCEPT ![c.row] = c.stamp]
      /\ listed' = IF c.listed THEN listed \cup {c.row} ELSE listed \ {c.row}
  BY <1>1 DEF Commits
<1>4. /\ \A r \in Rows \ {c.row} : stamp'[r] = stamp[r] /\ (r \in listed' <=> r \in listed)
      /\ stamp'[c.row] = c.stamp
  BY <1>2, <1>3 DEF PullTypes, PullTypeOK
<1>5. /\ risky \ {c.row} \subseteq risky'
      /\ c.stamp <= time => c.row \in risky'
      /\ Displaces(c) => Exposed \ {c.row} \subseteq risky'
  BY <1>1 DEF Endangers, IsLate
<1>6. c.row \notin Wanted'
  BY <1>4, <1>5 DEF Wanted
<1>7. Wanted' \subseteq Rows
  BY <1>2, <1>3 DEF Wanted, Exposed, PullTypes, PullTypeOK
<1>8. Exposed' \ {c.row} \subseteq Exposed
  BY <1>3, <1>4 DEF Exposed, PullTypes, PullTypeOK
<1>9. ASSUME NEW r \in Wanted' PROVE r \in Wanted /\ ~Displaces(c)
  <2>1. r # c.row /\ r \in Rows /\ r \in Exposed' /\ r \notin risky' /\ stamp'[r] <= time
    BY <1>6, <1>7 DEF Wanted
  <2> QED
    BY <2>1, <1>4, <1>5, <1>8 DEF Wanted
<1> QED
  BY <1>1, <1>4, <1>6, <1>9

(* A commit that displaces nothing while something is to be brought: each    *)
(* stream grows, and one that is between count and select stays.             *)
LEMMA CommitGrows ==
    ASSUME PullTypes, NEW w \in {"device", "others"}, Commits(w), pullPc \in {"count", "select"},
           ~Displaces(session[w]), UNCHANGED <<since, page>>, NEW k \in 1..3
    PROVE  /\ Stream(k) \subseteq Stream(k)'
           /\ k <= counted /\ selected < k => Stream(k)' = Stream(k)
<1>1. PICK c : c = session[w]
  OBVIOUS
<1>2. c.row \in Rows
  BY <1>1, ChangeFacts DEF Commits
<1>3. /\ stamp' = [stamp EXCEPT ![c.row] = c.stamp]
      /\ listed' = IF c.listed THEN listed \cup {c.row} ELSE listed \ {c.row}
  BY <1>1 DEF Commits
<1>4. ~Leaves(c, k) /\ (k <= counted /\ selected < k => ~Joins(c, k))
  BY <1>1 DEF Displaces
<1>5. \A r \in Sections[k] \ {c.row} : r \in Stream(k)' <=> r \in Stream(k)
  BY <1>2, <1>3, SectionFacts DEF Stream, PullTypes, PullTypeOK
<1>6. c.row \in Sections[k] => (c.row \in Stream(k)' <=> c.listed /\ c.stamp > since)
  BY <1>2, <1>3 DEF Stream, PullTypes, PullTypeOK
<1>7. Stream(k) \subseteq Sections[k] /\ Stream(k)' \subseteq Sections[k]
  BY DEF Stream
<1> QED
  BY <1>4, <1>5, <1>6, <1>7 DEF Leaves, Joins

(* Places never go back by such a commit.                                    *)
LEMMA CommitPlaces ==
    ASSUME PullTypes, NEW w \in {"device", "others"}, Commits(w), pullPc \in {"count", "select"},
           ~Displaces(session[w]), UNCHANGED <<since, page>>
    PROVE  \A k \in 1..3, r \in Rows :
               /\ Place(k, r) \in Nat /\ Place(k, r)' \in Nat /\ Place(k, r) <= Place(k, r)'
               /\ Cardinality(Stream(k)) <= Cardinality(Stream(k)')
<1>1. ASSUME NEW k \in 1..3
      PROVE  /\ Cardinality(Stream(k)) \in Nat /\ Cardinality(Stream(k)') \in Nat
             /\ Cardinality(Stream(k)) <= Cardinality(Stream(k)')
             /\ \A r \in Rows : /\ Rank(k, r) \in Nat /\ Rank(k, r)' \in Nat
                                /\ Rank(k, r) <= Rank(k, r)'
  <2>1. Stream(k) \subseteq Stream(k)'
    BY CommitGrows
  <2>2. IsFiniteSet(Stream(k)') /\ Stream(k)' \subseteq Nat
    <3>1. Stream(k)' \subseteq Sections[k]
      BY DEF Stream
    <3>2. IsFiniteSet(Sections[k]) /\ Sections[k] \subseteq Nat
      BY SectionFacts
    <3> QED
      BY <3>1, <3>2, FS_Subset
  <2>3. \A r \in Nat : /\ Cardinality({x \in Stream(k) : x < r}) \in Nat
                       /\ Cardinality({x \in Stream(k) : x < r}) <= Cardinality({x \in Stream(k)' : x < r})
                       /\ Cardinality({x \in Stream(k)' : x < r}) \in Nat
                       /\ Cardinality(Stream(k)) \in Nat /\ Cardinality(Stream(k)') \in Nat
                       /\ Cardinality(Stream(k)) <= Cardinality(Stream(k)')
    <3> SUFFICES ASSUME NEW r \in Nat
                 PROVE  /\ Cardinality({x \in Stream(k) : x < r}) \in Nat
                        /\ Cardinality({x \in Stream(k) : x < r}) <= Cardinality({x \in Stream(k)' : x < r})
                        /\ Cardinality({x \in Stream(k)' : x < r}) \in Nat
                        /\ Cardinality(Stream(k)) \in Nat /\ Cardinality(Stream(k)') \in Nat
                        /\ Cardinality(Stream(k)) <= Cardinality(Stream(k)')
      OBVIOUS
    <3>1. PICK T : T = Stream(k)'
      OBVIOUS
    <3>2. Stream(k) \subseteq T /\ IsFiniteSet(T) /\ T \subseteq Nat
      BY <2>1, <2>2, <3>1
    <3>3. /\ Cardinality({x \in Stream(k) : x < r}) \in Nat
          /\ Cardinality({x \in Stream(k) : x < r}) <= Cardinality({x \in T : x < r})
          /\ Cardinality(Stream(k)) \in Nat /\ Cardinality(T) \in Nat
          /\ Cardinality(Stream(k)) <= Cardinality(T)
      BY <3>2, CountFacts
    <3>4. Cardinality({x \in T : x < r}) \in Nat
      BY <3>2, CountFacts
    <3> QED
      BY <3>1, <3>3, <3>4
  <2>4. \A r \in Rows : /\ Rank(k, r) = Cardinality({x \in Stream(k) : x < r})
                        /\ Rank(k, r)' = Cardinality({x \in Stream(k)' : x < r})
    BY DEF Rank
  <2> QED
    BY <2>3, <2>4, SectionFacts
<1>2. \A k \in 1..3 : Size(k) \in Nat /\ Size(k)' \in Nat /\ Size(k) <= Size(k)'
  <2> SUFFICES ASSUME NEW k \in 1..3 PROVE Size(k) \in Nat /\ Size(k)' \in Nat /\ Size(k) <= Size(k)'
    OBVIOUS
  <2>1. totals[k] \in Nat /\ totals' = totals /\ counted' = counted
    BY DEF PullTypes, PullTypeOK, page
  <2>2. /\ Size(k) = (IF k <= counted THEN totals[k] ELSE Cardinality(Stream(k)))
        /\ Size(k)' = (IF k <= counted THEN totals[k] ELSE Cardinality(Stream(k)'))
    BY <2>1 DEF Size
  <2> QED
    BY <1>1, <2>1, <2>2
<1> SUFFICES ASSUME NEW k \in 1..3, NEW r \in Rows
             PROVE  Place(k, r) \in Nat /\ Place(k, r)' \in Nat /\ Place(k, r) <= Place(k, r)'
  BY <1>1
<1>3. /\ Place(k, r) = (IF k > 1 THEN Size(1) ELSE 0) + (IF k > 2 THEN Size(2) ELSE 0) + Rank(k, r)
      /\ Place(k, r)' = (IF k > 1 THEN Size(1)' ELSE 0) + (IF k > 2 THEN Size(2)' ELSE 0) + Rank(k, r)'
  BY DEF Place, Before
<1>4. /\ Size(1) \in Nat /\ Size(1)' \in Nat /\ Size(1) <= Size(1)'
      /\ Size(2) \in Nat /\ Size(2)' \in Nat /\ Size(2) <= Size(2)'
  BY <1>2
<1>5. Rank(k, r) \in Nat /\ Rank(k, r)' \in Nat /\ Rank(k, r) <= Rank(k, r)'
  BY <1>1
<1> QED
  BY <1>3, <1>4, <1>5

(* A commit, of the device or of somebody else.                              *)
LEMMA CommitKeeps ==
    ASSUME PullInv, PullTypes', NEW w \in {"device", "others"}, Commits(w), Endangers(session[w]),
           UNCHANGED <<applied, cursor, pullPc, since, time, page, merged>>
    PROVE  PullInv'
<1> USE DEF PullInv
<1>1. PICK c : c = session[w]
  OBVIOUS
<1>2. c.row \in Rows /\ c.stamp \in Nat /\ stamp' = [stamp EXCEPT ![c.row] = c.stamp]
  BY <1>1, ChangeFacts DEF Commits, PullTypes, PullTypeOK
<1>3. /\ c.row \notin Wanted' /\ Wanted' \subseteq Wanted
      /\ \A r \in Rows \ {c.row} : stamp'[r] = stamp[r] /\ (r \in listed' <=> r \in listed)
      /\ Displaces(c) => Wanted' = {}
  BY <1>1, CommitWants
<1>4. Wanted' \subseteq Rows /\ Exposed' \subseteq Rows
  BY DEF Wanted, Exposed, PullTypes, PullTypeOK
<1>5. \A r \in Rows \ {c.row} : (Brought(r)' <=> Brought(r)) /\ (r \in Exposed' <=> r \in Exposed)
  BY <1>3 DEF Brought, Exposed
<1>6. /\ risky \ {c.row} \subseteq risky'
      /\ c.stamp <= time \/ c.stamp <= cursor => c.row \in risky'
  BY <1>1 DEF Endangers, IsLate
<1>7. stamp'[c.row] = c.stamp
  BY <1>2 DEF PullTypes, PullTypeOK
<1>8. NothingSkipped'
  BY <1>3, <1>4, <1>5, <1>6, <1>7 DEF NothingSkipped
<1>9. MergedInv'
  <2> SUFFICES ASSUME NEW r \in Rows, merged'[r].stamp # 0, ~Brought(r)',
                      stamp'[r] <= cursor' \/ stamp'[r] <= time'
               PROVE  r \in risky'
    BY DEF MergedInv
  <2>1. CASE r = c.row
    BY <2>1, <1>6, <1>7
  <2>2. CASE r # c.row
    BY <2>2, <1>3, <1>5, <1>6 DEF MergedInv
  <2> QED
    BY <2>1, <2>2
<1>10. ArrivedInv'
  BY <1>3, <1>4, <1>5 DEF ArrivedInv
<1>11. SizesInv'
  <2> SUFFICES ASSUME pullPc \in {"count", "select"}, Wanted' # {}, NEW k \in 1..3, k <= counted
               PROVE  /\ totals[k] <= Cardinality(Stream(k)')
                      /\ selected < k => totals[k] = Cardinality(Stream(k)')
    BY DEF SizesInv, page
  <2>1. ~Displaces(c) /\ Wanted # {}
    BY <1>3
  <2>2. Cardinality(Stream(k)) <= Cardinality(Stream(k)')
    BY <1>1, <2>1, CommitPlaces, <1>2
  <2>3. selected < k => Stream(k)' = Stream(k)
    BY <1>1, <2>1, CommitGrows
  <2>4. totals[k] <= Cardinality(Stream(k)) /\ (selected < k => totals[k] = Cardinality(Stream(k)))
    BY <2>1 DEF SizesInv
  <2>5. totals[k] \in Nat /\ Cardinality(Stream(k)) \in Nat /\ Cardinality(Stream(k)') \in Nat
    <3>1. IsFiniteSet(Stream(k)')
      BY SectionFacts, FS_Subset DEF Stream
    <3> QED
      BY <3>1, StreamFacts, FS_CardinalityType DEF PullTypes, PullTypeOK
  <2> QED
    BY <2>2, <2>3, <2>4, <2>5
<1>12. PlacesInv'
  <2> SUFFICES ASSUME pullPc \in {"count", "select"}, TimeRead, NEW k \in 1..3, NEW r \in Wanted', r \in Sections[k],
                      ~Brought(r)'
               PROVE  \/ k <= selected /\ PageEnd < Total(3) /\ PageEnd <= Place(k, r)'
                      \/ selected < k /\ offset <= Place(k, r)'
    <3>1. PageEnd' = PageEnd /\ Total(3)' = Total(3) /\ (TimeRead' <=> TimeRead)
      BY DEF PageEnd, Least, Total, TimeRead, page
    <3> QED
      BY <3>1 DEF PlacesInv, page
  <2>1. r \in Rows /\ r # c.row /\ r \in Wanted /\ ~Brought(r) /\ ~Displaces(c)
    BY <1>3, <1>4, <1>5
  <2>2. Place(k, r) \in Nat /\ Place(k, r)' \in Nat /\ Place(k, r) <= Place(k, r)'
    BY <1>1, <2>1, CommitPlaces
  <2>3. \/ k <= selected /\ PageEnd < Total(3) /\ PageEnd <= Place(k, r)
        \/ selected < k /\ offset <= Place(k, r)
    BY <2>1 DEF PlacesInv
  <2>4. PageEnd \in Nat /\ offset \in Nat
    BY PageFacts DEF PullTypes
  <2> QED
    BY <2>2, <2>3, <2>4
<1> QED
  BY <1>8, <1>9, <1>10, <1>11, <1>12
-----------------------------------------------------------------------------
(* Counting a section gives it the size it was taken to have; the first      *)
(* count of a pull reads server_time, and no place is before offset 0.       *)
LEMMA CountKeeps == ASSUME PullInv, CountSection PROVE PullInv'
<1> USE DEF PullInv
<1>1. PICK k : k = counted + 1
  OBVIOUS
<1>2. /\ pullPc = "count" /\ k \in 1..3 /\ counted \in 0..3 /\ selected = 0
      /\ counted' = k /\ totals' = [totals EXCEPT ![k] = Cardinality(Stream(k))]
      /\ pullPc' = (IF k = 3 THEN "select" ELSE "count")
      /\ time' = (IF counted = 0 /\ offset = 0 THEN clock ELSE time)
      /\ UNCHANGED <<listed, stamp, since, applied, cursor, merged, risky, offset, selected, clock>>
  BY <1>1 DEF CountSection, PullTypes, PullTypeOK, ServerTime, server, device
<1>3. /\ Cardinality(Stream(k)) \in Nat /\ Cardinality(Stream(k)) <= Cardinality(Sections[k])
      /\ totals \in [1..3 -> Nat]
  BY <1>2, StreamFacts DEF PullTypes, PullTypeOK
<1>4. PullTypes'
  <2>1. totals' \in [1..3 -> Nat] /\ \A j \in 1..3 : totals'[j] <= Cardinality(Sections[j])
    BY <1>2, <1>3 DEF PullTypes, PullTypeOK
  <2>2. time' \in 0..(clock' + MaxSkew)
    BY <1>2, PullAssumption DEF PullTypes, PullTypeOK
  <2>3. PullTypeOK'
    BY <2>1, <2>2, <1>2 DEF CountSection, PullTypes, PullTypeOK, server, device, counters
  <2> QED
    BY <2>3, <1>2 DEF CountSection, PullTypes, server, device
<1>5. Exposed' = Exposed /\ \A r \in Rows : Brought(r)' <=> Brought(r)
  BY <1>2 DEF Exposed, Brought
<1>6. /\ \A j \in 1..3 : Stream(j)' = Stream(j)
      /\ \A j \in 1..3, r \in Rows : Rank(j, r)' = Rank(j, r)
  BY <1>2, SamePlaces
<1>7. \A j \in 1..3, r \in Rows : Place(j, r)' = Place(j, r)
  <2>1. \A j \in 1..3 : Size(j)' = Size(j)
    BY <1>2, <1>3, <1>6, <1>1 DEF Size
  <2>2. Size(1)' = Size(1) /\ Size(2)' = Size(2)
    BY <2>1
  <2> QED
    BY <2>2, <1>6 DEF Place, Before
<1>8. \A j \in 1..3, r \in Rows : 0 <= Place(j, r)
  <2> SUFFICES ASSUME NEW j \in 1..3, NEW r \in Rows PROVE 0 <= Place(j, r)
    OBVIOUS
  <2>1. Rank(j, r) \in Nat
    BY StreamFacts, SectionFacts
  <2>2. Size(1) \in Nat /\ Size(2) \in Nat
    BY <1>3, StreamFacts DEF Size
  <2> QED
    BY <2>1, <2>2 DEF Place, Before
<1>9. CASE TimeRead
  <2>1. time' = time /\ Wanted' = Wanted
    BY <1>9, <1>2, <1>5 DEF TimeRead, Wanted
  <2>2. NothingSkipped' /\ MergedInv' /\ ArrivedInv'
    BY <2>1, <1>2, <1>5 DEF NothingSkipped, MergedInv, ArrivedInv
  <2>3. SizesInv'
    BY <2>1, <1>1, <1>2, <1>3, <1>6 DEF SizesInv
  <2>4. PlacesInv'
    <3> SUFFICES ASSUME NEW j \in 1..3, NEW r \in Wanted, r \in Sections[j], ~Brought(r)
                 PROVE  selected < j /\ offset <= Place(j, r)
      BY <2>1, <1>2, <1>5, <1>7, SectionFacts DEF PlacesInv
    <3> QED
      BY <1>2, <1>9 DEF PlacesInv
  <2> QED
    BY <1>4, <2>2, <2>3, <2>4
<1>10. CASE ~TimeRead
  <2>1. counted = 0 /\ offset = 0 /\ k = 1 /\ merged = [r \in Rows |-> NotPulled]
    BY <1>10, <1>1 DEF TimeRead, PullTypes
  <2>2. \A r \in Rows : merged'[r].stamp = 0
    BY <2>1, <1>2 DEF NotPulled
  <2>3. NothingSkipped' /\ MergedInv' /\ ArrivedInv'
    BY <2>2, <1>2, <1>5 DEF NothingSkipped, MergedInv, ArrivedInv
  <2>4. SizesInv'
    BY <2>1, <1>2, <1>3, <1>6 DEF SizesInv
  <2>5. PlacesInv'
    BY <2>1, <1>2, <1>7, <1>8, SectionFacts DEF PlacesInv
  <2> QED
    BY <1>4, <2>3, <2>4, <2>5
<1> QED
  BY <1>9, <1>10

(* Selecting a section: a row that must be brought and is not yet passed is  *)
(* on the page, or after it, and then there is a next page.                  *)
LEMMA SelectKeeps == ASSUME PullInv, SelectSection PROVE PullInv'
<1> USE DEF PullInv
<1>1. PICK k : k = selected + 1
  OBVIOUS
<1>2. /\ pullPc = "select" /\ pullPc' = pullPc /\ k \in 1..3 /\ counted = 3 /\ selected \in 0..3 /\ selected' = k
      /\ merged' = [r \in Rows |-> IF r \in SectionSlice(k) THEN Version(r) ELSE merged[r]]
      /\ UNCHANGED <<listed, stamp, since, applied, cursor, risky, offset, counted, totals, time, clock>>
  BY <1>1 DEF SelectSection, PullTypes, PullTypeOK, server, device
<1>3. /\ \A r \in SectionSlice(k) : r \in Rows /\ stamp[r] > since /\ Version(r).stamp = stamp[r]
      /\ since \in Nat /\ clock \in Nat /\ \A r \in Rows : stamp[r] \in 0..clock
  BY <1>2, SectionFacts, PullAssumption DEF SectionSlice, Stream, Version, PullTypes, PullTypeOK
<1>4. PullTypes'
  <2>1. \A r \in SectionSlice(k) : Version(r) \in Versions /\ Version(r).stamp <= clock
    BY <1>3 DEF Version, Versions, PullTypes, PullTypeOK
  <2>2. merged' \in [Rows -> Versions] /\ \A r \in Rows : merged'[r].stamp <= clock
    BY <2>1, <1>2 DEF PullTypes, PullTypeOK
  <2>3. PullTypeOK'
    BY <2>2, <1>2 DEF SelectSection, PullTypes, PullTypeOK, server, device, counters
  <2> QED
    BY <2>2, <2>3, <1>2 DEF SelectSection, PullTypes, server, device
<1>5. /\ Exposed' = Exposed /\ Wanted' = Wanted /\ Wanted \subseteq Rows
      /\ PageEnd' = PageEnd /\ Total(3)' = Total(3)
  BY <1>2 DEF Exposed, Wanted, PageEnd, Least, Total, PullTypes, PullTypeOK
<1>6. /\ \A j \in 1..3 : Stream(j)' = Stream(j)
      /\ \A j \in 1..3, r \in Rows : Place(j, r)' = Place(j, r)
  BY <1>2, SamePlaces
<1>7. /\ \A r \in SectionSlice(k) : Brought(r)'
      /\ \A r \in Rows \ SectionSlice(k) : Brought(r)' <=> Brought(r)
      /\ \A r \in Rows \ SectionSlice(k) : merged'[r] = merged[r]
  BY <1>2, <1>3 DEF Brought
<1>8. NothingSkipped' /\ ArrivedInv'
  BY <1>2, <1>5 DEF NothingSkipped, ArrivedInv
<1>9. MergedInv'
  BY <1>2, <1>7 DEF MergedInv
<1>10. SizesInv'
  BY <1>1, <1>2, <1>5, <1>6 DEF SizesInv
<1>11. PlacesInv'
  <2>1. TimeRead
    BY <1>2 DEF TimeRead
  <2> SUFFICES ASSUME NEW j \in 1..3, NEW r \in Wanted, r \in Sections[j], ~Brought(r)'
               PROVE  \/ j <= k /\ PageEnd < Total(3) /\ PageEnd <= Place(j, r)
                      \/ k < j /\ offset <= Place(j, r)
    BY <1>2, <1>5, <1>6 DEF PlacesInv
  <2>2. r \in Rows /\ ~Brought(r) /\ r \notin SectionSlice(k)
    BY <1>5, <1>7
  <2>3. \/ j <= selected /\ PageEnd < Total(3) /\ PageEnd <= Place(j, r)
        \/ selected < j /\ offset <= Place(j, r)
    BY <2>1, <2>2, <1>2 DEF PlacesInv
  <2>4. CASE j # k
    BY <2>3, <2>4, <1>1, <1>2
  <2>5. CASE j = k
    <3>1. r \in Stream(k)
      <4>1. stamp[r] > cursor
        BY <1>3, <2>2 DEF NothingSkipped, Wanted, PullTypes, PullTypeOK
      <4> QED
        BY <4>1, <2>5, <1>2 DEF Wanted, Exposed, Stream, PullTypes
    <3>2. Total(k - 1) + Rank(k, r) = Place(k, r)
      BY <1>2, PageFacts DEF Place, Before, Size, PullTypes, PullTypeOK
    <3>3. Place(k, r) < Total(k) /\ Total(k) <= Total(3)
      <4>1. totals[k] = Cardinality(Stream(k))
        BY <1>1, <1>2 DEF SizesInv
      <4>2. Rank(k, r) \in Nat /\ Rank(k, r) < totals[k]
        BY <4>1, <3>1, StreamFacts, <1>2
      <4>3. Total(k) = Total(k - 1) + totals[k] /\ Total(k - 1) \in Nat /\ totals[k] \in Nat /\ Total(k) <= Total(3)
        BY <1>2, PageFacts DEF PullTypes, PullTypeOK
      <4> QED
        BY <4>2, <4>3, <3>2
    <3>4. Place(k, r) \in Nat /\ offset \in Nat /\ PageEnd \in Nat /\ Total(k) \in Nat /\ Total(3) \in Nat
      BY <3>1, <3>2, <1>2, PageFacts, StreamFacts DEF PullTypes
    <3>5. offset <= Place(k, r)
      BY <2>3, <2>5, <1>1, <1>2
    <3>6. ~(Place(k, r) < Least(PageEnd, Total(k)))
      BY <2>2, <3>1, <3>2, <3>5 DEF SectionSlice
    <3> QED
      BY <2>5, <3>3, <3>4, <3>6, <1>2 DEF Least
  <2> QED
    BY <2>4, <2>5
<1> QED
  BY <1>4, <1>8, <1>9, <1>10, <1>11

(* A page arrives: places counted again are no smaller, so what is not here  *)
(* is not before the next page; if there is none, everything is here.        *)
LEMMA ArriveKeeps == ASSUME PullInv, PageArrives PROVE PullInv'
<1> USE DEF PullInv
<1>1. /\ pullPc = "select" /\ selected = 3 /\ counted = 3 /\ counted' = 0 /\ totals' = NoTotals /\ selected' = 0
      /\ IF PageEnd < Total(3) THEN pullPc' = "count" /\ offset' = PageEnd ELSE pullPc' = "apply" /\ offset' = 0
      /\ UNCHANGED <<listed, stamp, since, applied, cursor, risky, time, clock, merged>>
  BY DEF PageArrives, PullTypes, server, device
<1>2. PageEnd \in Nat /\ PageEnd <= Cardinality(Rows) /\ (PageEnd < Total(3) => PageEnd > 0)
  BY PageFacts DEF PullTypes
<1>3. PullTypes'
  <2>1. totals' \in [1..3 -> Nat] /\ \A k \in 1..3 : totals'[k] <= Cardinality(Sections[k])
    <3>1. \A k \in 1..3 : Cardinality(Sections[k]) \in Nat
      BY SectionFacts, FS_CardinalityType
    <3> QED
      BY <3>1, <1>1 DEF NoTotals
  <2>2. PullTypeOK'
    BY <2>1, <1>1, <1>2, PageFacts DEF PageArrives, PullTypes, PullTypeOK, server, device, counters
  <2> QED
    BY <2>2, <1>1, <1>2 DEF PageArrives, PullTypes, server, device
<1>4. /\ Exposed' = Exposed /\ Wanted' = Wanted /\ Wanted \subseteq Rows
      /\ \A r \in Rows : Brought(r)' <=> Brought(r)
  BY <1>1 DEF Exposed, Wanted, Brought, PullTypes, PullTypeOK
<1>5. /\ \A k \in 1..3 : Stream(k)' = Stream(k)
      /\ \A k \in 1..3, r \in Rows : Rank(k, r)' = Rank(k, r)
  BY <1>1, SamePlaces
<1>6. TimeRead
  BY <1>1 DEF TimeRead
<1>7. NothingSkipped' /\ MergedInv'
  BY <1>1, <1>4 DEF NothingSkipped, MergedInv
<1>8. SizesInv'
  BY <1>1 DEF SizesInv
<1>9. ArrivedInv'
  BY <1>1, <1>4, <1>6, SectionFacts DEF PlacesInv, ArrivedInv
<1>10. PlacesInv'
  <2> SUFFICES ASSUME PageEnd < Total(3), NEW k \in 1..3, NEW r \in Wanted, r \in Sections[k], ~Brought(r)
               PROVE  PageEnd <= Place(k, r)'
    BY <1>1, <1>4 DEF PlacesInv
  <2>1. PageEnd <= Place(k, r)
    BY <1>1, <1>6 DEF PlacesInv
  <2>2. \A j \in 1..3 : Size(j) = totals[j] /\ Size(j)' = Cardinality(Stream(j))
    BY <1>1, <1>5 DEF Size
  <2>3. \A j \in 1..3 : totals[j] \in Nat /\ Cardinality(Stream(j)) \in Nat /\ totals[j] <= Cardinality(Stream(j))
    BY <1>1, StreamFacts DEF SizesInv, PullTypes, PullTypeOK
  <2>4. /\ Size(1) \in Nat /\ Size(1)' \in Nat /\ Size(1) <= Size(1)'
        /\ Size(2) \in Nat /\ Size(2)' \in Nat /\ Size(2) <= Size(2)'
    BY <2>2, <2>3
  <2>5. Rank(k, r) \in Nat /\ Rank(k, r)' = Rank(k, r)
    BY <1>4, <1>5, StreamFacts, SectionFacts
  <2>6. /\ Place(k, r) = (IF k > 1 THEN Size(1) ELSE 0) + (IF k > 2 THEN Size(2) ELSE 0) + Rank(k, r)
        /\ Place(k, r)' = (IF k > 1 THEN Size(1)' ELSE 0) + (IF k > 2 THEN Size(2)' ELSE 0) + Rank(k, r)'
    BY DEF Place, Before
  <2> QED
    BY <2>1, <2>4, <2>5, <2>6, <1>2
<1> QED
  BY <1>3, <1>7, <1>8, <1>9, <1>10

(* The pages are applied: what was to be brought is no longer missing, and   *)
(* an older version is only applied to a marked row or one still to come.    *)
LEMMA ApplyKeeps == ASSUME PullInv, ApplySyncPull PROVE PullInv'
<1> USE DEF PullInv
<1>1. /\ pullPc = "apply" /\ pullPc' = "advance"
      /\ applied' = [r \in Rows |-> IF r \in Pulled THEN merged[r].stamp ELSE applied[r]]
      /\ UNCHANGED <<listed, stamp, since, cursor, risky, time, clock, merged>>
  BY DEF ApplySyncPull, server, run
<1>2. PullTypes'
  <2>1. local' \in [Balances -> Int]
    BY DEF ApplySyncPull, PullTypes, PullTypeOK, Versions, Pulled, Rows
  <2>2. applied' \in [Rows -> 0..clock]
    BY <1>1 DEF PullTypes, PullTypeOK, Versions
  <2>3. PullTypeOK'
    BY <2>1, <2>2, <1>1 DEF ApplySyncPull, PullTypes, PullTypeOK, server, run, page, counters
  <2> QED
    BY <2>3, <1>1 DEF ApplySyncPull, PullTypes, server, run, page
<1>3. \A r \in Rows : /\ Brought(r)' <=> Brought(r)
                      /\ merged[r].stamp # 0 => applied'[r] = merged[r].stamp
                      /\ merged[r].stamp = 0 => applied'[r] = applied[r]
  BY <1>1 DEF Brought, Pulled
<1>4. \A r \in Exposed' : /\ r \in Rows /\ ~Brought(r)
                          /\ merged[r].stamp = 0 => r \in Exposed
  BY <1>1, <1>3 DEF Exposed, Brought, PullTypes, PullTypeOK
<1>5. NothingSkipped'
  BY <1>1, <1>4 DEF NothingSkipped, MergedInv
<1>6. MergedInv'
  BY <1>1, <1>3 DEF MergedInv
<1>7. Wanted' = {}
  <2> SUFFICES ASSUME NEW r \in Wanted' PROVE FALSE
    OBVIOUS
  <2>1. r \in Exposed' /\ r \notin risky /\ stamp[r] <= time
    BY <1>1 DEF Wanted
  <2>2. CASE merged[r].stamp = 0
    BY <2>1, <2>2, <1>1, <1>4 DEF Wanted, ArrivedInv
  <2>3. CASE merged[r].stamp # 0
    BY <2>1, <2>3, <1>4 DEF MergedInv
  <2> QED
    BY <2>2, <2>3
<1> QED
  BY <1>1, <1>2, <1>5, <1>6, <1>7 DEF SizesInv, PlacesInv, ArrivedInv

(* The steps at the two ends of a pull, and those that end it early.         *)
LEMMA CursorKeeps ==
    ASSUME PullInv, SetLastSyncTimestamp \/ PullCrash \/ StartPull \/ StartSync \/ PushHalfFails
    PROVE  PullInv'
<1> USE DEF PullInv
<1>1. /\ UNCHANGED <<listed, stamp, applied, risky, clock, quantity, session, local, queued>>
      /\ pullPc' \in {"idle", "push", "count"} /\ merged' = [r \in Rows |-> NotPulled]
      /\ \/ cursor' = cursor
         \/ pullPc = "advance" /\ cursor' = time
      /\ pullPc' = "count" => since' = cursor' /\ cursor' = cursor
      /\ offset' = 0 /\ counted' = 0 /\ totals' = NoTotals /\ selected' = 0
  BY DEF SetLastSyncTimestamp, PullCrash, StartPull, StartSync, PushHalfFails, PageCleared, server, device,
         page, PullTypes, PullTypeOK
<1>2. /\ time' \in {0, time} /\ since' \in {0, since, cursor} /\ runBatch' \subseteq Balances
      /\ <<records, others, pullFaults, pullCrashes>>' \in
             (0..MaxRecords) \X (0..MaxOthers) \X (0..MaxPullFaults) \X (0..MaxPullCrashes)
  <2>1. {MaxPullFaults, MaxPullCrashes} \subseteq Nat
    BY PullAssumption
  <2> QED
    BY <2>1 DEF SetLastSyncTimestamp, PullCrash, StartPull, StartSync, PushHalfFails, counters, PullTypes, PullTypeOK
<1>3. \A r \in Rows : merged'[r].stamp = 0 /\ merged'[r] \in Versions
  BY <1>1 DEF NotPulled, Versions
<1>4. PullTypes'
  <2>1. totals' \in [1..3 -> Nat] /\ (\A k \in 1..3 : totals'[k] <= Cardinality(Sections[k])) /\ offset' \in 0..Cardinality(Rows)
    <3>1. \A k \in 1..3 : Cardinality(Sections[k]) \in Nat
      BY SectionFacts, FS_CardinalityType
    <3>2. Cardinality(Rows) \in Nat
      BY SectionFacts, FS_CardinalityType
    <3> QED
      BY <3>1, <3>2, <1>1 DEF NoTotals
  <2>2. /\ time' \in 0..(clock + MaxSkew) /\ since' \in 0..(clock + MaxSkew)
        /\ cursor' \in 0..(clock + MaxSkew) /\ clock \in Nat
    BY <1>1, <1>2, PullAssumption DEF PullTypes, PullTypeOK
  <2>3. merged' \in [Rows -> Versions]
    BY <1>1, <1>3
  <2>4. PullTypeOK'
    BY <2>1, <2>2, <2>3, <1>1, <1>2 DEF PullTypes, PullTypeOK
  <2> QED
    BY <2>2, <2>4, <1>1, <1>3 DEF PullTypes
<1>5. Exposed' = Exposed
  BY <1>1 DEF Exposed
<1>6. NothingSkipped'
  BY <1>1, <1>5 DEF NothingSkipped, ArrivedInv, Wanted
<1>7. ~TimeRead' \/ pullPc' # "count"
  BY <1>1 DEF TimeRead
<1> QED
  BY <1>1, <1>3, <1>4, <1>6, <1>7 DEF MergedInv, SizesInv, PlacesInv, ArrivedInv

(* A failed pull or apply marks everything that is missing.                  *)
LEMMA FailureKeeps == ASSUME PullInv, PullFails \/ ApplyFails PROVE PullInv'
<1> USE DEF PullInv
<1>1. /\ UNCHANGED <<listed, stamp, applied, clock, cursor, since>> /\ pullPc' = "advance"
      /\ risky' = risky \cup Exposed /\ pullPc \in {"count", "select", "apply"}
      /\ offset' = 0 /\ counted' = 0 /\ totals' = NoTotals /\ selected' = 0
      /\ \/ merged' = [r \in Rows |-> NotPulled]
         \/ merged' = merged /\ time' = time
  BY DEF PullFails, ApplyFails, PageCleared, server, device, run, page, PullTypes, PullTypeOK
<1>2. PullTypes'
  <2>1. totals' \in [1..3 -> Nat] /\ (\A k \in 1..3 : totals'[k] <= Cardinality(Sections[k])) /\ offset' \in 0..Cardinality(Rows)
    <3>1. \A k \in 1..3 : Cardinality(Sections[k]) \in Nat
      BY SectionFacts, FS_CardinalityType
    <3>2. Cardinality(Rows) \in Nat
      BY SectionFacts, FS_CardinalityType
    <3> QED
      BY <3>1, <3>2, <1>1 DEF NoTotals
  <2>2. time' \in 0..(clock + MaxSkew) /\ clock \in Nat
    BY PullAssumption DEF PullFails, ApplyFails, Greatest, run, PullTypes, PullTypeOK
  <2>3. merged' \in [Rows -> Versions] /\ \A r \in Rows : merged'[r].stamp <= clock
    BY <1>1, <2>2 DEF NotPulled, Versions, PullTypes, PullTypeOK
  <2>4. pullFaults' \in 0..MaxPullFaults
    BY PullAssumption DEF PullFails, ApplyFails, PullTypes, PullTypeOK
  <2>5. risky' \subseteq Rows
    BY <1>1 DEF Exposed, PullTypes, PullTypeOK
  <2>6. PullTypeOK'
    BY <2>1, <2>2, <2>3, <2>4, <2>5, <1>1 DEF PullFails, ApplyFails, PullTypes, PullTypeOK, server, device, run
  <2> QED
    BY <2>3, <2>6, <1>1 DEF PullFails, ApplyFails, PullTypes, server
<1>3. Exposed' = Exposed
  BY <1>1 DEF Exposed
<1>4. NothingSkipped' /\ Wanted' = {}
  BY <1>1, <1>3 DEF NothingSkipped, Wanted
<1>5. MergedInv'
  <2> SUFFICES ASSUME merged' = merged, time' = time PROVE MergedInv'
    BY <1>1 DEF MergedInv, NotPulled
  <2> QED
    BY <1>1 DEF MergedInv, Brought
<1> QED
  BY <1>1, <1>2, <1>4, <1>5 DEF SizesInv, PlacesInv, ArrivedInv

(* Every step preserves the invariant.                                       *)
LEMMA PullKeeps == PullInv /\ [PullNext]_pullVars => PullInv'
<1> SUFFICES ASSUME PullInv, [PullNext]_pullVars PROVE PullInv'
  OBVIOUS
<1> USE DEF PullInv
<1>1. ASSUME NEW b \in Balances, RecordMovement(b, 1) PROVE PullInv'
  <2>1. local' \in [Balances -> Int] /\ queued' \in [Balances -> Int] /\ records' \in 0..MaxRecords
    BY <1>1, PullAssumption DEF RecordMovement, PullTypes, PullTypeOK
  <2>2. PullTypes'
    BY <2>1, <1>1 DEF RecordMovement, PullTypes, PullTypeOK, server, run, page
  <2> QED
    BY <2>2, <1>1, RestKeeps DEF RecordMovement, server, run
<1>2. ASSUME NEW r \in Rows, NEW d \in Int, OtherChange(r, d) PROVE PullInv'
  <2>1. PICK shown \in BOOLEAN : Stamps("others", r, d, shown)
    BY <1>2 DEF OtherChange
  <2>2. <<records, others, pullFaults, pullCrashes>>' \in
            (0..MaxRecords) \X (0..MaxOthers) \X (0..MaxPullFaults) \X (0..MaxPullCrashes)
    BY <1>2, PullAssumption DEF OtherChange, PullTypes, PullTypeOK
  <2>3. PullTypes'
    BY <2>1, <2>2, <1>2, StampKeepsTypes DEF OtherChange, device
  <2> QED
    BY <2>1, <2>3, <1>2, RestKeeps DEF OtherChange, Stamps, device, run
<1>3. CASE OtherCommit
  <2>1. PullTypes'
    BY <1>3, CommitKeepsTypes DEF OtherCommit, device, run, PullTypes, PullTypeOK
  <2> QED
    BY <2>1, <1>3, CommitKeeps DEF OtherCommit, device, run
<1>4. ASSUME NEW b \in Balances, PushMovement(b) PROVE PullInv'
  <2>1. b \in Rows /\ queued[b] \in Int
    BY DEF Rows, PullTypes, PullTypeOK
  <2>2. <<records, others, pullFaults, pullCrashes>>' \in
            (0..MaxRecords) \X (0..MaxOthers) \X (0..MaxPullFaults) \X (0..MaxPullCrashes)
    BY <1>4 DEF PushMovement, PullTypes, PullTypeOK, counters
  <2>3. PullTypes'
    BY <2>1, <2>2, <1>4, StampKeepsTypes DEF PushMovement, device
  <2> QED
    BY <2>3, <1>4, RestKeeps DEF PushMovement, Stamps, device, run
<1>5. CASE PushCommit
  <2>1. session["device"] # None
    BY <1>5 DEF PushCommit, Commits
  <2>2. session["device"].delta \in Int
    BY <2>1, ChangeFacts
  <2>3. queued' \in [Balances -> Int] /\ runBatch' \subseteq Balances
    <3>1. PICK c : c = session["device"]
      OBVIOUS
    <3>2. queued' = [queued EXCEPT ![c.row] = @ - c.delta] /\ runBatch' = runBatch \ {c.row}
      BY <1>5, <3>1 DEF PushCommit
    <3>3. c.delta \in Int
      BY <2>2, <3>1
    <3>4. PICK d \in Int : d = c.delta
      BY <3>3
    <3>5. queued' = [queued EXCEPT ![c.row] = @ - d]
      BY <3>2, <3>4
    <3>6. queued \in [Balances -> Int] /\ runBatch \subseteq Balances
      BY DEF PullTypes, PullTypeOK
    <3>7. PICK x : x = c.row
      OBVIOUS
    <3>8. queued' = [queued EXCEPT ![x] = queued[x] - d]
      BY <3>5, <3>7
    <3>9. queued' \in [Balances -> Int]
      <4>1. CASE x \in Balances
        BY <4>1, <3>6, <3>8
      <4>2. CASE x \notin Balances
        BY <4>2, <3>6, <3>8
      <4> QED
        BY <4>1, <4>2
    <3> QED
      BY <3>2, <3>6, <3>9
  <2>4. PullTypes'
    BY <1>5, <2>3, CommitKeepsTypes DEF PushCommit
  <2> QED
    BY <2>4, <1>5, CommitKeeps DEF PushCommit
<1>6. CASE UNCHANGED pullVars
  <2>1. PullTypes'
    BY <1>6 DEF pullVars, server, device, run, page, counters, PullTypes, PullTypeOK
  <2> QED
    BY <2>1, <1>6, RestKeeps DEF pullVars, server, device, run
<1>7. \A r \in Rows : (IF r \in Balances THEN 1 ELSE 0) \in Int
  OBVIOUS
<1> QED
  BY <1>1, <1>2, <1>3, <1>4, <1>5, <1>6, <1>7, CountKeeps, SelectKeeps, ArriveKeeps, ApplyKeeps,
     CursorKeeps, FailureKeeps DEF PullNext, PullRunStep

(* The types hold.                                                           *)
THEOREM PullTyped == PullSpec => []PullTypeOK
<1>1. PullInv => PullTypeOK
  BY DEF PullInv, PullTypes
<1> QED
  BY <1>1, PullStarts, PullKeeps, PTL DEF PullSpec

(* For any rows, page size, changes, failures and crashes: the cursor passes *)
(* over no version of a row that the device has not applied, unless a pull   *)
(* failed or a commit raced it (sync.py _paginated_pull, _httpPullAll).      *)
THEOREM PullSkipsNothing == PullSpec => []NothingSkipped
<1>1. PullInv => NothingSkipped
  BY DEF PullInv
<1> QED
  BY <1>1, PullStarts, PullKeeps, PTL DEF PullSpec
=============================================================================
