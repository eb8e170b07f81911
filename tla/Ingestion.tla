----------------------------- MODULE Ingestion -----------------------------
(***************************************************************************)
(* The central API's write path: services/api/app/services/ingestion.py    *)
(* and the /push endpoint that calls it.  A request r runs ingest_batch:   *)
(* it prefetches which ids the ledger and the receipts already hold, then  *)
(* ingests one payload after the other, each in a database session of its  *)
(* own.  Requests interleave between any two statements; one session's     *)
(* writes become visible together at its commit (PostgreSQL at its default *)
(* READ COMMITTED level), which is where unique keys are enforced.         *)
(***************************************************************************)
EXTENDS Integers, FiniteSets

CONSTANTS
    TxIds,       \* transaction ids
    Keys,        \* (store, product, bucket) triples
    KeyOf,       \* [TxIds -> Keys]
    Masters,     \* ids a ledger row refers to: its store, product, device
    MasterOf,    \* [TxIds -> Masters]
    KnownMasters,\* the master rows that exist before the first push
    Payloads,    \* what devices may push: [tx, delta, type, ref, at]
    Batches,     \* the payload sets a device may put into one push
    Requests,    \* the push requests of a behaviour, each served once
    Concurrency, \* how many of them may be in the server at the same time
    MaxFaults    \* how many database errors a behaviour may meet

Increases == {"RECEIPT", "TRANSFER_IN", "RETURN"}
Decreases == {"SALE", "TRANSFER_OUT", "DAMAGE"}
ValidMovementTypes == {"ADJUSTMENT"} \cup Increases \cup Decreases
MovementTypes == ValidMovementTypes \cup {"TRANSFER"}   \* "TRANSFER": legacy rows

ASSUME PayloadAssumption ==
    /\ Payloads \subseteq [tx : TxIds, delta : Int, type : MovementTypes,
                           ref : BOOLEAN, at : Nat]
    /\ Batches \subseteq SUBSET Payloads
    /\ KeyOf \in [TxIds -> Keys]
    /\ MasterOf \in [TxIds -> Masters]
    /\ KnownMasters \subseteq Masters
    /\ IsFiniteSet(Requests)
    /\ Concurrency \in Nat
    /\ MaxFaults \in Nat

VARIABLES
    \* the database
    posted,      \* ids of the inventory_transactions rows
    delta,       \* their quantity_delta
    balance,     \* stock_balances.quantity
    receipt,     \* sync_receipts: [state, cur, row]
    masters,     \* rows of stores / products / devices
    \* the requests being served
    pc, todo, item,
    ledgerIds, snap, known,   \* IngestPrefetch
    plan,        \* what the item's open session is going to commit
    verdict,     \* receipts_by_index
    \* observers
    told,        \* verdicts that reached a device
    faults

dbVars == <<posted, delta, balance, receipt, masters>>
sessVars == <<pc, todo, item, ledgerIds, snap, known, plan, verdict>>
vars == <<posted, delta, balance, receipt, masters, pc, todo, item, ledgerIds,
          snap, known, plan, verdict, told, faults>>

Rejections == {"invalid", "insufficient", "unexpected"}
Verdicts == {"accepted"} \cup Rejections
ReceiptStates == {"none"} \cup Verdicts
(* A sync_receipts row; row tells a re-inserted row from an updated one, and *)
(* cur is the balance quoted by "Insufficient stock: current <n>, ...".     *)
Receipts == [state : ReceiptStates, cur : Int, row : Nat]
NoReceipt == [state |-> "none", cur |-> 0, row |-> 0]

PCs == {"ready", "prefetch", "next", "lookup", "check", "commit",
        "collided", "failed", "done"}
NoItem == [tx |-> "none"]
(* op: what to write; old: the ledger delta read; cur: the balance read;    *)
(* stale: the receipt row this session deletes first (0: none);             *)
(* provision: the session also inserts the missing master row.              *)
Plans == [op : {"none", "amend", "invalid", "insufficient", "post"},
          old : Int, cur : Int, stale : Nat, provision : BOOLEAN]
NoPlan == [op |-> "none", old |-> 0, cur |-> 0, stale |-> 0, provision |-> FALSE]
AmendPlan(old) == [op |-> "amend", old |-> old, cur |-> 0, stale |-> 0, provision |-> FALSE]
RetryPlan(row) == [op |-> "none", old |-> 0, cur |-> 0, stale |-> row, provision |-> FALSE]

TypeOK ==
    /\ posted \subseteq TxIds
    /\ delta \in [TxIds -> Int]
    /\ balance \in [Keys -> Int]
    /\ receipt \in [TxIds -> Receipts]
    /\ masters \subseteq Masters
    /\ pc \in [Requests -> PCs]
    /\ todo \in [Requests -> SUBSET Payloads]
    /\ item \in [Requests -> Payloads \cup {NoItem}]
    /\ ledgerIds \in [Requests -> SUBSET TxIds]
    /\ snap \in [Requests -> [TxIds -> {"none", "accepted", "rejected"}]]
    /\ known \in [Requests -> SUBSET Masters]
    /\ plan \in [Requests -> Plans]
    /\ verdict \in [Requests -> SUBSET (TxIds \X Verdicts)]
    /\ told \subseteq TxIds \X Verdicts
    /\ faults \in Nat

Init ==
    /\ posted = {}
    /\ delta = [t \in TxIds |-> 0]
    /\ balance = [k \in Keys |-> 0]
    /\ receipt = [t \in TxIds |-> NoReceipt]
    /\ masters = KnownMasters
    /\ pc = [r \in Requests |-> "ready"]
    /\ todo = [r \in Requests |-> {}]
    /\ item = [r \in Requests |-> NoItem]
    /\ ledgerIds = [r \in Requests |-> {}]
    /\ snap = [r \in Requests |-> [t \in TxIds |-> "none"]]
    /\ known = [r \in Requests |-> {}]
    /\ plan = [r \in Requests |-> NoPlan]
    /\ verdict = [r \in Requests |-> {}]
    /\ told = {}
    /\ faults = 0

-----------------------------------------------------------------------------
(* Pure decisions of the code. *)

(* MOVEMENT_PRIORITY: baselines, then increases, then decreases. *)
MovementPriority(type) ==
    CASE type = "ADJUSTMENT" -> 0
      [] type \in Increases -> 1
      [] type \in Decreases -> 2
      [] OTHER -> 3

(* The batch order (priority, occurred_at, id); at stands for the last two. *)
Precedes(p, q) ==
    \/ MovementPriority(p.type) < MovementPriority(q.type)
    \/ MovementPriority(p.type) = MovementPriority(q.type) /\ p.at < q.at

(* _validate_payload: blank ids never leave a device, so what remains is the *)
(* zero quantity, the unknown type and the sale without a receipt number.    *)
Validates(p) ==
    /\ p.delta # 0
    /\ p.type \in ValidMovementTypes
    /\ p.type = "SALE" => p.ref

NeverStale(rc, p, current) == FALSE   \* mutant: a rejection is final
(* _stale_domain_rejection_should_retry: an "Insufficient stock" receipt is  *)
(* re-evaluated when the balance has moved and would now cover the payload.  *)
RejectionIsStale(rc, p, current) ==
    /\ rc.state = "insufficient"
    /\ rc.cur >= 0
    /\ current + p.delta >= 0
    /\ current # rc.cur

ShouldRetry(rc, p, current) ==
    rc.state = "unexpected" \/ RejectionIsStale(rc, p, current)

SnapshotPresence(rc) ==   \* mutant: any receipt counts as an acceptance
    IF rc.state = "none" THEN "none" ELSE "accepted"
SnapshotReason(rc) == rc.state   \* mutant: the reason instead of the flag
(* ReceiptSnapshot: the accepted flag of a sync_receipts row, if there is one. *)
Snapshot(rc) == CASE rc.state = "none" -> "none"
                  [] rc.state = "accepted" -> "accepted"
                  [] OTHER -> "rejected"

OverdrawsLate(p, current) == p.delta < 0 /\ current < 0   \* mutant
(* Step 3: a decrease may not take the balance below zero.                   *)
Overdraws(p, current) == p.delta < 0 /\ current + p.delta < 0

(* The rows after db.add(receipt): a new row, or the old one re-inserted.    *)
NewReceipt(t, state, cur) ==
    [receipt EXCEPT ![t] = [state |-> state, cur |-> cur, row |-> @.row + 1]]
(* The rows after an assignment to an existing row, or an insert if none.    *)
SetReceipt(t, state) ==
    [receipt EXCEPT ![t] = [state |-> state, cur |-> 0,
                            row |-> IF @.state = "none" THEN @.row + 1 ELSE @.row]]

-----------------------------------------------------------------------------
(* Serving one push. *)

Active == {r \in Requests : pc[r] \notin {"ready", "done"}}

(* push_events hands the batch to ingest_batch, whose prefetch first selects *)
(* the ids the ledger already holds ...                                      *)
Push(r) ==
    /\ pc[r] = "ready"
    /\ Cardinality(Active) < Concurrency
    /\ \E b \in Batches :
        /\ todo' = [todo EXCEPT ![r] = b]
        /\ ledgerIds' = [ledgerIds EXCEPT ![r] = posted \cap {p.tx : p \in b}]
    /\ pc' = [pc EXCEPT ![r] = "prefetch"]
    /\ UNCHANGED <<posted, delta, balance, receipt, masters, item, snap, known,
                   plan, verdict, told, faults>>

(* ... and then, in later statements, the receipts and the master rows.      *)
PrefetchReceipts(r) ==
    /\ pc[r] = "prefetch"
    /\ snap' = [snap EXCEPT ![r] = [t \in TxIds |->
                   IF t \in {p.tx : p \in todo[r]} THEN Snapshot(receipt[t])
                                                   ELSE "none"]]
    /\ known' = [known EXCEPT ![r] = masters \cap {MasterOf[p.tx] : p \in todo[r]}]
    /\ pc' = [pc EXCEPT ![r] = "next"]
    /\ UNCHANGED <<posted, delta, balance, receipt, masters, todo, item,
                   ledgerIds, plan, verdict, told, faults>>

(* The loop over ordered opens a fresh session for the next payload.         *)
NextItem(r) ==
    /\ pc[r] = "next"
    /\ \E p \in todo[r] :
        /\ \A q \in todo[r] \ {p} : Precedes(p, q)
        /\ item' = [item EXCEPT ![r] = p]
        /\ todo' = [todo EXCEPT ![r] = @ \ {p}]
    /\ pc' = [pc EXCEPT ![r] = "lookup"]
    /\ UNCHANGED <<posted, delta, balance, receipt, masters, ledgerIds, snap,
                   known, plan, verdict, told, faults>>

(* mutant: the prefetch is not refreshed between the items of a batch        *)
FinishUnrecorded(r, v) ==
    /\ verdict' = [verdict EXCEPT ![r] = @ \cup {<<item[r].tx, v>>}]
    /\ item' = [item EXCEPT ![r] = NoItem]
    /\ plan' = [plan EXCEPT ![r] = NoPlan]
    /\ pc' = [pc EXCEPT ![r] = "next"]
    /\ UNCHANGED <<todo, told, ledgerIds, snap, known>>

(* _finish: note the item's verdict and fold it back into the prefetch.      *)
Finish(r, v) ==
    LET t == item[r].tx IN
    /\ verdict' = [verdict EXCEPT ![r] = @ \cup {<<t, v>>}]
    /\ ledgerIds' = [ledgerIds EXCEPT ![r] = IF v = "accepted" THEN @ \cup {t} ELSE @]
    /\ snap' = [snap EXCEPT ![r][t] = IF v = "accepted" THEN "accepted" ELSE "rejected"]
    /\ known' = [known EXCEPT ![r] = @ \cup {MasterOf[t]}]
    /\ item' = [item EXCEPT ![r] = NoItem]
    /\ plan' = [plan EXCEPT ![r] = NoPlan]
    /\ pc' = [pc EXCEPT ![r] = "next"]
    /\ UNCHANGED <<todo, told>>

GoTo(r, label) ==
    /\ pc' = [pc EXCEPT ![r] = label]
    /\ UNCHANGED <<todo, item, ledgerIds, snap, known, verdict, told>>

(* Step 1a: the ledger already holds the id; read the row's quantity.        *)
LookupLedgerRow(r) ==
    LET t == item[r].tx IN
    /\ pc[r] = "lookup"
    /\ t \in ledgerIds[r] \cap posted
    /\ plan' = [plan EXCEPT ![r] = AmendPlan(delta[t])]
    /\ GoTo(r, "commit")
    /\ UNCHANGED <<posted, delta, balance, receipt, masters, faults>>

(* Step 1b: the receipts decide whether the payload is new, already          *)
(* answered, or was rejected for a reason that is worth another try.         *)
LookupReceipt(r) ==
    LET p == item[r]
        rc == receipt[p.tx]
        retry == ShouldRetry(rc, p, balance[KeyOf[p.tx]])
    IN
    /\ pc[r] = "lookup"
    /\ p.tx \notin ledgerIds[r] \cap posted
    /\ \/ /\ \/ snap[r][p.tx] = "none"
             \/ snap[r][p.tx] = "rejected" /\ rc.state = "none"
          /\ plan' = [plan EXCEPT ![r] = NoPlan]
          /\ GoTo(r, "check")
       \/ /\ \/ snap[r][p.tx] = "accepted"
             \/ snap[r][p.tx] = "rejected" /\ rc.state = "accepted"
          /\ Finish(r, "accepted")
       \/ /\ snap[r][p.tx] = "rejected"
          /\ rc.state \in Rejections
          /\ ~retry
          /\ Finish(r, rc.state)
       \/ /\ snap[r][p.tx] = "rejected"
          /\ rc.state \in Rejections
          /\ retry
          /\ plan' = [plan EXCEPT ![r] = RetryPlan(rc.row)]
          /\ GoTo(r, "check")
    /\ UNCHANGED <<posted, delta, balance, receipt, masters, faults>>

(* Steps 2 - 3: validate, see whether the master rows must be provisioned,   *)
(* and read the balance a decrease is checked against.                       *)
Check(r) ==
    LET p == item[r]
        m == MasterOf[p.tx]
        current == balance[KeyOf[p.tx]]
        op == CASE ~Validates(p) -> "invalid"
                [] Validates(p) /\ Overdraws(p, current) -> "insufficient"
                [] OTHER -> "post"
    IN
    /\ pc[r] = "check"
    /\ plan' = [plan EXCEPT ![r] =
           [op |-> op, old |-> 0, stale |-> plan[r].stale,
            cur |-> IF op = "insufficient" THEN current ELSE 0,
            provision |-> op # "invalid" /\ m \notin known[r] /\ m \notin masters]]
    /\ GoTo(r, "commit")
    /\ UNCHANGED <<posted, delta, balance, receipt, masters, faults>>

-----------------------------------------------------------------------------
(* Committing the item's session. *)

(* INSERT INTO sync_receipts fails on its primary key unless the row is      *)
(* absent or is the stale one this session deleted.                          *)
ReceiptInsertable(r) ==
    \/ receipt[item[r].tx].state = "none"
    \/ plan[r].stale # 0 /\ receipt[item[r].tx].row = plan[r].stale

(* Two sessions provisioned the same master row: the later INSERT fails.     *)
MasterInsertable(r) == plan[r].provision => MasterOf[item[r].tx] \notin masters

ProvisionedMasters(r) ==
    IF plan[r].provision THEN masters \cup {MasterOf[item[r].tx]} ELSE masters

BalanceShiftWhole(r) == item[r].delta   \* mutant: forgets what was posted
(* balance_diff: what an amended row moves its balance by.                   *)
BalanceShift(r) == item[r].delta - plan[r].old

(* The ledger's primary key collides: another session posted the id since    *)
(* this one looked.  _is_inventory_transactions_pkey_collision.              *)
PostCollidesAny(r) ==   \* mutant: takes every unique-key error for this one
    /\ plan[r].op = "post"
    /\ MasterInsertable(r)
    /\ item[r].tx \in posted \/ ~ReceiptInsertable(r)
PostCollides(r) ==
    /\ plan[r].op = "post"
    /\ MasterInsertable(r)
    /\ item[r].tx \in posted

(* Ledger hit: restate the quantity when it differs (the balance moves by    *)
(* the difference to the value read before) and see that an accepted receipt *)
(* exists; inserting one that exists by now fails.                           *)
CommitAmend(r) ==
    LET p == item[r]  t == p.tx IN
    /\ pc[r] = "commit"
    /\ plan[r].op = "amend"
    /\ snap[r][t] = "none" => receipt[t].state = "none"
    /\ delta' = [delta EXCEPT ![t] = IF p.delta # plan[r].old THEN p.delta ELSE @]
    /\ balance' = [balance EXCEPT ![KeyOf[t]] = @ + BalanceShift(r)]
    /\ receipt' = IF snap[r][t] = "accepted" \/ receipt[t].state = "accepted"
                  THEN receipt ELSE SetReceipt(t, "accepted")
    /\ Finish(r, "accepted")
    /\ UNCHANGED <<posted, masters, faults>>

(* A rejection is durable: its receipt commits, with the provisioned rows.   *)
CommitReject(r) ==
    LET t == item[r].tx IN
    /\ pc[r] = "commit"
    /\ plan[r].op \in {"invalid", "insufficient"}
    /\ MasterInsertable(r)
    /\ ReceiptInsertable(r)
    /\ receipt' = NewReceipt(t, plan[r].op, plan[r].cur)
    /\ masters' = ProvisionedMasters(r)
    /\ Finish(r, plan[r].op)
    /\ UNCHANGED <<posted, delta, balance, faults>>

(* Ledger row, balance and accepted receipt commit together.                 *)
CommitPost(r) ==
    LET p == item[r]  t == p.tx IN
    /\ pc[r] = "commit"
    /\ plan[r].op = "post"
    /\ MasterInsertable(r)
    /\ ~PostCollides(r)
    /\ MasterOf[t] \in ProvisionedMasters(r)
    /\ ReceiptInsertable(r)
    /\ posted' = posted \cup {t}
    /\ delta' = [delta EXCEPT ![t] = p.delta]
    /\ balance' = [balance EXCEPT ![KeyOf[t]] = @ + p.delta]
    /\ receipt' = NewReceipt(t, "accepted", 0)
    /\ masters' = ProvisionedMasters(r)
    /\ Finish(r, "accepted")
    /\ UNCHANGED faults

(* Another session posted the id first: roll back, the event is accepted.    *)
CommitCollides(r) ==
    /\ pc[r] = "commit"
    /\ PostCollides(r)
    /\ plan' = [plan EXCEPT ![r] = NoPlan]
    /\ GoTo(r, "collided")
    /\ UNCHANGED <<posted, delta, balance, receipt, masters, faults>>

(* Any other constraint fails: a receipt or a master row inserted by another *)
(* session, or a foreign key without its master row.                         *)
CommitFails(r) ==
    /\ pc[r] = "commit"
    /\ \/ plan[r].op = "amend" /\ snap[r][item[r].tx] = "none"
                               /\ receipt[item[r].tx].state # "none"
       \/ plan[r].op # "amend" /\ ~MasterInsertable(r)
       \/ /\ plan[r].op # "amend"
          /\ ~PostCollides(r)
          /\ ~ReceiptInsertable(r)
       \/ /\ plan[r].op = "post"
          /\ ~PostCollides(r)
          /\ MasterOf[item[r].tx] \notin ProvisionedMasters(r)
    /\ plan' = [plan EXCEPT ![r] = NoPlan]
    /\ GoTo(r, "failed")
    /\ UNCHANGED <<posted, delta, balance, receipt, masters, faults>>

(* A database error anywhere in the item's session rolls the session back.   *)
Fault(r) ==
    /\ pc[r] \in {"lookup", "check", "commit"}
    /\ faults < MaxFaults
    /\ faults' = faults + 1
    /\ plan' = [plan EXCEPT ![r] = NoPlan]
    /\ GoTo(r, "failed")
    /\ UNCHANGED <<posted, delta, balance, receipt, masters>>

-----------------------------------------------------------------------------
(* Recovering from a failed session, each in a session of its own. *)

(* _ensure_accepted_receipt; the reply is "accepted" even if saving fails.   *)
EnsureAccepted(r) ==
    /\ pc[r] = "collided"
    /\ \/ receipt' = SetReceipt(item[r].tx, "accepted") /\ UNCHANGED faults
       \/ faults < MaxFaults /\ faults' = faults + 1 /\ UNCHANGED receipt
    /\ Finish(r, "accepted")
    /\ UNCHANGED <<posted, delta, balance, masters>>

(* "Unexpected error: ..." is stored over whatever receipt there is.         *)
PersistRejection(r) ==
    /\ pc[r] = "failed"
    /\ \/ receipt' = SetReceipt(item[r].tx, "unexpected") /\ UNCHANGED faults
       \/ faults < MaxFaults /\ faults' = faults + 1 /\ UNCHANGED receipt
    /\ Finish(r, "unexpected")
    /\ UNCHANGED <<posted, delta, balance, masters>>

(* The request ends and its local variables with it.                         *)
Forget(r) ==
    /\ todo' = [todo EXCEPT ![r] = {}]
    /\ item' = [item EXCEPT ![r] = NoItem]
    /\ ledgerIds' = [ledgerIds EXCEPT ![r] = {}]
    /\ snap' = [snap EXCEPT ![r] = [t \in TxIds |-> "none"]]
    /\ known' = [known EXCEPT ![r] = {}]
    /\ plan' = [plan EXCEPT ![r] = NoPlan]
    /\ verdict' = [verdict EXCEPT ![r] = {}]

(* All items done: the receipts go back to the device.                       *)
Reply(r) ==
    /\ pc[r] = "next"
    /\ todo[r] = {}
    /\ pc' = [pc EXCEPT ![r] = "done"]
    /\ told' = told \cup verdict[r]
    /\ Forget(r)
    /\ UNCHANGED <<posted, delta, balance, receipt, masters, faults>>

(* _with_timeout answers 504: the items committed so far stay, the open      *)
(* session rolls back, the device learns no verdict.                         *)
Timeout(r) ==
    /\ r \in Active
    /\ pc' = [pc EXCEPT ![r] = "done"]
    /\ Forget(r)
    /\ UNCHANGED <<posted, delta, balance, receipt, masters, told, faults>>

(* Every request has been served. *)
Quiescent ==
    /\ \A r \in Requests : pc[r] = "done"
    /\ UNCHANGED vars

Step(r) ==
    \/ PrefetchReceipts(r) \/ NextItem(r) \/ LookupLedgerRow(r)
    \/ LookupReceipt(r) \/ Check(r) \/ CommitAmend(r) \/ CommitReject(r)
    \/ CommitPost(r) \/ CommitCollides(r) \/ CommitFails(r)
    \/ EnsureAccepted(r) \/ PersistRejection(r) \/ Reply(r)

Next ==
    \/ \E r \in Requests : Push(r) \/ Step(r) \/ Fault(r) \/ Timeout(r)
    \/ Quiescent

Spec == Init /\ [][Next]_vars

-----------------------------------------------------------------------------
(* Properties. *)

Ledger == INSTANCE LedgerAbs WITH Deltas <- {p.delta : p \in Payloads}

(* Whatever requests interleave, collide, fail or are pushed again, the      *)
(* ledger and the balances behave as LedgerAbs says: each transaction_id is  *)
(* posted at most once and moves its balance exactly once.                   *)
ExactlyOnce == Ledger!LedgerSpec

(* "Current balance is SUM(quantity_delta) of accepted events": what         *)
(* check_integrity recomputes equals what _upsert_stock_balance maintains.   *)
BalanceIsProjection == \A k \in Keys : balance[k] = Ledger!Projection(k)

(* A device told "accepted" drops the event from its outbox, so the ledger   *)
(* must hold the row by then: on every path that answers "accepted" (ledger  *)
(* hit, receipt hit, commit, primary-key collision).                         *)
AcceptedIsPosted == \A t \in TxIds : <<t, "accepted">> \in told => t \in posted

(* An accepted receipt never exists without its ledger row, so the receipt   *)
(* check of step 1b can never answer "accepted" for a movement that is not   *)
(* in the ledger.                                                            *)
AcceptedReceiptIsBacked ==
    \A t \in TxIds : receipt[t].state = "accepted" => t \in posted

(* A stored rejection means the ledger has no such row.                      *)
RejectedIsNotPosted ==
    \A t \in TxIds : receipt[t].state \in Rejections => t \notin posted

(* FR-MOV-008, with one request in the server: whatever edits and reversals  *)
(* have done to the balance before, no decrease is posted that leaves it     *)
(* below zero.                                                               *)
PostedIsCovered ==
    [][\A t \in posted' \ posted :
          delta'[t] < 0 => balance'[KeyOf[t]] >= 0]_vars

(* The lookup answers with the refusal it finds.                             *)
RepeatsRefusal(r) ==
    /\ pc[r] = "lookup" /\ pc'[r] = "next"
    /\ <<item[r].tx, "insufficient">> \in verdict'[r] \ verdict[r]
RefusesInTime ==
    \A r \in Requests :
        RepeatsRefusal(r) =>
            balance[KeyOf[item[r].tx]] + item[r].delta < 0 \/ receipt[item[r].tx].cur < 0

(* A stored "Insufficient stock" is only repeated to a device while the      *)
(* stock still does not cover the payload, or if the balance it quotes was   *)
(* below zero (_stale_domain_rejection_should_retry never looks at such a    *)
(* receipt again): otherwise a sale is not refused for ever once the stock   *)
(* has arrived.                                                              *)
RejectionIsCurrent == [][RefusesInTime]_vars

(* Each item stands on its own (SYNC-012): with no database error and no     *)
(* other request in the server, no item ends in "Unexpected error".          *)
NoUnexpectedError == \A t \in TxIds : <<t, "unexpected">> \notin told

-----------------------------------------------------------------------------
(* The strengthenings the proofs of IngestionProofs use. *)

InSession == {"lookup", "check", "commit", "collided", "failed"}

(* Between opening a session and finishing the item there is an item.        *)
SessionHasItem == \A r \in Requests : pc[r] \in InSession => item[r] \in Payloads

(* Everything a request has seen or concluded to be accepted is in the       *)
(* ledger: acceptance is only ever copied from the ledger, never guessed.    *)
Backed ==
    /\ \A r \in Requests : ledgerIds[r] \subseteq posted
    /\ \A r \in Requests, t \in TxIds : snap[r][t] = "accepted" => t \in posted
    /\ \A r \in Requests, t \in TxIds : <<t, "accepted">> \in verdict[r] => t \in posted
    /\ \A r \in Requests :
          pc[r] = "collided" \/ (pc[r] = "commit" /\ plan[r].op = "amend")
          => item[r].tx \in posted
    /\ AcceptedIsPosted
    /\ AcceptedReceiptIsBacked

(* Without edits a device sends one quantity per id ... *)
OneDeltaPerId == \A p, q \in Payloads : p.tx = q.tx => p.delta = q.delta

(* ... which is then the quantity in the ledger, and the one an open session *)
(* has read there.                                                           *)
LedgerIsPushed ==
    /\ \A t \in posted : \E p \in Payloads : p.tx = t /\ p.delta = delta[t]
    /\ \A r \in Requests :
          pc[r] = "commit" /\ plan[r].op = "amend" => plan[r].old = delta[item[r].tx]
=============================================================================
