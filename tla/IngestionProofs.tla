-------------------------- MODULE IngestionProofs --------------------------
(***************************************************************************)
(* Proofs about Ingestion for every set of transactions, payloads, batches *)
(* and requests, any concurrency and any number of database errors.        *)
(***************************************************************************)
EXTENDS Ingestion, SumTheorems, FiniteSetTheorems, TLAPS

(* Every action of one request, for the case splits below. *)
LEMMA NextCases ==
    ASSUME Next
    PROVE  \/ UNCHANGED vars
           \/ \E r \in Requests :
                 \/ Push(r) \/ PrefetchReceipts(r) \/ NextItem(r)
                 \/ LookupLedgerRow(r) \/ LookupReceipt(r) \/ Check(r)
                 \/ CommitAmend(r) \/ CommitReject(r) \/ CommitPost(r)
                 \/ CommitCollides(r) \/ CommitFails(r) \/ Fault(r)
                 \/ EnsureAccepted(r) \/ PersistRejection(r)
                 \/ Reply(r) \/ Timeout(r)
BY DEF Next, Step, Quiescent

(* _finish and the record() it calls keep the request's variables well typed. *)
LEMMA FinishType ==
    ASSUME TypeOK, NEW r \in Requests, item[r] \in Payloads,
           NEW v \in Verdicts, Finish(r, v)
    PROVE  /\ pc' \in [Requests -> PCs]
           /\ todo' \in [Requests -> SUBSET Payloads]
           /\ item' \in [Requests -> Payloads \cup {NoItem}]
           /\ ledgerIds' \in [Requests -> SUBSET TxIds]
           /\ snap' \in [Requests -> [TxIds -> {"none", "accepted", "rejected"}]]
           /\ known' \in [Requests -> SUBSET Masters]
           /\ plan' \in [Requests -> Plans]
           /\ verdict' \in [Requests -> SUBSET (TxIds \X Verdicts)]
           /\ told' \subseteq TxIds \X Verdicts
<1>1. item[r].tx \in TxIds
  BY PayloadAssumption
<1>2. MasterOf[item[r].tx] \in Masters
  BY <1>1, PayloadAssumption
<1>3. NoPlan \in Plans
  BY DEF NoPlan, Plans
<1>. QED
  BY <1>1, <1>2, <1>3 DEF TypeOK, Finish, PCs

(* Moving on to another label keeps them too. *)
LEMMA GoToType ==
    ASSUME TypeOK, NEW r \in Requests, NEW label \in PCs, GoTo(r, label)
    PROVE  /\ pc' \in [Requests -> PCs]
           /\ todo' \in [Requests -> SUBSET Payloads]
           /\ item' \in [Requests -> Payloads \cup {NoItem}]
           /\ ledgerIds' \in [Requests -> SUBSET TxIds]
           /\ snap' \in [Requests -> [TxIds -> {"none", "accepted", "rejected"}]]
           /\ known' \in [Requests -> SUBSET Masters]
           /\ verdict' \in [Requests -> SUBSET (TxIds \X Verdicts)]
           /\ told' \subseteq TxIds \X Verdicts
BY DEF TypeOK, GoTo

(* The receipts stay well typed however a row is written. *)
LEMMA ReceiptWriteType ==
    ASSUME TypeOK, NEW t \in TxIds, NEW state \in ReceiptStates, NEW cur \in Int
    PROVE  /\ NewReceipt(t, state, cur) \in [TxIds -> Receipts]
           /\ SetReceipt(t, state) \in [TxIds -> Receipts]
<1>1. receipt[t].row \in Nat
  BY DEF TypeOK, Receipts
<1>. QED
  BY <1>1 DEF TypeOK, NewReceipt, SetReceipt, Receipts

-----------------------------------------------------------------------------
(* The initial state. *)
LEMMA InitType == Init => TypeOK /\ SessionHasItem
<1>1. NoPlan \in Plans /\ NoReceipt \in Receipts
  BY DEF NoPlan, Plans, NoReceipt, Receipts, ReceiptStates
<1>. QED
  BY <1>1, PayloadAssumption
     DEF Init, TypeOK, SessionHasItem, InSession, PCs

(* Each action of the write path keeps the types, and a session its item. *)
LEMMA StepType ==
    ASSUME TypeOK, SessionHasItem, [Next]_vars
    PROVE  TypeOK' /\ SessionHasItem'
<1>1. CASE UNCHANGED vars
  BY <1>1 DEF TypeOK, SessionHasItem, vars
<1>2. ASSUME NEW r \in Requests, Push(r)
      PROVE  TypeOK' /\ SessionHasItem'
  BY <1>2, PayloadAssumption DEF Push, TypeOK, SessionHasItem, InSession, PCs
<1>3. ASSUME NEW r \in Requests, PrefetchReceipts(r)
      PROVE  TypeOK' /\ SessionHasItem'
  <2>1. \A t \in TxIds : Snapshot(receipt[t]) \in {"none", "accepted", "rejected"}
    BY DEF Snapshot
  <2>. QED
    BY <1>3, <2>1 DEF PrefetchReceipts, TypeOK, SessionHasItem, InSession, PCs
<1>4. ASSUME NEW r \in Requests, NextItem(r)
      PROVE  TypeOK' /\ SessionHasItem'
  BY <1>4 DEF NextItem, TypeOK, SessionHasItem, InSession, PCs
<1>5. ASSUME NEW r \in Requests, item[r] \in Payloads, LookupLedgerRow(r)
      PROVE  TypeOK' /\ SessionHasItem'
  <2>1. item[r].tx \in TxIds
    BY <1>5, PayloadAssumption
  <2>2. AmendPlan(delta[item[r].tx]) \in Plans
    BY <2>1 DEF TypeOK, AmendPlan, Plans
  <2>. QED
    BY <1>5, <2>2, GoToType
       DEF LookupLedgerRow, GoTo, TypeOK, SessionHasItem, InSession, PCs
<1>6. ASSUME NEW r \in Requests, item[r] \in Payloads, LookupReceipt(r)
      PROVE  TypeOK' /\ SessionHasItem'
  <2>1. item[r].tx \in TxIds
    BY <1>6, PayloadAssumption
  <2>2. NoPlan \in Plans /\ RetryPlan(receipt[item[r].tx].row) \in Plans
    <3>1. receipt[item[r].tx].row \in Nat
      BY <2>1 DEF TypeOK, Receipts
    <3>. QED
      BY <3>1 DEF NoPlan, RetryPlan, Plans
  <2>3. CASE GoTo(r, "check")
    <3>1. plan' \in [Requests -> Plans]
      BY <1>6, <2>2, <2>3 DEF LookupReceipt, GoTo, Finish, TypeOK
    <3>. QED
      BY <1>6, <2>3, <3>1, GoToType
         DEF LookupReceipt, GoTo, TypeOK, SessionHasItem, InSession, PCs
  <2>4. CASE \E v \in Verdicts : Finish(r, v)
    BY <1>6, <2>4, FinishType
       DEF LookupReceipt, Finish, TypeOK, SessionHasItem, InSession
  <2>. QED
    BY <1>6, <2>3, <2>4 DEF LookupReceipt, Verdicts
<1>7. ASSUME NEW r \in Requests, item[r] \in Payloads, Check(r)
      PROVE  TypeOK' /\ SessionHasItem'
  <2>1. item[r].tx \in TxIds /\ KeyOf[item[r].tx] \in Keys
    BY <1>7, PayloadAssumption
  <2>2. plan' \in [Requests -> Plans]
    <3>1. plan[r].stale \in Nat /\ balance[KeyOf[item[r].tx]] \in Int
      BY <2>1 DEF TypeOK, Plans
    <3>. QED
      BY <1>7, <3>1 DEF Check, TypeOK, Plans
  <2>. QED
    BY <1>7, <2>2, GoToType
       DEF Check, GoTo, TypeOK, SessionHasItem, InSession, PCs
<1>8. ASSUME NEW r \in Requests, item[r] \in Payloads, CommitAmend(r)
      PROVE  TypeOK' /\ SessionHasItem'
  <2>1. item[r].tx \in TxIds /\ item[r].delta \in Int
    BY <1>8, PayloadAssumption
  <2>2. delta' \in [TxIds -> Int] /\ balance' \in [Keys -> Int]
    <3>1. plan[r] \in Plans
      BY DEF TypeOK
    <3>2. BalanceShift(r) \in Int
      BY <2>1, <3>1 DEF BalanceShift, Plans
    <3>3. balance[KeyOf[item[r].tx]] + BalanceShift(r) \in Int
      BY <2>1, <3>2, PayloadAssumption DEF TypeOK
    <3>. QED
      BY <1>8, <2>1, <3>3 DEF CommitAmend, TypeOK
  <2>3. receipt' \in [TxIds -> Receipts]
    BY <1>8, <2>1, ReceiptWriteType
       DEF CommitAmend, TypeOK, ReceiptStates, Verdicts
  <2>. QED
    BY <1>8, <2>2, <2>3, FinishType
       DEF CommitAmend, Finish, TypeOK, SessionHasItem, InSession, Verdicts
<1>9. ASSUME NEW r \in Requests, item[r] \in Payloads, CommitReject(r)
      PROVE  TypeOK' /\ SessionHasItem'
  <2>1. item[r].tx \in TxIds /\ MasterOf[item[r].tx] \in Masters
    BY <1>9, PayloadAssumption
  <2>2. plan[r].op \in Verdicts /\ plan[r].op \in ReceiptStates /\ plan[r].cur \in Int
    BY <1>9 DEF CommitReject, TypeOK, Plans, Verdicts, Rejections, ReceiptStates
  <2>3. receipt' \in [TxIds -> Receipts]
    BY <1>9, <2>1, <2>2, ReceiptWriteType DEF CommitReject
  <2>4. masters' \subseteq Masters
    BY <1>9, <2>1 DEF CommitReject, ProvisionedMasters, TypeOK
  <2>. QED
    BY <1>9, <2>2, <2>3, <2>4, FinishType
       DEF CommitReject, Finish, TypeOK, SessionHasItem, InSession
<1>10. ASSUME NEW r \in Requests, item[r] \in Payloads, CommitPost(r)
      PROVE  TypeOK' /\ SessionHasItem'
  <2>1. /\ item[r].tx \in TxIds /\ item[r].delta \in Int
        /\ MasterOf[item[r].tx] \in Masters
    BY <1>10, PayloadAssumption
  <2>2. receipt' \in [TxIds -> Receipts]
    BY <1>10, <2>1, ReceiptWriteType DEF CommitPost, ReceiptStates, Verdicts
  <2>3. masters' \subseteq Masters /\ posted' \subseteq TxIds
    BY <1>10, <2>1 DEF CommitPost, ProvisionedMasters, TypeOK
  <2>4. delta' \in [TxIds -> Int] /\ balance' \in [Keys -> Int]
    <3>1. balance[KeyOf[item[r].tx]] + item[r].delta \in Int
      BY <2>1, PayloadAssumption DEF TypeOK
    <3>. QED
      BY <1>10, <2>1, <3>1 DEF CommitPost, TypeOK
  <2>. QED
    BY <1>10, <2>2, <2>3, <2>4, FinishType
       DEF CommitPost, Finish, TypeOK, SessionHasItem, InSession, Verdicts
<1>11. ASSUME NEW r \in Requests, item[r] \in Payloads,
              CommitCollides(r) \/ CommitFails(r) \/ Fault(r)
      PROVE  TypeOK' /\ SessionHasItem'
  <2>1. NoPlan \in Plans
    BY DEF NoPlan, Plans
  <2>2. \E label \in {"collided", "failed"} : GoTo(r, label)
    BY <1>11 DEF CommitCollides, CommitFails, Fault
  <2>3. /\ UNCHANGED <<posted, delta, balance, receipt, masters>>
        /\ plan' = [plan EXCEPT ![r] = NoPlan]
        /\ faults' \in Nat
    BY <1>11 DEF CommitCollides, CommitFails, Fault, TypeOK
  <2>. QED
    BY <1>11, <2>1, <2>2, <2>3, GoToType
       DEF GoTo, TypeOK, SessionHasItem, InSession, PCs
<1>12. ASSUME NEW r \in Requests, item[r] \in Payloads,
              EnsureAccepted(r) \/ PersistRejection(r)
      PROVE  TypeOK' /\ SessionHasItem'
  <2>1. item[r].tx \in TxIds
    BY <1>12, PayloadAssumption
  <2>2. receipt' \in [TxIds -> Receipts]
    BY <1>12, <2>1, ReceiptWriteType
       DEF EnsureAccepted, PersistRejection, TypeOK, ReceiptStates, Verdicts, Rejections
  <2>3. \E v \in Verdicts : Finish(r, v)
    BY <1>12 DEF EnsureAccepted, PersistRejection, Verdicts, Rejections
  <2>4. UNCHANGED <<posted, delta, balance, masters>> /\ faults' \in Nat
    BY <1>12 DEF EnsureAccepted, PersistRejection, TypeOK
  <2>. QED
    BY <1>12, <2>2, <2>3, <2>4, FinishType
       DEF Finish, TypeOK, SessionHasItem, InSession
<1>13. ASSUME NEW r \in Requests, Reply(r) \/ Timeout(r)
      PROVE  TypeOK' /\ SessionHasItem'
  <2>1. NoPlan \in Plans
    BY DEF NoPlan, Plans
  <2>2. /\ UNCHANGED <<posted, delta, balance, receipt, masters, faults>>
        /\ Forget(r)
        /\ pc' = [pc EXCEPT ![r] = "done"]
        /\ told' \subseteq TxIds \X Verdicts
    BY <1>13 DEF Reply, Timeout, TypeOK
  <2>. QED
    BY <2>1, <2>2 DEF Forget, TypeOK, SessionHasItem, InSession, PCs
<1>14. ASSUME NEW r \in Requests, pc[r] \in InSession
       PROVE  item[r] \in Payloads
  BY <1>14 DEF SessionHasItem
<1>. QED
  <2>1. CASE Next
    BY <2>1, NextCases, <1>1, <1>2, <1>3, <1>4, <1>5, <1>6, <1>7, <1>8, <1>9,
       <1>10, <1>11, <1>12, <1>13, <1>14
       DEF InSession, LookupLedgerRow, LookupReceipt, Check, CommitAmend,
           CommitReject, CommitPost, CommitCollides, CommitFails, Fault,
           EnsureAccepted, PersistRejection
  <2>. QED
    BY <2>1, <1>1

(* TypeOK holds throughout: the tables and the local variables of every      *)
(* request served by ingest_batch stay well typed.                           *)
THEOREM TypeCorrect == Spec => []TypeOK
<1>1. TypeOK /\ SessionHasItem /\ [Next]_vars => (TypeOK /\ SessionHasItem)'
  BY StepType
<1>. QED
  BY InitType, <1>1, PTL DEF Spec

-----------------------------------------------------------------------------
(* Acceptance is never guessed. *)

(* _finish may answer "accepted" once the row is in the ledger. *)
LEMMA FinishBacked ==
    ASSUME TypeOK, Backed, NEW r \in Requests, item[r] \in Payloads,
           NEW v \in Verdicts, Finish(r, v), posted \subseteq posted',
           v = "accepted" => item[r].tx \in posted',
           AcceptedReceiptIsBacked'
    PROVE  Backed'
<1>1. item[r].tx \in TxIds
  BY PayloadAssumption
<1>2. \A q \in Requests : ledgerIds'[q] \subseteq posted'
  BY <1>1 DEF Finish, Backed, TypeOK
<1>3. \A q \in Requests, t \in TxIds : snap'[q][t] = "accepted" => t \in posted'
  BY <1>1 DEF Finish, Backed, TypeOK
<1>4. \A q \in Requests, t \in TxIds :
         <<t, "accepted">> \in verdict'[q] => t \in posted'
  BY <1>1 DEF Finish, Backed, TypeOK
<1>5. \A q \in Requests :
         pc'[q] = "collided" \/ (pc'[q] = "commit" /\ plan'[q].op = "amend")
         => item'[q].tx \in posted'
  BY DEF Finish, Backed, TypeOK
<1>6. AcceptedIsPosted'
  BY DEF Finish, Backed, AcceptedIsPosted
<1>. QED
  BY <1>2, <1>3, <1>4, <1>5, <1>6 DEF Backed

(* Going on with an item changes nothing that was concluded before. *)
LEMMA GoToBacked ==
    ASSUME TypeOK, Backed, NEW r \in Requests, NEW label \in PCs, GoTo(r, label),
           UNCHANGED <<posted, receipt>>,
           \A q \in Requests \ {r} : plan'[q] = plan[q],
           label = "collided" \/ (label = "commit" /\ plan'[r].op = "amend")
           => item[r].tx \in posted
    PROVE  Backed'
<1>1. \A q \in Requests :
         pc'[q] = "collided" \/ (pc'[q] = "commit" /\ plan'[q].op = "amend")
         => item'[q].tx \in posted'
  BY DEF GoTo, Backed, TypeOK
<1>2. AcceptedIsPosted' /\ AcceptedReceiptIsBacked'
  BY DEF GoTo, Backed, AcceptedIsPosted, AcceptedReceiptIsBacked
<1>. QED
  BY <1>1, <1>2 DEF GoTo, Backed

(* A receipt row written for a posted id, or as a rejection, stays backed. *)
LEMMA ReceiptWriteBacked ==
    ASSUME TypeOK, AcceptedReceiptIsBacked, posted \subseteq posted',
           NEW t \in TxIds, NEW state \in ReceiptStates, NEW cur \in Int,
           state = "accepted" => t \in posted',
           receipt' = NewReceipt(t, state, cur) \/ receipt' = SetReceipt(t, state)
    PROVE  AcceptedReceiptIsBacked'
<1>1. receipt'[t].state = state
  BY DEF NewReceipt, SetReceipt, TypeOK
<1>2. \A u \in TxIds \ {t} : receipt'[u] = receipt[u]
  BY DEF NewReceipt, SetReceipt, TypeOK
<1>. QED
  BY <1>1, <1>2 DEF AcceptedReceiptIsBacked

(* Each action keeps every acceptance backed by a ledger row. *)
LEMMA StepBacked ==
    ASSUME TypeOK, SessionHasItem, Backed, [Next]_vars
    PROVE  Backed'
<1>1. CASE UNCHANGED vars
  BY <1>1 DEF Backed, AcceptedIsPosted, AcceptedReceiptIsBacked, vars
<1>2. ASSUME NEW r \in Requests, Push(r)
      PROVE  Backed'
  <2>1. \A q \in Requests : ledgerIds'[q] \subseteq posted'
    BY <1>2 DEF Push, Backed, TypeOK
  <2>2. \A q \in Requests :
           pc'[q] = "collided" \/ (pc'[q] = "commit" /\ plan'[q].op = "amend")
           => item'[q].tx \in posted'
    BY <1>2 DEF Push, Backed, TypeOK
  <2>. QED
    BY <1>2, <2>1, <2>2
       DEF Push, Backed, AcceptedIsPosted, AcceptedReceiptIsBacked
<1>3. ASSUME NEW r \in Requests, PrefetchReceipts(r)
      PROVE  Backed'
  <2>1. \A t \in TxIds : Snapshot(receipt[t]) = "accepted" => t \in posted
    BY DEF Snapshot, Backed, AcceptedReceiptIsBacked
  <2>2. \A q \in Requests, t \in TxIds : snap'[q][t] = "accepted" => t \in posted'
    BY <1>3, <2>1 DEF PrefetchReceipts, Backed, TypeOK
  <2>3. \A q \in Requests :
           pc'[q] = "collided" \/ (pc'[q] = "commit" /\ plan'[q].op = "amend")
           => item'[q].tx \in posted'
    BY <1>3 DEF PrefetchReceipts, Backed, TypeOK
  <2>. QED
    BY <1>3, <2>2, <2>3
       DEF PrefetchReceipts, Backed, AcceptedIsPosted, AcceptedReceiptIsBacked
<1>4. ASSUME NEW r \in Requests, NextItem(r)
      PROVE  Backed'
  <2>1. \A q \in Requests :
           pc'[q] = "collided" \/ (pc'[q] = "commit" /\ plan'[q].op = "amend")
           => item'[q].tx \in posted'
    BY <1>4 DEF NextItem, Backed, TypeOK
  <2>. QED
    BY <1>4, <2>1 DEF NextItem, Backed, AcceptedIsPosted, AcceptedReceiptIsBacked
<1>5. ASSUME NEW r \in Requests, item[r] \in Payloads, LookupLedgerRow(r)
      PROVE  Backed'
  BY <1>5, GoToBacked DEF LookupLedgerRow, PCs, TypeOK
<1>6. ASSUME NEW r \in Requests, item[r] \in Payloads, LookupReceipt(r)
      PROVE  Backed'
  <2>1. item[r].tx \in TxIds
    BY <1>6, PayloadAssumption
  <2>2. CASE GoTo(r, "check") /\ \A q \in Requests \ {r} : plan'[q] = plan[q]
    BY <1>6, <2>2, GoToBacked DEF LookupReceipt, PCs
  <2>3. ASSUME NEW v \in Verdicts, Finish(r, v), v = "accepted" => item[r].tx \in posted
        PROVE  Backed'
    <3>1. AcceptedReceiptIsBacked' /\ posted' = posted
      BY <1>6 DEF LookupReceipt, Backed, AcceptedReceiptIsBacked
    <3>. QED
      BY <1>6, <2>3, <3>1, FinishBacked
  <2>4. snap[r][item[r].tx] = "accepted" \/ receipt[item[r].tx].state = "accepted"
        => item[r].tx \in posted
    BY <2>1 DEF Backed, AcceptedReceiptIsBacked
  <2>5. "accepted" \in Verdicts /\ "accepted" \notin Rejections /\ Rejections \subseteq Verdicts
    BY DEF Verdicts, Rejections
  <2>. QED
    BY <1>6, <2>2, <2>3, <2>4, <2>5 DEF LookupReceipt, TypeOK
<1>7. ASSUME NEW r \in Requests, item[r] \in Payloads, Check(r)
      PROVE  Backed'
  <2>1. plan'[r].op # "amend" /\ \A q \in Requests \ {r} : plan'[q] = plan[q]
    BY <1>7 DEF Check, TypeOK
  <2>. QED
    BY <1>7, <2>1, GoToBacked DEF Check, PCs
<1>8. ASSUME NEW r \in Requests, item[r] \in Payloads, CommitAmend(r)
      PROVE  Backed'
  <2>1. item[r].tx \in TxIds /\ item[r].tx \in posted
    BY <1>8, PayloadAssumption DEF CommitAmend, Backed
  <2>2. AcceptedReceiptIsBacked'
    <3>1. CASE receipt' = receipt
      BY <1>8, <3>1 DEF CommitAmend, Backed, AcceptedReceiptIsBacked
    <3>2. CASE receipt' = SetReceipt(item[r].tx, "accepted")
      BY <1>8, <2>1, <3>2, ReceiptWriteBacked
         DEF CommitAmend, Backed, ReceiptStates, Verdicts
    <3>. QED
      BY <1>8, <3>1, <3>2 DEF CommitAmend
  <2>. QED
    BY <1>8, <2>1, <2>2, FinishBacked DEF CommitAmend, Verdicts
<1>9. ASSUME NEW r \in Requests, item[r] \in Payloads, CommitReject(r)
      PROVE  Backed'
  <2>1. item[r].tx \in TxIds
    BY <1>9, PayloadAssumption
  <2>2. /\ plan[r].op \in Verdicts /\ plan[r].op \in ReceiptStates
        /\ plan[r].op # "accepted" /\ plan[r].cur \in Int
    BY <1>9 DEF CommitReject, TypeOK, Plans, Verdicts, Rejections, ReceiptStates
  <2>3. AcceptedReceiptIsBacked'
    BY <1>9, <2>1, <2>2, ReceiptWriteBacked DEF CommitReject, Backed
  <2>. QED
    BY <1>9, <2>2, <2>3, FinishBacked DEF CommitReject
<1>10. ASSUME NEW r \in Requests, item[r] \in Payloads, CommitPost(r)
      PROVE  Backed'
  <2>1. item[r].tx \in TxIds /\ item[r].tx \in posted' /\ posted \subseteq posted'
    BY <1>10, PayloadAssumption DEF CommitPost
  <2>2. AcceptedReceiptIsBacked'
    BY <1>10, <2>1, ReceiptWriteBacked
       DEF CommitPost, Backed, ReceiptStates, Verdicts
  <2>. QED
    BY <1>10, <2>1, <2>2, FinishBacked DEF CommitPost, Verdicts
<1>11. ASSUME NEW r \in Requests, item[r] \in Payloads,
              CommitCollides(r) \/ CommitFails(r) \/ Fault(r)
      PROVE  Backed'
  <2>1. \A q \in Requests \ {r} : plan'[q] = plan[q]
    BY <1>11 DEF CommitCollides, CommitFails, Fault, TypeOK
  <2>2. CASE CommitCollides(r)
    BY <1>11, <2>1, <2>2, GoToBacked DEF CommitCollides, PostCollides, PCs
  <2>3. CASE CommitFails(r) \/ Fault(r)
    BY <1>11, <2>1, <2>3, GoToBacked DEF CommitFails, Fault, PCs
  <2>. QED
    BY <1>11, <2>2, <2>3
<1>12. ASSUME NEW r \in Requests, item[r] \in Payloads, EnsureAccepted(r)
      PROVE  Backed'
  <2>1. item[r].tx \in TxIds /\ item[r].tx \in posted
    BY <1>12, PayloadAssumption DEF EnsureAccepted, Backed
  <2>2. AcceptedReceiptIsBacked'
    <3>1. CASE receipt' = receipt
      BY <1>12, <3>1 DEF EnsureAccepted, Backed, AcceptedReceiptIsBacked
    <3>2. CASE receipt' = SetReceipt(item[r].tx, "accepted")
      BY <1>12, <2>1, <3>2, ReceiptWriteBacked
         DEF EnsureAccepted, Backed, ReceiptStates, Verdicts
    <3>. QED
      BY <1>12, <3>1, <3>2 DEF EnsureAccepted
  <2>. QED
    BY <1>12, <2>1, <2>2, FinishBacked DEF EnsureAccepted, Verdicts
<1>13. ASSUME NEW r \in Requests, item[r] \in Payloads, PersistRejection(r)
      PROVE  Backed'
  <2>1. item[r].tx \in TxIds
    BY <1>13, PayloadAssumption
  <2>2. AcceptedReceiptIsBacked'
    <3>1. CASE receipt' = receipt
      BY <1>13, <3>1 DEF PersistRejection, Backed, AcceptedReceiptIsBacked
    <3>2. CASE receipt' = SetReceipt(item[r].tx, "unexpected")
      BY <1>13, <2>1, <3>2, ReceiptWriteBacked
         DEF PersistRejection, Backed, ReceiptStates, Verdicts, Rejections
    <3>. QED
      BY <1>13, <3>1, <3>2 DEF PersistRejection
  <2>. QED
    BY <1>13, <2>2, FinishBacked DEF PersistRejection, Verdicts, Rejections
<1>14. ASSUME NEW r \in Requests, Reply(r) \/ Timeout(r)
      PROVE  Backed'
  <2>1. /\ UNCHANGED <<posted, receipt>>
        /\ Forget(r)
        /\ pc' = [pc EXCEPT ![r] = "done"]
        /\ told' \subseteq told \cup verdict[r]
    BY <1>14 DEF Reply, Timeout
  <2>2. AcceptedIsPosted' /\ AcceptedReceiptIsBacked'
    BY <2>1 DEF Backed, AcceptedIsPosted, AcceptedReceiptIsBacked
  <2>3. \A q \in Requests :
           pc'[q] = "collided" \/ (pc'[q] = "commit" /\ plan'[q].op = "amend")
           => item'[q].tx \in posted'
    BY <2>1 DEF Forget, Backed, TypeOK
  <2>4. \A q \in Requests : ledgerIds'[q] \subseteq posted'
    BY <2>1 DEF Forget, Backed, TypeOK
  <2>5. \A q \in Requests, t \in TxIds :
           /\ snap'[q][t] = "accepted" => t \in posted'
           /\ <<t, "accepted">> \in verdict'[q] => t \in posted'
    BY <2>1 DEF Forget, Backed, TypeOK
  <2>. QED
    BY <2>2, <2>3, <2>4, <2>5 DEF Backed
<1>15. ASSUME NEW r \in Requests, pc[r] \in InSession
       PROVE  item[r] \in Payloads
  BY <1>15 DEF SessionHasItem
<1>. QED
  <2>1. CASE Next
    BY <2>1, NextCases, <1>1, <1>2, <1>3, <1>4, <1>5, <1>6, <1>7, <1>8, <1>9,
       <1>10, <1>11, <1>12, <1>13, <1>14, <1>15
       DEF InSession, LookupLedgerRow, LookupReceipt, Check, CommitAmend,
           CommitReject, CommitPost, CommitCollides, CommitFails, Fault,
           EnsureAccepted, PersistRejection
  <2>. QED
    BY <2>1, <1>1

(* A device that was told "accepted" can drop its event: the ledger holds it. *)
(* Every path of ingest_batch that answers "accepted" is covered.            *)
THEOREM AcceptedIsDurable == Spec => [](AcceptedIsPosted /\ AcceptedReceiptIsBacked)
<1>1. Init => Backed
  BY DEF Init, Backed, AcceptedIsPosted, AcceptedReceiptIsBacked, NoReceipt, NoPlan
<1>2. TypeOK /\ SessionHasItem /\ Backed /\ [Next]_vars
      => (TypeOK /\ SessionHasItem /\ Backed)'
  BY StepType, StepBacked
<1>3. Backed => AcceptedIsPosted /\ AcceptedReceiptIsBacked
  BY DEF Backed
<1>. QED
  BY InitType, <1>1, <1>2, <1>3, PTL DEF Spec

(* A stored acceptance, which answers every later push of its id (step 1b of *)
(* the ingestion), always has its ledger row.                                *)
THEOREM ReceiptsAreBacked == Spec => []AcceptedReceiptIsBacked
  BY AcceptedIsDurable, PTL

-----------------------------------------------------------------------------
(* Without edits, the write path implements LedgerAbs. *)

(* What one step does to the ledger: nothing, or one first posting. *)
LEMMA LedgerStep ==
    ASSUME OneDeltaPerId, TypeOK, SessionHasItem, Backed, LedgerIsPushed, [Next]_vars
    PROVE  \/ UNCHANGED <<posted, delta, balance>>
           \/ \E r \in Requests :
                 /\ item[r] \in Payloads
                 /\ Ledger!PostOnce(item[r].tx, item[r].delta)
<1>1. ASSUME NEW r \in Requests, CommitAmend(r)
      PROVE  UNCHANGED <<posted, delta, balance>>
  <2>1. item[r] \in Payloads /\ item[r].tx \in TxIds /\ item[r].tx \in posted
    BY <1>1, PayloadAssumption DEF CommitAmend, SessionHasItem, InSession, Backed
  <2>2. item[r].delta = delta[item[r].tx] /\ plan[r].old = delta[item[r].tx]
    BY <1>1, <2>1 DEF CommitAmend, LedgerIsPushed, OneDeltaPerId
  <2>3. /\ BalanceShift(r) = 0
        /\ balance[KeyOf[item[r].tx]] \in Int
    BY <2>1, <2>2, PayloadAssumption DEF BalanceShift, TypeOK
  <2>. QED
    BY <1>1, <2>2, <2>3 DEF CommitAmend, TypeOK
<1>2. ASSUME NEW r \in Requests, CommitPost(r)
      PROVE  item[r] \in Payloads /\ Ledger!PostOnce(item[r].tx, item[r].delta)
  BY <1>2 DEF CommitPost, PostCollides, MasterInsertable, SessionHasItem, InSession,
              Ledger!PostOnce
<1>3. CASE UNCHANGED vars
  BY <1>3 DEF vars
<1>4. CASE Next
  <2>1. ASSUME NEW r \in Requests,
               \/ Push(r) \/ PrefetchReceipts(r) \/ NextItem(r)
               \/ LookupLedgerRow(r) \/ LookupReceipt(r) \/ Check(r)
               \/ CommitReject(r) \/ CommitCollides(r) \/ CommitFails(r)
               \/ Fault(r) \/ EnsureAccepted(r) \/ PersistRejection(r)
               \/ Reply(r) \/ Timeout(r)
        PROVE  UNCHANGED <<posted, delta, balance>>
    BY <2>1 DEF Push, PrefetchReceipts, NextItem, LookupLedgerRow, LookupReceipt,
                Check, CommitReject, CommitCollides, CommitFails, Fault,
                EnsureAccepted, PersistRejection, Reply, Timeout
  <2>. QED
    BY <1>1, <1>2, <1>3, <1>4, <2>1, NextCases
<1>. QED
  BY <1>3, <1>4

(* A session that goes on to commit an amendment has just read the ledger. *)
LEMMA StepPushed ==
    ASSUME OneDeltaPerId, TypeOK, SessionHasItem, Backed, LedgerIsPushed, [Next]_vars
    PROVE  LedgerIsPushed'
<1>1. \A t \in posted' : \E p \in Payloads : p.tx = t /\ p.delta = delta'[t]
  <2>1. CASE UNCHANGED <<posted, delta, balance>>
    BY <2>1 DEF LedgerIsPushed
  <2>2. ASSUME NEW r \in Requests, item[r] \in Payloads,
               Ledger!PostOnce(item[r].tx, item[r].delta)
        PROVE  \A t \in posted' : \E p \in Payloads : p.tx = t /\ p.delta = delta'[t]
    <3>1. item[r].tx \in TxIds
      BY <2>2, PayloadAssumption
    <3>. QED
      BY <2>2, <3>1 DEF Ledger!PostOnce, LedgerIsPushed, TypeOK
  <2>. QED
    BY <2>1, <2>2, LedgerStep
<1>2. \A t \in posted : delta'[t] = delta[t]
  <2>1. ASSUME NEW r \in Requests, item[r] \in Payloads,
               Ledger!PostOnce(item[r].tx, item[r].delta)
        PROVE  \A t \in posted : delta'[t] = delta[t]
    BY <2>1 DEF Ledger!PostOnce, TypeOK
  <2>. QED
    BY <2>1, LedgerStep
<1>3. ASSUME NEW q \in Requests, pc'[q] = "commit", plan'[q].op = "amend"
      PROVE  plan'[q].old = delta'[item'[q].tx]
  <2>1. CASE pc[q] = "commit" /\ plan'[q] = plan[q] /\ item'[q] = item[q]
    <3>1. item[q].tx \in posted /\ plan[q].old = delta[item[q].tx]
      BY <1>3, <2>1 DEF Backed, LedgerIsPushed
    <3>. QED
      BY <2>1, <3>1, <1>2
  <2>2. ASSUME LookupLedgerRow(q)
        PROVE  plan'[q].old = delta'[item'[q].tx]
    <3>1. plan'[q].old = delta[item[q].tx] /\ UNCHANGED delta /\ item' = item
      BY <2>2 DEF LookupLedgerRow, AmendPlan, GoTo, TypeOK
    <3>. QED
      BY <3>1
  <2>3. \/ pc[q] = "commit" /\ plan'[q] = plan[q] /\ item'[q] = item[q]
        \/ LookupLedgerRow(q)
    <3>1. CASE UNCHANGED vars
      BY <1>3, <3>1 DEF vars
    <3>2. ASSUME NEW r \in Requests, r # q,
                 \/ Push(r) \/ PrefetchReceipts(r) \/ NextItem(r)
                 \/ LookupLedgerRow(r) \/ LookupReceipt(r) \/ Check(r)
                 \/ CommitAmend(r) \/ CommitReject(r) \/ CommitPost(r)
                 \/ CommitCollides(r) \/ CommitFails(r) \/ Fault(r)
                 \/ EnsureAccepted(r) \/ PersistRejection(r)
                 \/ Reply(r) \/ Timeout(r)
          PROVE  pc[q] = "commit" /\ plan'[q] = plan[q] /\ item'[q] = item[q]
      BY <1>3, <3>2
         DEF Push, PrefetchReceipts, NextItem, LookupLedgerRow, LookupReceipt, Check,
             CommitAmend, CommitReject, CommitPost, CommitCollides, CommitFails, Fault,
             EnsureAccepted, PersistRejection, Reply, Timeout, Finish, GoTo, Forget, TypeOK
    <3>3. ASSUME Check(q)
          PROVE  plan'[q].op # "amend"
      BY <3>3 DEF Check, TypeOK
    <3>4. ASSUME \/ Push(q) \/ PrefetchReceipts(q) \/ NextItem(q) \/ LookupReceipt(q)
                 \/ CommitAmend(q) \/ CommitReject(q) \/ CommitPost(q)
                 \/ CommitCollides(q) \/ CommitFails(q) \/ Fault(q)
                 \/ EnsureAccepted(q) \/ PersistRejection(q)
                 \/ Reply(q) \/ Timeout(q)
          PROVE  pc'[q] # "commit"
      BY <3>4
         DEF Push, PrefetchReceipts, NextItem, LookupReceipt,
             CommitAmend, CommitReject, CommitPost, CommitCollides, CommitFails, Fault,
             EnsureAccepted, PersistRejection, Reply, Timeout, Finish, GoTo, TypeOK
    <3>. QED
      BY <1>3, <3>1, <3>2, <3>3, <3>4, NextCases
  <2>. QED
    BY <2>1, <2>2, <2>3
<1>. QED
  BY <1>1, <1>3 DEF LedgerIsPushed

(* Process each event exactly once: when a device never changes the quantity *)
(* of an id, any interleaving of pushes, retries, collisions and failures    *)
(* moves the ledger and the balances as LedgerAbs allows.                    *)
THEOREM ImplementsLedger == OneDeltaPerId => (Spec => ExactlyOnce)
<1> SUFFICES ASSUME OneDeltaPerId
             PROVE  Spec => ExactlyOnce
  OBVIOUS
<1> DEFINE IInv == TypeOK /\ SessionHasItem /\ Backed /\ LedgerIsPushed
<1>1. Init => IInv
  <2>1. Init => Backed /\ LedgerIsPushed
    BY DEF Init, Backed, AcceptedIsPosted, AcceptedReceiptIsBacked, LedgerIsPushed,
           NoReceipt, NoPlan
  <2>. QED
    BY <2>1, InitType
<1>2. IInv /\ [Next]_vars => IInv'
  BY StepType, StepBacked, StepPushed
<1>3. Init => Ledger!LedgerInit
  BY DEF Init, Ledger!LedgerInit
<1>4. IInv /\ [Next]_vars => [Ledger!LedgerNext]_(Ledger!ledgerVars)
  <2> SUFFICES ASSUME IInv, [Next]_vars
               PROVE  [Ledger!LedgerNext]_(Ledger!ledgerVars)
    OBVIOUS
  <2>1. CASE UNCHANGED <<posted, delta, balance>>
    BY <2>1 DEF Ledger!ledgerVars
  <2>2. ASSUME NEW r \in Requests, item[r] \in Payloads,
               Ledger!PostOnce(item[r].tx, item[r].delta)
        PROVE  Ledger!LedgerNext
    <3>1. item[r].tx \in TxIds /\ item[r].delta \in {p.delta : p \in Payloads}
      BY <2>2, PayloadAssumption
    <3>. QED
      BY <2>2, <3>1 DEF Ledger!LedgerNext
  <2>. QED
    BY <2>1, <2>2, LedgerStep
<1>. QED
  <2> HIDE DEF IInv
  <2>. QED
    BY <1>1, <1>2, <1>3, <1>4, PTL DEF Spec, ExactlyOnce, Ledger!LedgerSpec
-----------------------------------------------------------------------------
(* One request in the server at a time.                                      *)
Serial == Concurrency = 1

SoloInv == \A r, s \in Active : r = s

(* What an open session has read is still so when it commits.                *)
FreshInv ==
    \A r \in Requests : pc[r] = "commit" =>
        /\ plan[r].op = "amend" => plan[r].old = delta[item[r].tx]
        /\ plan[r].op = "post" => ~Overdraws(item[r], balance[KeyOf[item[r].tx]])

SerialInv == TypeOK /\ SessionHasItem /\ Backed /\ SoloInv /\ FreshInv

(* No database error, and an invalid payload names rows that exist: the      *)
(* prefetch takes the rows of every item it has seen for existing ones.      *)
Smooth == MaxFaults = 0 /\ \A p \in Payloads : Validates(p) \/ MasterOf[p.tx] \in KnownMasters

(* The payloads a request still has to deal with.                            *)
Ahead(r) == todo[r] \cup (IF pc[r] \in InSession THEN {item[r]} ELSE {})

(* A receipt, like a ledger row, has its master row; a rejection is of a     *)
(* movement the ledger lacks, and none is for an unexpected error.           *)
TablesInv ==
    /\ KnownMasters \subseteq masters
    /\ \A t \in TxIds :
          /\ receipt[t].state # "none" => receipt[t].row # 0
          /\ receipt[t].state # "none" \/ t \in posted => MasterOf[t] \in masters
          /\ receipt[t].state # "unexpected"
    /\ RejectedIsNotPosted

(* The prefetch is what the tables hold, as far as it is still asked.        *)
PrefetchInv ==
    \A r \in Active :
        /\ \A p \in Ahead(r) : p.tx \in posted => p.tx \in ledgerIds[r]
        /\ pc[r] # "prefetch" => /\ known[r] \subseteq masters
                                 /\ \A p \in Ahead(r) : snap[r][p.tx] = Snapshot(receipt[p.tx])

(* Every insert of a session succeeds.                                       *)
InsertsInv ==
    \A r \in Requests :
        /\ pc[r] \notin {"collided", "failed"}
        /\ pc[r] = "check" \/ (pc[r] = "commit" /\ plan[r].op # "amend") =>
              item[r].tx \notin posted /\ ReceiptInsertable(r)
        /\ pc[r] = "commit" /\ plan[r].op # "amend" =>
              MasterInsertable(r) /\ MasterOf[item[r].tx] \in ProvisionedMasters(r)

VerdictsInv == NoUnexpectedError /\ \A r \in Requests, t \in TxIds : <<t, "unexpected">> \notin verdict[r]

SmoothInv == SerialInv /\ TablesInv /\ PrefetchInv /\ InsertsInv /\ VerdictsInv
-----------------------------------------------------------------------------
RequestStep(r) == Push(r) \/ Step(r) \/ Fault(r) \/ Timeout(r)

(* A request's step leaves the other requests alone.                         *)
LEMMA OthersKeep ==
    ASSUME TypeOK, NEW r \in Requests, RequestStep(r), NEW q \in Requests, q # r
    PROVE  /\ pc'[q] = pc[q] /\ todo'[q] = todo[q] /\ item'[q] = item[q] /\ plan'[q] = plan[q]
           /\ verdict'[q] = verdict[q]
  BY DEF RequestStep, Step, Push, PrefetchReceipts, NextItem, LookupLedgerRow, LookupReceipt, Check,
         CommitAmend, CommitReject, CommitPost, CommitCollides, CommitFails, Fault, EnsureAccepted,
         PersistRejection, Reply, Timeout, Finish, GoTo, Forget, TypeOK

(* Where one request is served at a time, nobody else is in the server.      *)
LEMMA SoloStep ==
    ASSUME Serial, TypeOK, SoloInv, NEW r \in Requests, RequestStep(r)
    PROVE  /\ \A q \in Requests : q # r => q \notin Active /\ q \notin Active'
           /\ SoloInv'
<1>1. CASE Push(r)
  <2>1. IsFiniteSet(Active)
    BY PayloadAssumption, FS_Subset DEF Active
  <2>2. Cardinality(Active) \in Nat /\ Cardinality(Active) < 1
    BY <1>1, <2>1, FS_CardinalityType DEF Push, Serial
  <2>3. Active = {}
    BY <2>1, <2>2, FS_EmptySet
  <2> QED
    BY <2>3, OthersKeep DEF Active, SoloInv
<1>2. CASE Step(r) \/ Fault(r) \/ Timeout(r)
  <2>1. r \in Active
    BY <1>2 DEF Active, Step, PrefetchReceipts, NextItem, LookupLedgerRow, LookupReceipt, Check,
         CommitAmend, CommitReject, CommitPost, CommitCollides, CommitFails, Fault, EnsureAccepted,
         PersistRejection, Reply, Timeout
  <2> QED
    BY <2>1, OthersKeep DEF Active, SoloInv
<1> QED
  BY <1>1, <1>2 DEF RequestStep

(* A session gets to its commit from the read of the ledger row or from the  *)
(* check.                                                                    *)
LEMMA CommitReached ==
    ASSUME TypeOK, NEW r \in Requests, RequestStep(r), pc'[r] = "commit"
    PROVE  LookupLedgerRow(r) \/ Check(r)
  BY DEF RequestStep, Step, Push, PrefetchReceipts, NextItem, LookupReceipt,
         CommitAmend, CommitReject, CommitPost, CommitCollides, CommitFails, Fault, EnsureAccepted,
         PersistRejection, Reply, Timeout, Finish, GoTo, Forget, TypeOK

LEMMA FreshStep ==
    ASSUME Serial, TypeOK, SoloInv, NEW r \in Requests, RequestStep(r)
    PROVE  FreshInv'
<1>1. ASSUME NEW q \in Requests, pc'[q] = "commit"
      PROVE  q = r
  BY <1>1, SoloStep DEF Active
<1>2. ASSUME pc'[r] = "commit"
      PROVE  /\ plan'[r].op = "amend" => plan'[r].old = delta'[item'[r].tx]
             /\ plan'[r].op = "post" => ~Overdraws(item'[r], balance'[KeyOf[item'[r].tx]])
  <2>1. CASE LookupLedgerRow(r)
    BY <2>1 DEF LookupLedgerRow, AmendPlan, GoTo, TypeOK
  <2>2. CASE Check(r)
    <3>1. UNCHANGED <<item, balance>>
      BY <2>2 DEF Check, GoTo
    <3>2. plan'[r].op # "amend"
      BY <2>2 DEF Check, TypeOK
    <3>3. plan'[r].op = "post" => ~Overdraws(item[r], balance[KeyOf[item[r].tx]])
      BY <2>2 DEF Check, TypeOK
    <3> QED
      BY <3>1, <3>2, <3>3
  <2> QED
    BY <1>2, <2>1, <2>2, CommitReached
<1> QED
  BY <1>1, <1>2 DEF FreshInv

LEMMA StepSerial == Serial /\ SerialInv /\ [Next]_vars => SerialInv'
<1> SUFFICES ASSUME Serial, SerialInv, [Next]_vars
             PROVE  SerialInv'
  OBVIOUS
<1>1. TypeOK' /\ SessionHasItem' /\ Backed'
  BY StepType, StepBacked DEF SerialInv
<1>2. CASE UNCHANGED vars
  BY <1>1, <1>2 DEF SerialInv, SoloInv, Active, FreshInv, vars
<1>3. ASSUME NEW r \in Requests, RequestStep(r)
      PROVE  SerialInv'
  BY <1>1, <1>3, SoloStep, FreshStep DEF SerialInv
<1> QED
  BY <1>2, <1>3 DEF Next, RequestStep, Quiescent

LEMMA InitSerial == Init => SerialInv
<1>1. Init => Backed
  BY DEF Init, Backed, AcceptedIsPosted, AcceptedReceiptIsBacked, NoReceipt, NoPlan
<1> QED
  BY <1>1, InitType DEF SerialInv, Init, SoloInv, Active, FreshInv

(* With one request at a time edits are no exception: every push, of a new   *)
(* quantity too, moves the ledger and the balance together, once. The        *)
(* instance in which two requests overlap shows that they are one:           *)
(* IngestionRetriedEdit.                                                     *)
LEMMA SerialLedgerStep ==
    ASSUME SerialInv, [Next]_vars
    PROVE  \/ UNCHANGED <<posted, delta, balance>>
           \/ \E r \in Requests :
                 /\ item[r] \in Payloads
                 /\ \/ Ledger!PostOnce(item[r].tx, item[r].delta)
                    \/ Ledger!Restate(item[r].tx, item[r].delta)
<1>1. ASSUME NEW r \in Requests, CommitAmend(r)
      PROVE  item[r] \in Payloads /\ Ledger!Restate(item[r].tx, item[r].delta)
  <2>1. /\ item[r] \in Payloads /\ item[r].tx \in TxIds /\ item[r].delta \in Int
        /\ item[r].tx \in posted /\ plan[r].old = delta[item[r].tx]
    BY <1>1, PayloadAssumption DEF CommitAmend, SerialInv, SessionHasItem, InSession, Backed, FreshInv
  <2>2. KeyOf[item[r].tx] \in Keys /\ balance[KeyOf[item[r].tx]] \in Int /\ delta[item[r].tx] \in Int
    BY <2>1, PayloadAssumption DEF SerialInv, TypeOK
  <2>3. delta' = [delta EXCEPT ![item[r].tx] = item[r].delta]
    BY <1>1, <2>1 DEF CommitAmend
  <2>4. balance' = [balance EXCEPT ![KeyOf[item[r].tx]] = @ + item[r].delta - delta[item[r].tx]]
    BY <1>1, <2>1, <2>2 DEF CommitAmend, BalanceShift
  <2> QED
    BY <1>1, <2>1, <2>3, <2>4 DEF CommitAmend, Ledger!Restate
<1>2. ASSUME NEW r \in Requests, CommitPost(r)
      PROVE  item[r] \in Payloads /\ Ledger!PostOnce(item[r].tx, item[r].delta)
  BY <1>2 DEF CommitPost, PostCollides, MasterInsertable, SerialInv, SessionHasItem, InSession,
              Ledger!PostOnce
<1>3. CASE UNCHANGED vars
  BY <1>3 DEF vars
<1>4. ASSUME NEW r \in Requests,
             \/ Push(r) \/ PrefetchReceipts(r) \/ NextItem(r)
             \/ LookupLedgerRow(r) \/ LookupReceipt(r) \/ Check(r)
             \/ CommitReject(r) \/ CommitCollides(r) \/ CommitFails(r)
             \/ Fault(r) \/ EnsureAccepted(r) \/ PersistRejection(r)
             \/ Reply(r) \/ Timeout(r)
      PROVE  UNCHANGED <<posted, delta, balance>>
  BY <1>4 DEF Push, PrefetchReceipts, NextItem, LookupLedgerRow, LookupReceipt,
              Check, CommitReject, CommitCollides, CommitFails, Fault,
              EnsureAccepted, PersistRejection, Reply, Timeout
<1> QED
  BY <1>1, <1>2, <1>3, <1>4, NextCases

(* One request at a time implements LedgerAbs, edits included.               *)
THEOREM SerialImplementsLedger == Serial => (Spec => ExactlyOnce)
<1> SUFFICES ASSUME Serial
             PROVE  Spec => ExactlyOnce
  OBVIOUS
<1>1. Init => SerialInv
  BY InitSerial
<1>2. SerialInv /\ [Next]_vars => SerialInv'
  BY StepSerial
<1>3. Init => Ledger!LedgerInit
  BY DEF Init, Ledger!LedgerInit
<1>4. SerialInv /\ [Next]_vars => [Ledger!LedgerNext]_(Ledger!ledgerVars)
  <2> SUFFICES ASSUME SerialInv, [Next]_vars
               PROVE  [Ledger!LedgerNext]_(Ledger!ledgerVars)
    OBVIOUS
  <2>1. CASE UNCHANGED <<posted, delta, balance>>
    BY <2>1 DEF Ledger!ledgerVars
  <2>2. ASSUME NEW r \in Requests, item[r] \in Payloads,
               Ledger!PostOnce(item[r].tx, item[r].delta) \/ Ledger!Restate(item[r].tx, item[r].delta)
        PROVE  Ledger!LedgerNext
    <3>1. item[r].tx \in TxIds /\ item[r].delta \in {p.delta : p \in Payloads}
      BY <2>2, PayloadAssumption
    <3> QED
      BY <2>2, <3>1 DEF Ledger!LedgerNext
  <2> QED
    BY <2>1, <2>2, SerialLedgerStep
<1> QED
  BY <1>1, <1>2, <1>3, <1>4, PTL DEF Spec, ExactlyOnce, Ledger!LedgerSpec

(* FR-MOV-008: no decrease is posted that leaves its balance below zero,     *)
(* whatever edits and reversals have done to the balance before, as long as  *)
(* one request is served at a time.                                          *)
THEOREM DecreasesAreCovered == Serial => (Spec => PostedIsCovered)
<1> SUFFICES ASSUME Serial
             PROVE  Spec => PostedIsCovered
  OBVIOUS
<1>1. Init => SerialInv
  BY InitSerial
<1>2. SerialInv /\ [Next]_vars => SerialInv'
  BY StepSerial
<1>3. SerialInv /\ [Next]_vars =>
          [\A t \in posted' \ posted : delta'[t] < 0 => balance'[KeyOf[t]] >= 0]_vars
  <2> SUFFICES ASSUME SerialInv, [Next]_vars, NEW t \in posted' \ posted, delta'[t] < 0
               PROVE  balance'[KeyOf[t]] >= 0
    OBVIOUS
  <2>1. PICK r \in Requests : CommitPost(r)
    BY NextCases DEF Push, PrefetchReceipts, NextItem, LookupLedgerRow, LookupReceipt, Check, CommitAmend,
       CommitReject, CommitCollides, CommitFails, Fault, EnsureAccepted, PersistRejection, Reply, Timeout, vars
  <2>2. /\ item[r] \in Payloads /\ item[r].tx \in TxIds /\ item[r].delta \in Int
        /\ KeyOf[item[r].tx] \in Keys /\ balance[KeyOf[item[r].tx]] \in Int
    BY <2>1, PayloadAssumption DEF CommitPost, SerialInv, TypeOK, SessionHasItem, InSession
  <2>3. ~Overdraws(item[r], balance[KeyOf[item[r].tx]])
    BY <2>1 DEF CommitPost, SerialInv, FreshInv
  <2>4. t = item[r].tx /\ delta'[t] = item[r].delta /\ balance'[KeyOf[t]] = balance[KeyOf[t]] + item[r].delta
    BY <2>1, <2>2 DEF CommitPost, SerialInv, TypeOK
  <2> QED
    BY <2>2, <2>3, <2>4 DEF Overdraws
<1> QED
  BY <1>1, <1>2, <1>3, PTL DEF Spec, PostedIsCovered
-----------------------------------------------------------------------------
(* What the parts of SmoothInv say of the requests that the step is not of.  *)
LEMMA SmoothOthers ==
    ASSUME Serial, SmoothInv, NEW r \in Requests, RequestStep(r)
    PROVE  \A q \in Requests : q # r =>
              /\ q \notin Active'
              /\ pc'[q] \notin {"collided", "failed", "check", "commit"}
              /\ \A t \in TxIds : <<t, "unexpected">> \notin verdict'[q]
<1>1. \A q \in Requests : q # r => q \notin Active' /\ verdict'[q] = verdict[q]
  BY SoloStep, OthersKeep DEF SmoothInv, SerialInv
<1> QED
  BY <1>1 DEF Active, SmoothInv, VerdictsInv

(* The end of an item: its outcome is folded back into the prefetch.         *)
LEMMA FinishSmooth ==
    ASSUME Serial, SmoothInv, TypeOK', NEW r \in Requests, RequestStep(r), item[r] \in Payloads,
           NEW v \in Verdicts, v # "unexpected", Finish(r, v), pc[r] \in InSession,
           masters \subseteq masters', MasterOf[item[r].tx] \in masters',
           \A t \in TxIds \ {item[r].tx} : receipt'[t] = receipt[t],
           Snapshot(receipt'[item[r].tx]) = IF v = "accepted" THEN "accepted" ELSE "rejected",
           posted' \subseteq posted \cup (IF v = "accepted" THEN {item[r].tx} ELSE {})
    PROVE  PrefetchInv' /\ InsertsInv' /\ VerdictsInv'
<1> USE DEF SmoothInv, SerialInv
<1>1. /\ pc'[r] = "next" /\ todo' = todo /\ told' = told
      /\ verdict'[r] = verdict[r] \cup {<<item[r].tx, v>>}
      /\ ledgerIds'[r] = IF v = "accepted" THEN ledgerIds[r] \cup {item[r].tx} ELSE ledgerIds[r]
      /\ known'[r] = known[r] \cup {MasterOf[item[r].tx]}
      /\ \A t \in TxIds \ {item[r].tx} : snap'[r][t] = snap[r][t]
      /\ snap'[r][item[r].tx] = IF v = "accepted" THEN "accepted" ELSE "rejected"
  BY PayloadAssumption DEF Finish, TypeOK
<1>2. r \in Active /\ pc[r] # "prefetch"
  BY DEF Active, InSession
<1>3. Ahead(r)' = todo[r] /\ todo[r] \subseteq Ahead(r) /\ item[r] \in Ahead(r)
  BY <1>1 DEF Ahead, InSession
<1>4. \A p \in todo[r] : p.tx \in TxIds
  BY PayloadAssumption DEF TypeOK
<1>5. ASSUME NEW p \in todo[r]
      PROVE  /\ p.tx \in posted' => p.tx \in ledgerIds'[r]
             /\ snap'[r][p.tx] = Snapshot(receipt'[p.tx])
  <2>1. CASE p.tx = item[r].tx
    <3>1. p.tx \in posted' => p.tx \in ledgerIds'[r]
      BY <1>1, <1>2, <1>3, <2>1 DEF PrefetchInv
    <3> QED
      BY <1>1, <2>1, <3>1
  <2>2. CASE p.tx # item[r].tx
    <3>1. p.tx \in posted' => p.tx \in ledgerIds'[r]
      BY <1>1, <1>2, <1>3, <2>2 DEF PrefetchInv
    <3>2. snap[r][p.tx] = Snapshot(receipt[p.tx])
      BY <1>2, <1>3 DEF PrefetchInv
    <3> QED
      BY <1>1, <1>4, <2>2, <3>1, <3>2
  <2> QED
    BY <2>1, <2>2
<1>6. known'[r] \subseteq masters'
  BY <1>1, <1>2 DEF PrefetchInv
<1>7. PrefetchInv'
  BY <1>3, <1>5, <1>6, SmoothOthers DEF PrefetchInv, Active
<1>8. InsertsInv'
  BY <1>1, SmoothOthers DEF InsertsInv
<1>9. VerdictsInv'
  BY <1>1, SmoothOthers DEF VerdictsInv, NoUnexpectedError
<1> QED
  BY <1>7, <1>8, <1>9

(* A step inside the session, before its commit.                             *)
LEMMA GoToSmooth ==
    ASSUME Serial, SmoothInv, NEW r \in Requests, RequestStep(r), pc[r] \in InSession,
           NEW label \in {"check", "commit"}, GoTo(r, label), UNCHANGED <<posted, receipt, masters>>
    PROVE  TablesInv' /\ PrefetchInv' /\ VerdictsInv'
<1> USE DEF SmoothInv, SerialInv
<1>1. pc'[r] = label /\ UNCHANGED <<todo, item, ledgerIds, snap, known, verdict, told>>
  BY DEF GoTo, TypeOK
<1>2. r \in Active /\ Ahead(r)' = Ahead(r) /\ pc[r] # "prefetch"
  BY <1>1 DEF Active, Ahead, InSession
<1>3. PrefetchInv'
  <2>1. /\ \A p \in Ahead(r) : p.tx \in posted' => p.tx \in ledgerIds'[r]
        /\ known'[r] \subseteq masters'
        /\ \A p \in Ahead(r) : snap'[r][p.tx] = Snapshot(receipt'[p.tx])
    BY <1>1, <1>2 DEF PrefetchInv
  <2> QED
    BY <1>2, <2>1, SmoothOthers DEF PrefetchInv, Active
<1>4. TablesInv' /\ VerdictsInv'
  BY <1>1 DEF TablesInv, RejectedIsNotPosted, VerdictsInv, NoUnexpectedError
<1> QED
  BY <1>3, <1>4

LEMMA LookupSmooth ==
    ASSUME Serial, Smooth, SmoothInv, TypeOK', NEW r \in Requests, LookupLedgerRow(r) \/ LookupReceipt(r)
    PROVE  TablesInv' /\ PrefetchInv' /\ InsertsInv' /\ VerdictsInv'
<1> USE DEF SmoothInv, SerialInv
<1>1. RequestStep(r)
  BY DEF RequestStep, Step
<1>2. /\ pc[r] = "lookup" /\ pc[r] \in InSession /\ UNCHANGED <<posted, receipt, masters>>
      /\ item[r] \in Payloads /\ item[r].tx \in TxIds
  BY PayloadAssumption DEF LookupLedgerRow, LookupReceipt, InSession, SessionHasItem
<1>3. /\ item[r].tx \in posted => item[r].tx \in ledgerIds[r]
      /\ snap[r][item[r].tx] = Snapshot(receipt[item[r].tx])
  BY <1>2 DEF PrefetchInv, Ahead, Active
<1>4. CASE LookupLedgerRow(r)
  <2>1. GoTo(r, "commit") /\ plan'[r].op = "amend" /\ pc'[r] = "commit"
    BY <1>4 DEF LookupLedgerRow, AmendPlan, GoTo, TypeOK
  <2>2. InsertsInv'
    BY <1>1, <2>1, SmoothOthers DEF InsertsInv
  <2> QED
    BY <1>1, <1>2, <2>1, <2>2, GoToSmooth
<1>5. ASSUME LookupReceipt(r), GoTo(r, "check")
      PROVE  TablesInv' /\ PrefetchInv' /\ InsertsInv' /\ VerdictsInv'
  <2>1. pc'[r] = "check" /\ item' = item
    BY <1>5 DEF GoTo, TypeOK
  <2>2. item[r].tx \notin posted
    BY <1>3, <1>5 DEF LookupReceipt
  <2>3. receipt[item[r].tx].state = "none" \/ (plan'[r].stale # 0 /\ receipt[item[r].tx].row = plan'[r].stale)
    <3>1. CASE receipt[item[r].tx].state = "none"
      BY <3>1
    <3>2. CASE receipt[item[r].tx].state # "none"
      <4>1. snap[r][item[r].tx] # "none"
        BY <1>3, <3>2 DEF Snapshot
      <4>2. plan' = [plan EXCEPT ![r] = RetryPlan(receipt[item[r].tx].row)]
        BY <1>5, <2>1, <3>2, <4>1, <1>2 DEF LookupReceipt, Finish, TypeOK
      <4>3. plan'[r].stale = receipt[item[r].tx].row
        BY <4>2 DEF RetryPlan, TypeOK
      <4> QED
        BY <1>2, <3>2, <4>3 DEF TablesInv
    <3> QED
      BY <3>1, <3>2
  <2>4. InsertsInv'
    BY <1>1, <1>2, <2>1, <2>2, <2>3, SmoothOthers DEF InsertsInv, ReceiptInsertable
  <2> QED
    BY <1>1, <1>2, <1>5, <2>4, GoToSmooth
<1>6. ASSUME LookupReceipt(r), ~GoTo(r, "check")
      PROVE  TablesInv' /\ PrefetchInv' /\ InsertsInv' /\ VerdictsInv'
  <2>1. item[r].tx \notin posted
    BY <1>3, <1>6 DEF LookupReceipt
  <2>2. receipt[item[r].tx].state # "accepted"
    BY <1>2, <2>1 DEF Backed, AcceptedReceiptIsBacked
  <2>3. PICK v : v = receipt[item[r].tx].state
    OBVIOUS
  <2>4. v \in Rejections /\ Finish(r, v)
    BY <1>3, <1>6, <2>2, <2>3 DEF LookupReceipt, Snapshot
  <2>5. v # "unexpected" /\ v \in Verdicts /\ v # "accepted" /\ MasterOf[item[r].tx] \in masters
    BY <1>2, <2>2, <2>3, <2>4 DEF TablesInv, Verdicts, Rejections
  <2>6. Snapshot(receipt'[item[r].tx]) = "rejected"
    BY <1>2, <2>3, <2>4, <2>5 DEF Snapshot, Rejections
  <2>7. TablesInv'
    BY <1>2 DEF TablesInv, RejectedIsNotPosted
  <2> QED
    BY <1>1, <1>2, <2>4, <2>5, <2>6, <2>7, FinishSmooth
<1> QED
  BY <1>4, <1>5, <1>6

LEMMA CheckSmooth ==
    ASSUME Serial, Smooth, SmoothInv, NEW r \in Requests, Check(r)
    PROVE  TablesInv' /\ PrefetchInv' /\ InsertsInv' /\ VerdictsInv'
<1> USE DEF SmoothInv, SerialInv
<1>1. RequestStep(r)
  BY DEF RequestStep, Step
<1>2. /\ pc[r] = "check" /\ pc[r] \in InSession /\ UNCHANGED <<posted, receipt, masters>>
      /\ item[r] \in Payloads /\ GoTo(r, "commit")
  BY DEF Check, InSession, SessionHasItem
<1>3. pc'[r] = "commit" /\ item' = item
  BY <1>2 DEF GoTo, TypeOK
<1>4. PICK op : /\ op = "invalid" => ~Validates(item[r])
                /\ plan'[r] = [op |-> op, old |-> 0, stale |-> plan[r].stale,
                               cur |-> IF op = "insufficient" THEN balance[KeyOf[item[r].tx]] ELSE 0,
                               provision |-> /\ op # "invalid" /\ MasterOf[item[r].tx] \notin known[r]
                                             /\ MasterOf[item[r].tx] \notin masters]
  <2>1. PICK op : op = CASE ~Validates(item[r]) -> "invalid"
                         [] Validates(item[r]) /\ Overdraws(item[r], balance[KeyOf[item[r].tx]]) -> "insufficient"
                         [] OTHER -> "post"
    OBVIOUS
  <2>2. op = "invalid" => ~Validates(item[r])
    BY <2>1
  <2> QED
    BY <2>1, <2>2 DEF Check, TypeOK
<1>5. plan'[r].provision => MasterOf[item[r].tx] \notin masters
  BY <1>4
<1>6. MasterOf[item[r].tx] \in masters \/ plan'[r].provision
  <2>1. known[r] \subseteq masters
    BY <1>2 DEF PrefetchInv, Active
  <2>2. op = "invalid" => MasterOf[item[r].tx] \in masters
    BY <1>2, <1>4 DEF Smooth, TablesInv
  <2> QED
    BY <1>4, <2>1, <2>2
<1>7. plan'[r].stale = plan[r].stale
  BY <1>4
<1>8. InsertsInv'
  BY <1>1, <1>2, <1>3, <1>5, <1>6, <1>7, SmoothOthers
     DEF InsertsInv, ReceiptInsertable, MasterInsertable, ProvisionedMasters
<1> QED
  BY <1>1, <1>2, <1>8, GoToSmooth

LEMMA CommitSmooth ==
    ASSUME Serial, Smooth, SmoothInv, TypeOK', NEW r \in Requests,
           CommitAmend(r) \/ CommitReject(r) \/ CommitPost(r)
    PROVE  TablesInv' /\ PrefetchInv' /\ InsertsInv' /\ VerdictsInv'
<1> USE DEF SmoothInv, SerialInv
<1>1. RequestStep(r)
  BY DEF RequestStep, Step
<1>2. PICK t \in TxIds : t = item[r].tx
  BY PayloadAssumption DEF CommitAmend, CommitReject, CommitPost, SessionHasItem, InSession
<1>3. /\ pc[r] = "commit" /\ pc[r] \in InSession /\ item[r] \in Payloads
      /\ snap[r][t] = Snapshot(receipt[t])
      /\ receipt \in [TxIds -> Receipts] /\ receipt[t].row \in Nat
  BY <1>2 DEF CommitAmend, CommitReject, CommitPost, SessionHasItem, InSession, PrefetchInv, Ahead, Active,
              TypeOK, Receipts
<1>4. CASE CommitAmend(r)
  <2>1. /\ t \in posted /\ UNCHANGED <<posted, masters>> /\ Finish(r, "accepted")
        /\ receipt' = IF snap[r][t] = "accepted" \/ receipt[t].state = "accepted"
                      THEN receipt ELSE SetReceipt(t, "accepted")
    BY <1>2, <1>4 DEF CommitAmend, Backed
  <2>2. /\ receipt'[t].state = "accepted" /\ receipt'[t].row # 0
        /\ \A u \in TxIds \ {t} : receipt'[u] = receipt[u]
    <3>1. CASE receipt[t].state = "accepted"
      BY <2>1, <3>1 DEF TablesInv
    <3>2. CASE receipt[t].state # "accepted"
      <4>1. receipt' = SetReceipt(t, "accepted")
        BY <1>3, <2>1, <3>2 DEF Snapshot
      <4> QED
        BY <1>3, <4>1 DEF SetReceipt, TablesInv
    <3> QED
      BY <3>1, <3>2
  <2>3. MasterOf[t] \in masters
    BY <2>1 DEF TablesInv
  <2>4. TablesInv'
    BY <2>1, <2>2, <2>3 DEF TablesInv, RejectedIsNotPosted, Rejections
  <2>5. Snapshot(receipt'[t]) = "accepted"
    BY <2>2 DEF Snapshot
  <2> QED
    BY <1>1, <1>2, <1>3, <2>1, <2>2, <2>3, <2>4, <2>5, FinishSmooth DEF Verdicts
<1>5. ASSUME CommitReject(r) \/ CommitPost(r)
      PROVE  TablesInv' /\ PrefetchInv' /\ InsertsInv' /\ VerdictsInv'
  <2>1. PICK v \in {"invalid", "insufficient", "accepted"} :
           /\ Finish(r, v) /\ \E cur : receipt' = NewReceipt(t, v, cur)
           /\ posted' = IF v = "accepted" THEN posted \cup {t} ELSE posted
           /\ masters' = ProvisionedMasters(r)
    <3>1. CASE CommitReject(r)
      <4>1. plan[r].op \in {"invalid", "insufficient"}
        BY <3>1 DEF CommitReject
      <4> QED
        BY <1>2, <3>1, <4>1 DEF CommitReject
    <3>2. CASE CommitPost(r)
      BY <1>2, <3>2 DEF CommitPost
    <3> QED
      BY <1>5, <3>1, <3>2
  <2>2. /\ plan[r].op # "amend" /\ t \notin posted /\ MasterOf[t] \in masters'
        /\ masters \subseteq masters'
    BY <1>2, <1>3, <1>5, <2>1 DEF CommitReject, CommitPost, InsertsInv, ProvisionedMasters
  <2>3. /\ receipt'[t].state = v /\ receipt'[t].row # 0
        /\ \A u \in TxIds \ {t} : receipt'[u] = receipt[u]
    BY <1>3, <2>1 DEF NewReceipt
  <2>4. TablesInv'
    <3>1. \A u \in TxIds : receipt'[u].state \in Rejections => u \notin posted'
      <4>1. v \in Rejections => t \notin posted'
        BY <2>1, <2>2 DEF Rejections
      <4> QED
        BY <2>1, <2>3, <4>1 DEF TablesInv, RejectedIsNotPosted
    <3>2. \A u \in TxIds : /\ receipt'[u].state # "none" => receipt'[u].row # 0
                           /\ receipt'[u].state # "none" \/ u \in posted' => MasterOf[u] \in masters'
                           /\ receipt'[u].state # "unexpected"
      BY <2>1, <2>2, <2>3 DEF TablesInv
    <3> QED
      BY <2>2, <3>1, <3>2 DEF TablesInv, RejectedIsNotPosted
  <2>5. Snapshot(receipt'[t]) = IF v = "accepted" THEN "accepted" ELSE "rejected"
    BY <2>3 DEF Snapshot
  <2>6. posted' \subseteq posted \cup (IF v = "accepted" THEN {t} ELSE {})
    BY <2>1
  <2>7. v \in Verdicts /\ v # "unexpected"
    BY DEF Verdicts, Rejections
  <2> QED
    BY <1>1, <1>2, <1>3, <2>1, <2>2, <2>3, <2>4, <2>5, <2>6, <2>7, FinishSmooth
<1> QED
  BY <1>4, <1>5

(* No session fails.                                                         *)
LEMMA NothingFails ==
    ASSUME Smooth, SmoothInv, NEW r \in Requests
    PROVE  ~(CommitCollides(r) \/ CommitFails(r) \/ Fault(r) \/ EnsureAccepted(r) \/ PersistRejection(r))
<1> USE DEF SmoothInv, SerialInv
<1>1. ~(EnsureAccepted(r) \/ PersistRejection(r))
  BY DEF EnsureAccepted, PersistRejection, InsertsInv
<1>2. ~Fault(r)
  BY DEF Fault, Smooth, TypeOK
<1>3. ~CommitCollides(r)
  BY DEF CommitCollides, PostCollides, InsertsInv
<1>4. ASSUME CommitFails(r)
      PROVE  FALSE
  <2>1. item[r] \in Payloads /\ pc[r] = "commit" /\ r \in Active /\ item[r] \in Ahead(r)
    BY <1>4 DEF CommitFails, SessionHasItem, InSession, Active, Ahead
  <2>2. snap[r][item[r].tx] = Snapshot(receipt[item[r].tx])
    BY <2>1 DEF PrefetchInv
  <2>3. snap[r][item[r].tx] = "none" => receipt[item[r].tx].state = "none"
    BY <2>2 DEF Snapshot
  <2>4. plan[r].op # "amend" => /\ ReceiptInsertable(r) /\ MasterInsertable(r)
                                /\ MasterOf[item[r].tx] \in ProvisionedMasters(r)
    BY <2>1 DEF InsertsInv
  <2> QED
    BY <1>4, <2>3, <2>4 DEF CommitFails
<1> QED
  BY <1>1, <1>2, <1>3, <1>4

LEMMA BatchSmooth ==
    ASSUME Serial, SmoothInv, NEW r \in Requests,
           Push(r) \/ PrefetchReceipts(r) \/ NextItem(r) \/ Reply(r) \/ Timeout(r)
    PROVE  TablesInv' /\ PrefetchInv' /\ InsertsInv' /\ VerdictsInv'
<1> USE DEF SmoothInv, SerialInv
<1>1. RequestStep(r)
  BY DEF RequestStep, Step
<1>2. UNCHANGED <<posted, receipt, masters>>
  BY DEF Push, PrefetchReceipts, NextItem, Reply, Timeout
<1>3. TablesInv'
  BY <1>2 DEF TablesInv, RejectedIsNotPosted
<1>4. pc'[r] \in {"prefetch", "next", "lookup", "done"}
  BY DEF Push, PrefetchReceipts, NextItem, Reply, Timeout, TypeOK
<1>5. InsertsInv'
  BY <1>1, <1>4, SmoothOthers DEF InsertsInv
<1>6. VerdictsInv'
  <2>1. told' \subseteq told \cup verdict[r] /\ verdict'[r] \subseteq verdict[r]
    BY DEF Push, PrefetchReceipts, NextItem, Reply, Timeout, Forget, TypeOK
  <2> QED
    BY <1>1, <2>1, SmoothOthers DEF VerdictsInv, NoUnexpectedError
<1>7. PrefetchInv'
  <2> SUFFICES ASSUME pc'[r] # "done"
               PROVE  /\ \A p \in Ahead(r)' : p.tx \in posted => p.tx \in ledgerIds'[r]
                      /\ pc'[r] # "prefetch" => /\ known'[r] \subseteq masters
                                                /\ \A p \in Ahead(r)' : snap'[r][p.tx] = Snapshot(receipt[p.tx])
    BY <1>1, <1>2, SmoothOthers DEF PrefetchInv, Active
  <2>1. CASE Push(r)
    <3>1. PICK b \in Batches : todo'[r] = b /\ ledgerIds'[r] = posted \cap {p.tx : p \in b}
      BY <2>1 DEF Push, TypeOK
    <3>2. pc'[r] = "prefetch" /\ Ahead(r)' = b
      BY <2>1, <3>1 DEF Push, TypeOK, Ahead, InSession
    <3> QED
      BY <3>1, <3>2
  <2>2. CASE PrefetchReceipts(r)
    <3>1. pc[r] = "prefetch" /\ pc'[r] = "next" /\ todo' = todo /\ ledgerIds' = ledgerIds
      BY <2>2 DEF PrefetchReceipts, TypeOK
    <3>2. Ahead(r)' = todo[r] /\ Ahead(r) = todo[r] /\ r \in Active
      BY <3>1 DEF Ahead, InSession, Active
    <3>3. \A p \in todo[r] : p.tx \in TxIds
      BY PayloadAssumption DEF TypeOK
    <3>4. known'[r] \subseteq masters /\ \A p \in todo[r] : snap'[r][p.tx] = Snapshot(receipt[p.tx])
      BY <2>2, <3>3 DEF PrefetchReceipts, TypeOK
    <3> QED
      BY <3>1, <3>2, <3>4 DEF PrefetchInv
  <2>3. CASE NextItem(r)
    <3>1. PICK p \in todo[r] : item'[r] = p /\ todo'[r] = todo[r] \ {p}
      BY <2>3 DEF NextItem, TypeOK
    <3>2. pc[r] = "next" /\ pc'[r] = "lookup" /\ UNCHANGED <<ledgerIds, snap, known>>
      BY <2>3 DEF NextItem, TypeOK
    <3>3. Ahead(r)' \subseteq todo[r] /\ Ahead(r) = todo[r] /\ r \in Active
      BY <3>1, <3>2 DEF Ahead, InSession, Active
    <3> QED
      BY <3>2, <3>3 DEF PrefetchInv
  <2>4. CASE Reply(r) \/ Timeout(r)
    BY <2>4 DEF Reply, Timeout, TypeOK
  <2> QED
    BY <2>1, <2>2, <2>3, <2>4
<1> QED
  BY <1>3, <1>5, <1>6, <1>7

LEMMA StepSmooth == Serial /\ Smooth /\ SmoothInv /\ [Next]_vars => SmoothInv'
<1> SUFFICES ASSUME Serial, Smooth, SmoothInv, [Next]_vars
             PROVE  SmoothInv'
  OBVIOUS
<1>1. SerialInv' /\ TypeOK'
  BY StepSerial DEF SmoothInv, SerialInv
<1>2. CASE UNCHANGED vars
  <2>1. TablesInv' /\ VerdictsInv'
    BY <1>2 DEF SmoothInv, TablesInv, RejectedIsNotPosted, VerdictsInv, NoUnexpectedError, vars
  <2>2. PrefetchInv'
    BY <1>2 DEF SmoothInv, PrefetchInv, Ahead, Active, vars
  <2>3. InsertsInv'
    BY <1>2 DEF SmoothInv, InsertsInv, ReceiptInsertable, MasterInsertable, ProvisionedMasters, vars
  <2> QED
    BY <1>1, <2>1, <2>2, <2>3 DEF SmoothInv
<1>3. ASSUME NEW r \in Requests, RequestStep(r)
      PROVE  TablesInv' /\ PrefetchInv' /\ InsertsInv' /\ VerdictsInv'
  BY <1>1, <1>3, LookupSmooth, CheckSmooth, CommitSmooth, BatchSmooth, NothingFails DEF RequestStep, Step
<1> QED
  BY <1>1, <1>2, <1>3 DEF SmoothInv, Next, RequestStep, Quiescent

LEMMA InitSmooth == Init => SmoothInv
<1>1. Init => TablesInv
  BY DEF Init, TablesInv, RejectedIsNotPosted, Rejections, NoReceipt
<1>2. Init => PrefetchInv /\ InsertsInv /\ VerdictsInv
  BY DEF Init, PrefetchInv, Active, InsertsInv, VerdictsInv, NoUnexpectedError
<1> QED
  BY <1>1, <1>2, InitSerial DEF SmoothInv

(* "Each payload is accepted or rejected on its own": with one request at a  *)
(* time, no database error, and no invalid payload that names a store,       *)
(* product or device the server lacks, no item ends in "Unexpected error".   *)
THEOREM ItemsStandAlone == Serial /\ Smooth => (Spec => []NoUnexpectedError)
<1> SUFFICES ASSUME Serial, Smooth
             PROVE  Spec => []NoUnexpectedError
  OBVIOUS
<1>1. Init => SmoothInv
  BY InitSmooth
<1>2. SmoothInv /\ [Next]_vars => SmoothInv'
  BY StepSmooth
<1>3. SmoothInv => NoUnexpectedError
  BY DEF SmoothInv, VerdictsInv
<1> QED
  BY <1>1, <1>2, <1>3, PTL DEF Spec

(* Under the same conditions a stored rejection is of a movement that the    *)
(* ledger lacks: no edit, retry or re-evaluation leaves one behind.          *)
THEOREM RejectionsAreNotPosted == Serial /\ Smooth => (Spec => []RejectedIsNotPosted)
<1> SUFFICES ASSUME Serial, Smooth
             PROVE  Spec => []RejectedIsNotPosted
  OBVIOUS
<1>1. Init => SmoothInv
  BY InitSmooth
<1>2. SmoothInv /\ [Next]_vars => SmoothInv'
  BY StepSmooth
<1>3. SmoothInv => RejectedIsNotPosted
  BY DEF SmoothInv, TablesInv
<1> QED
  BY <1>1, <1>2, <1>3, PTL DEF Spec
-----------------------------------------------------------------------------
(* A refusal for lack of stock quotes a balance that did not cover it.       *)
QuotedInv ==
    /\ \A t \in TxIds : receipt[t].state = "insufficient" =>
           \E p \in Payloads : p.tx = t /\ receipt[t].cur + p.delta < 0
    /\ \A r \in Requests : pc[r] = "commit" /\ plan[r].op = "insufficient" =>
           plan[r].cur + item[r].delta < 0

LEMMA StepQuoted ==
    ASSUME TypeOK, SessionHasItem, QuotedInv, [Next]_vars
    PROVE  QuotedInv'
<1>1. CASE UNCHANGED vars
  BY <1>1 DEF QuotedInv, vars
<1>2. ASSUME NEW r \in Requests, RequestStep(r)
      PROVE  QuotedInv'
  <2>1. ASSUME NEW q \in Requests, pc'[q] = "commit", plan'[q].op = "insufficient"
        PROVE  plan'[q].cur + item'[q].delta < 0
    <3>1. CASE q # r
      BY <1>2, <2>1, <3>1, OthersKeep DEF QuotedInv
    <3>2. CASE q = r
      <4>1. Check(r)
        <5>1. LookupLedgerRow(r) => plan'[r].op = "amend"
          BY DEF LookupLedgerRow, AmendPlan, TypeOK
        <5> QED
          BY <1>2, <2>1, <3>2, <5>1, CommitReached
      <4>2. item' = item /\ item[r] \in Payloads
        BY <4>1 DEF Check, GoTo, SessionHasItem, InSession
      <4>3. plan'[r].cur + item[r].delta < 0
        <5>1. PICK op : op = CASE ~Validates(item[r]) -> "invalid"
                         [] Validates(item[r]) /\ Overdraws(item[r], balance[KeyOf[item[r].tx]]) -> "insufficient"
                         [] OTHER -> "post"
          OBVIOUS
        <5>2. plan'[r].op = op /\ plan'[r].cur = IF op = "insufficient" THEN balance[KeyOf[item[r].tx]] ELSE 0
          BY <4>1, <5>1 DEF Check, TypeOK
        <5>3. op = "insufficient" => Overdraws(item[r], balance[KeyOf[item[r].tx]])
          BY <5>1
        <5> QED
          BY <2>1, <3>2, <5>2, <5>3 DEF Overdraws
      <4> QED
        BY <3>2, <4>2, <4>3
    <3> QED
      BY <3>1, <3>2
  <2>2. ASSUME NEW t \in TxIds, receipt'[t].state = "insufficient"
        PROVE  \E p \in Payloads : p.tx = t /\ receipt'[t].cur + p.delta < 0
    <3>1. CASE receipt'[t] = receipt[t]
      BY <2>2, <3>1 DEF QuotedInv
    <3>2. CASE CommitReject(r)
      <4>1. item[r] \in Payloads /\ item[r].tx \in TxIds
        BY <3>2, PayloadAssumption DEF CommitReject, SessionHasItem, InSession
      <4>2. /\ \A u \in TxIds \ {item[r].tx} : receipt'[u] = receipt[u]
            /\ receipt'[item[r].tx].state = plan[r].op /\ receipt'[item[r].tx].cur = plan[r].cur
        BY <3>2, <4>1 DEF CommitReject, NewReceipt, TypeOK
      <4>3. CASE t = item[r].tx
        BY <2>2, <3>2, <4>1, <4>2, <4>3 DEF CommitReject, QuotedInv
      <4> QED
        BY <3>1, <4>2, <4>3
    <3>3. ASSUME NEW state \in {"accepted", "unexpected"}, NEW cur, item[r].tx \in TxIds,
                 receipt' = SetReceipt(item[r].tx, state) \/ receipt' = NewReceipt(item[r].tx, state, cur)
          PROVE  receipt'[t] = receipt[t]
      BY <2>2, <3>3 DEF SetReceipt, NewReceipt, TypeOK
    <3>4. CASE CommitAmend(r) \/ CommitPost(r) \/ EnsureAccepted(r) \/ PersistRejection(r)
      <4>1. item[r].tx \in TxIds
        BY <3>4, PayloadAssumption DEF CommitAmend, CommitPost, EnsureAccepted, PersistRejection,
           SessionHasItem, InSession
      <4> QED
        BY <3>1, <3>3, <3>4, <4>1 DEF CommitAmend, CommitPost, EnsureAccepted, PersistRejection
    <3>5. CASE UNCHANGED receipt
      BY <3>1, <3>5
    <3> QED
      BY <1>2, <3>2, <3>4, <3>5
         DEF RequestStep, Step, Push, PrefetchReceipts, NextItem, LookupLedgerRow, LookupReceipt, Check,
             CommitCollides, CommitFails, Fault, Reply, Timeout
  <2> QED
    BY <2>1, <2>2 DEF QuotedInv
<1> QED
  BY <1>1, <1>2 DEF Next, RequestStep, Quiescent

(* However requests overlap and fail: where a device sends one quantity per  *)
(* id, a stored refusal for lack of stock is repeated only while the stock   *)
(* does not cover the movement, or if it was given below zero.               *)
THEOREM RefusalsAreCurrent == OneDeltaPerId => (Spec => RejectionIsCurrent)
<1> SUFFICES ASSUME OneDeltaPerId
             PROVE  Spec => RejectionIsCurrent
  OBVIOUS
<1> DEFINE QInv == TypeOK /\ SessionHasItem /\ QuotedInv
<1>1. Init => QInv
  <2>1. Init => QuotedInv
    BY DEF Init, QuotedInv, NoReceipt
  <2> QED
    BY <2>1, InitType
<1>2. QInv /\ [Next]_vars => QInv'
  BY StepType, StepQuoted
<1>3. QInv /\ [Next]_vars => [RefusesInTime]_vars
  <2> SUFFICES ASSUME QInv, [Next]_vars, ~UNCHANGED vars, NEW r \in Requests, RepeatsRefusal(r)
               PROVE  \/ balance[KeyOf[item[r].tx]] + item[r].delta < 0
                      \/ receipt[item[r].tx].cur < 0
    BY DEF RefusesInTime
  <2>1. item[r] \in Payloads /\ item[r].tx \in TxIds /\ item[r].delta \in Int
    BY PayloadAssumption DEF RepeatsRefusal, SessionHasItem, InSession
  <2>2. balance[KeyOf[item[r].tx]] \in Int /\ receipt[item[r].tx].cur \in Int
    BY <2>1, PayloadAssumption DEF TypeOK, Receipts
  <2>3. RequestStep(r)
    <3>1. PICK q \in Requests : RequestStep(q)
      BY DEF Next, RequestStep, Quiescent
    <3>2. q # r => pc'[r] = pc[r]
      BY <3>1, OthersKeep
    <3> QED
      BY <3>1, <3>2 DEF RepeatsRefusal
  <2>4. LookupReceipt(r)
    BY <2>3 DEF RequestStep, RepeatsRefusal, Step, Push, PrefetchReceipts, NextItem, LookupLedgerRow, Check,
         CommitAmend, CommitReject, CommitPost, CommitCollides, CommitFails, Fault, EnsureAccepted,
         PersistRejection, Reply, Timeout, Forget, GoTo, TypeOK
  <2>5. \A v : Finish(r, v) => verdict'[r] \subseteq verdict[r] \cup {<<item[r].tx, v>>}
    BY DEF Finish, TypeOK
  <2>6. ~GoTo(r, "check")
    BY DEF GoTo, RepeatsRefusal
  <2>7. /\ receipt[item[r].tx].state = "insufficient"
        /\ ~ShouldRetry(receipt[item[r].tx], item[r], balance[KeyOf[item[r].tx]])
    BY <2>4, <2>5, <2>6 DEF LookupReceipt, RepeatsRefusal
  <2>8. PICK p \in Payloads : p.tx = item[r].tx /\ receipt[item[r].tx].cur + p.delta < 0
    BY <2>1, <2>7 DEF QuotedInv
  <2>9. p.delta = item[r].delta
    BY <2>1, <2>8 DEF OneDeltaPerId
  <2>10. PICK current \in Int, cur \in Int, d \in Int :
            current = balance[KeyOf[item[r].tx]] /\ cur = receipt[item[r].tx].cur /\ d = item[r].delta
    BY <2>1, <2>2
  <2>11. cur + d < 0 /\ ~(cur >= 0 /\ current + d >= 0 /\ current # cur)
    BY <2>7, <2>8, <2>9, <2>10 DEF ShouldRetry, RejectionIsStale
  <2>12. current + d < 0 \/ cur < 0
    BY <2>11
  <2> QED
    BY <2>10, <2>12
<1> QED
  <2> HIDE DEF QInv
  <2> QED
    BY <1>1, <1>2, <1>3, PTL DEF Spec, RejectionIsCurrent
-----------------------------------------------------------------------------
(* The balances are the sums of the ledger.                                  *)

(* LedgerAbs adds up as everybody does.                                      *)
LEMMA SameSums == \A f, S : Ledger!SumOver(f, S) = SumOver(f, S)
  BY Zenon DEF Ledger!SumOver, Ledger!MapThenSumSet, Ledger!MapThenFoldSet, SumOver, MapThenSumSet, MapThenFoldSet

(* The first posting of a row moves the sum of its triple, and no other, by  *)
(* what it moves the balance by ...                                          *)
LEMMA PostKeepsProjection ==
    ASSUME TypeOK, IsFiniteSet(posted), BalanceIsProjection, NEW t \in TxIds, NEW d \in Int,
           Ledger!PostOnce(t, d)
    PROVE  BalanceIsProjection' /\ IsFiniteSet(posted')
<1>1. IsFiniteSet(posted')
  BY FS_AddElement DEF Ledger!PostOnce
<1>2. ASSUME NEW k \in Keys PROVE balance'[k] = Ledger!Projection(k)'
  <2>1. PICK S : S = Ledger!RowsOf(k)
    OBVIOUS
  <2>2. IsFiniteSet(S) /\ S \subseteq TxIds /\ t \notin S
    BY <2>1, FS_Subset DEF Ledger!RowsOf, Ledger!PostOnce, TypeOK
  <2>3. balance[k] = SumOver(delta, S) /\ Ledger!Projection(k)' = SumOver(delta', Ledger!RowsOf(k)')
    BY <2>1, SameSums DEF BalanceIsProjection, Ledger!Projection
  <2>4. SumOver(delta', S) = SumOver(delta, S)
    <3>1. \A s \in S : delta'[s] = delta[s]
      BY <2>2 DEF Ledger!PostOnce, TypeOK
    <3> QED
      BY <2>2, <3>1, SumSame
  <2>5. delta' \in [TxIds -> Int] /\ delta'[t] = d
    BY DEF Ledger!PostOnce, TypeOK
  <2>6. CASE KeyOf[t] = k
    <3>1. Ledger!RowsOf(k)' = S \cup {t}
      BY <2>1, <2>6 DEF Ledger!RowsOf, Ledger!PostOnce
    <3>2. SumOver(delta', S \cup {t}) = SumOver(delta', S) + d
      BY <2>2, <2>5, SumAdd
    <3>3. balance'[k] = balance[k] + d
      BY <2>6 DEF Ledger!PostOnce, TypeOK
    <3> QED
      BY <2>3, <2>4, <3>1, <3>2, <3>3
  <2>7. CASE KeyOf[t] # k
    <3>1. Ledger!RowsOf(k)' = S
      BY <2>1, <2>7 DEF Ledger!RowsOf, Ledger!PostOnce
    <3>2. balance'[k] = balance[k]
      BY <2>7 DEF Ledger!PostOnce, TypeOK
    <3> QED
      BY <2>3, <2>4, <3>1, <3>2
  <2> QED
    BY <2>6, <2>7
<1> QED
  BY <1>1, <1>2 DEF BalanceIsProjection

(* ... and so does an edit, by the difference.                               *)
LEMMA RestateKeepsProjection ==
    ASSUME TypeOK, IsFiniteSet(posted), BalanceIsProjection, NEW t \in TxIds, NEW d \in Int,
           Ledger!Restate(t, d)
    PROVE  BalanceIsProjection' /\ IsFiniteSet(posted')
<1>1. IsFiniteSet(posted')
  BY DEF Ledger!Restate
<1>2. ASSUME NEW k \in Keys PROVE balance'[k] = Ledger!Projection(k)'
  <2>1. PICK S : S = Ledger!RowsOf(k)
    OBVIOUS
  <2>2. IsFiniteSet(S) /\ S \subseteq TxIds /\ (t \in S <=> KeyOf[t] = k) /\ Ledger!RowsOf(k)' = S
    BY <2>1, FS_Subset DEF Ledger!RowsOf, Ledger!Restate, TypeOK
  <2>3. balance[k] = SumOver(delta, S) /\ Ledger!Projection(k)' = SumOver(delta', S)
    BY <2>1, <2>2, SameSums DEF BalanceIsProjection, Ledger!Projection
  <2>4. delta' \in [TxIds -> Int] /\ delta'[t] = d /\ \A s \in S \ {t} : delta'[s] = delta[s]
    BY <2>2 DEF Ledger!Restate, TypeOK
  <2>5. \A s \in S : delta[s] \in Int
    BY <2>2 DEF TypeOK
  <2>6. CASE KeyOf[t] = k
    <3>1. SumOver(delta', S) = SumOver(delta, S) + d - delta[t]
      BY <2>2, <2>4, <2>5, <2>6, SumChange
    <3>2. balance'[k] = balance[k] + d - delta[t]
      BY <2>6 DEF Ledger!Restate, TypeOK
    <3> QED
      BY <2>3, <3>1, <3>2
  <2>7. CASE KeyOf[t] # k
    <3>1. SumOver(delta', S) = SumOver(delta, S)
      BY <2>2, <2>4, <2>7, SumSame
    <3>2. balance'[k] = balance[k]
      BY <2>7 DEF Ledger!Restate, TypeOK
    <3> QED
      BY <2>3, <3>1, <3>2
  <2> QED
    BY <2>6, <2>7
<1> QED
  BY <1>1, <1>2 DEF BalanceIsProjection

(* The sum after one step of the ledger or of something else.                *)
LEMMA LedgerKeepsProjection ==
    ASSUME TypeOK, IsFiniteSet(posted), BalanceIsProjection,
           \/ UNCHANGED <<posted, delta, balance>>
           \/ \E r \in Requests :
                 /\ item[r] \in Payloads
                 /\ \/ Ledger!PostOnce(item[r].tx, item[r].delta)
                    \/ Ledger!Restate(item[r].tx, item[r].delta)
    PROVE  IsFiniteSet(posted') /\ BalanceIsProjection'
<1>1. CASE UNCHANGED <<posted, delta, balance>>
  BY <1>1 DEF BalanceIsProjection, Ledger!Projection, Ledger!RowsOf
<1>2. ASSUME NEW r \in Requests, item[r] \in Payloads,
             Ledger!PostOnce(item[r].tx, item[r].delta) \/ Ledger!Restate(item[r].tx, item[r].delta)
      PROVE  IsFiniteSet(posted') /\ BalanceIsProjection'
  <2>1. item[r].tx \in TxIds /\ item[r].delta \in Int
    BY <1>2, PayloadAssumption
  <2> QED
    BY <1>2, <2>1, PostKeepsProjection, RestateKeepsProjection
<1> QED
  BY <1>1, <1>2

LEMMA ProjectionStarts == Init => IsFiniteSet(posted) /\ BalanceIsProjection
<1> SUFFICES ASSUME Init PROVE IsFiniteSet(posted) /\ BalanceIsProjection
  OBVIOUS
<1>1. posted = {} /\ IsFiniteSet(posted)
  BY FS_EmptySet DEF Init
<1>2. ASSUME NEW k \in Keys PROVE balance[k] = Ledger!Projection(k)
  <2>1. Ledger!RowsOf(k) = {}
    BY <1>1 DEF Ledger!RowsOf
  <2>2. Ledger!Projection(k) = 0
    BY <2>1, SameSums, SumEmpty DEF Ledger!Projection
  <2> QED
    BY <2>2 DEF Init
<1> QED
  BY <1>1, <1>2 DEF BalanceIsProjection

(* "Current balance is SUM(quantity_delta) of accepted events": for any      *)
(* transactions, triples, batches and errors, what _upsert_stock_balance     *)
(* maintains is what check_integrity recomputes, when devices never change   *)
(* the quantity of an id however requests interleave ...                     *)
THEOREM BalanceProjectsPosts == OneDeltaPerId => (Spec => []BalanceIsProjection)
<1> SUFFICES ASSUME OneDeltaPerId PROVE Spec => []BalanceIsProjection
  OBVIOUS
<1> DEFINE IInv == /\ TypeOK /\ SessionHasItem /\ Backed /\ LedgerIsPushed
                   /\ IsFiniteSet(posted) /\ BalanceIsProjection
<1>1. Init => IInv
  <2>1. Init => Backed /\ LedgerIsPushed
    BY DEF Init, Backed, AcceptedIsPosted, AcceptedReceiptIsBacked, LedgerIsPushed,
           NoReceipt, NoPlan
  <2> QED
    BY <2>1, InitType, ProjectionStarts
<1>2. IInv /\ [Next]_vars => IInv'
  <2> SUFFICES ASSUME IInv, [Next]_vars PROVE IInv'
    OBVIOUS
  <2>1. TypeOK' /\ SessionHasItem' /\ Backed' /\ LedgerIsPushed'
    BY StepType, StepBacked, StepPushed
  <2>2. IsFiniteSet(posted') /\ BalanceIsProjection'
    BY LedgerStep, LedgerKeepsProjection
  <2> QED
    BY <2>1, <2>2
<1>3. IInv => BalanceIsProjection
  OBVIOUS
<1> QED
  <2> HIDE DEF IInv
  <2> QED
    BY <1>1, <1>2, <1>3, PTL DEF Spec

(* ... and, edits included, when one request is served at a time.            *)
THEOREM BalanceProjectsEdits == Serial => (Spec => []BalanceIsProjection)
<1> SUFFICES ASSUME Serial PROVE Spec => []BalanceIsProjection
  OBVIOUS
<1> DEFINE IInv == SerialInv /\ IsFiniteSet(posted) /\ BalanceIsProjection
<1>1. Init => IInv
  BY InitSerial, ProjectionStarts
<1>2. IInv /\ [Next]_vars => IInv'
  <2> SUFFICES ASSUME IInv, [Next]_vars PROVE IInv'
    OBVIOUS
  <2>1. SerialInv'
    BY StepSerial
  <2>2. TypeOK
    BY DEF SerialInv
  <2>3. IsFiniteSet(posted') /\ BalanceIsProjection'
    BY <2>2, SerialLedgerStep, LedgerKeepsProjection
  <2> QED
    BY <2>1, <2>3
<1>3. IInv => BalanceIsProjection
  OBVIOUS
<1> QED
  <2> HIDE DEF IInv
  <2> QED
    BY <1>1, <1>2, <1>3, PTL DEF Spec
=============================================================================
