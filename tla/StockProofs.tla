---------------------------- MODULE StockProofs ----------------------------
(***************************************************************************)
(* Proofs about StockCommands, for any number of stores, buckets,          *)
(* transfers, quantities and interruptions.  CommandInv is inductive: it   *)
(* adds to the properties what the statements still to be executed rely    *)
(* on.  A command that starts establishes it for its whole sequence of     *)
(* statements; executing a statement, or dropping the rest, keeps it.      *)
(***************************************************************************)
EXTENDS StockCommands, SumTheorems, SequenceTheorems, TLAPS

(* What is left of a command after one statement.                            *)
LEMMA TailFacts ==
    ASSUME todo \in Seq(Statements), todo # <<>>, todo' = Tail(todo)
    PROVE  /\ todo' \in Seq(Statements)
           /\ 1 \in DOMAIN todo /\ todo[1] = Head(todo) /\ Head(todo) \in Statements
           /\ \A i \in DOMAIN todo' : i \in Nat /\ i >= 1 /\ i + 1 \in DOMAIN todo /\ todo'[i] = todo[i + 1]
           /\ \A i \in DOMAIN todo : i \in Nat /\ i >= 1 /\ (i # 1 => i - 1 \in DOMAIN todo')
  OBVIOUS

(* The statements of a plain movement, and their types.                      *)
LEMMA MovementFacts ==
    ASSUME NEW r \in Rows, ledger \in Seq(Rows)
    PROVE  /\ Movement(r) \in Seq(Statements)
           /\ DOMAIN Movement(r) = {1, 2, 3}
           /\ Movement(r)[1] = Insert(r)
           /\ Movement(r)[2] = Add(r.place, r.delta)
           /\ Movement(r)[3] = Queue(Len(ledger) + 1, r.delta)
  <1> DEFINE m == <<Insert(r), Add(r.place, r.delta), Queue(Len(ledger) + 1, r.delta)>>
  <1>1. Insert(r) \in Statements
    BY DEF Insert, Statements
  <1>2. Add(r.place, r.delta) \in Statements
    BY DEF Add, Statements, Rows
  <1>3. Queue(Len(ledger) + 1, r.delta) \in Statements
    BY DEF Queue, Statements, Rows
  <1>4. m \in Seq(Statements) /\ DOMAIN m = 1..3
    BY <1>1, <1>2, <1>3
  <1>5. Movement(r) = m
    BY DEF Movement, NextId
  <1> QED BY <1>4, <1>5

-----------------------------------------------------------------------------
(* Executing a statement. *)

LEMMA StatementTypes ==
    ASSUME TypeOK, FindsItsRow, PendingIsAllowed, Statement
    PROVE  TypeOK'
  <1> USE DEF Executes
  <1>1. todo \in Seq(Statements) /\ todo # <<>> /\ todo' = Tail(todo)
        /\ corrections' = corrections /\ faults' = faults
    BY DEF TypeOK, Statement, WriteStatus, InsertRow, AddToBalance, QueueEvent, AmendRow,
           RequeueEvent, RemoveRow, WithdrawEvent
  <1>2. todo' \in Seq(Statements) /\ Head(todo) \in Statements /\ 1 \in DOMAIN todo
        /\ todo[1] = Head(todo)
    BY <1>1, TailFacts
  <1>3. CASE WriteStatus
    <2>1. Head(todo).transfer \in Transfers /\ Head(todo).to \in Statuses
      BY <1>2, <1>3 DEF WriteStatus, Statements
    <2>2. transfer[Head(todo).transfer] \in TransferRows
      BY <1>1, <1>2, <1>3, <2>1 DEF WriteStatus, TypeOK, PendingIsAllowed
    <2>3. [transfer[Head(todo).transfer] EXCEPT !.status = Head(todo).to] \in TransferRows
      BY <2>1, <2>2 DEF TransferRows
    <2>4. transfer' \in [Transfers -> TransferRows \cup {Missing}]
      BY <2>1, <2>3, <1>3 DEF WriteStatus, TypeOK
    <2> QED BY <1>1, <1>2, <1>3, <2>4 DEF TypeOK, WriteStatus
  <1>4. CASE InsertRow
    <2>1. Head(todo).row \in Rows
      BY <1>2, <1>4 DEF InsertRow, Statements
    <2>2. ledger' \in Seq(Rows) /\ DOMAIN ledger \subseteq DOMAIN ledger'
      BY <2>1, <1>4 DEF InsertRow, TypeOK
    <2>3. events' \subseteq [id : DOMAIN ledger', delta : Int]
      BY <2>2, <1>4 DEF InsertRow, TypeOK
    <2> QED BY <1>1, <1>2, <1>4, <2>2, <2>3 DEF TypeOK, InsertRow
  <1>5. CASE AddToBalance
    <2>1. Head(todo).place \in Places /\ Head(todo).delta \in Int
      BY <1>2, <1>5 DEF AddToBalance, Statements
    <2> QED BY <1>1, <1>2, <1>5, <2>1 DEF TypeOK, AddToBalance
  <1>6. CASE QueueEvent
    <2>1. Head(todo).delta \in Int
      BY <1>2, <1>6 DEF QueueEvent, Statements
    <2>2. Head(todo).id \in DOMAIN ledger
      BY <1>1, <1>2, <1>6 DEF QueueEvent, FindsItsRow
    <2> QED BY <1>1, <1>2, <1>6, <2>1, <2>2 DEF TypeOK, QueueEvent
  <1>7. CASE AmendRow
    <2>1. Head(todo).delta \in Int
      BY <1>2, <1>7 DEF AmendRow, Statements
    <2>2. Head(todo).id \in DOMAIN ledger
      BY <1>1, <1>2, <1>7 DEF AmendRow, FindsItsRow
    <2>3. ledger[Head(todo).id] \in Rows
      BY <2>2 DEF TypeOK
    <2>4. [ledger[Head(todo).id] EXCEPT !.delta = Head(todo).delta] \in Rows
      BY <2>1, <2>3 DEF Rows
    <2>5. ledger' \in Seq(Rows) /\ DOMAIN ledger' = DOMAIN ledger
      BY <2>2, <2>4, <1>7 DEF AmendRow, TypeOK
    <2> QED BY <1>1, <1>2, <1>7, <2>5 DEF TypeOK, AmendRow
  <1>8. CASE RequeueEvent
    <2>1. Head(todo).delta \in Int
      BY <1>2, <1>8 DEF RequeueEvent, Statements
    <2> QED BY <1>1, <1>2, <1>8, <2>1 DEF TypeOK, RequeueEvent
  <1>9. CASE RemoveRow
    <2>1. Head(todo).id \in DOMAIN ledger
      BY <1>1, <1>2, <1>9 DEF RemoveRow, FindsItsRow
    <2>4. ledger[Head(todo).id] \in Rows
      BY <2>1 DEF TypeOK
    <2>2. Row(ledger[Head(todo).id].place, 0, "DELETED", ledger[Head(todo).id].transfer) \in Rows
      BY <2>4 DEF Rows, Row, MovementTypes
    <2>3. ledger' \in Seq(Rows) /\ DOMAIN ledger' = DOMAIN ledger
      BY <2>1, <2>2, <1>9 DEF RemoveRow, WithoutRow, TypeOK
    <2> QED BY <1>1, <1>2, <1>9, <2>3 DEF TypeOK, RemoveRow
  <1>10. CASE WithdrawEvent
    BY <1>1, <1>2, <1>10 DEF TypeOK, WithdrawEvent
  <1> QED BY <1>3, <1>4, <1>5, <1>6, <1>7, <1>8, <1>9, <1>10 DEF Statement

(* The effect of a statement on the sizes and statuses others depend on.     *)
LEMMA StatementEffects ==
    ASSUME TypeOK, FindsItsRow, Statement
    PROVE  /\ todo # <<>> /\ todo' = Tail(todo) /\ corrections' = corrections
           /\ Head(todo).op # "insert" => DOMAIN ledger' = DOMAIN ledger /\ Len(ledger') = Len(ledger)
           /\ Head(todo).op = "insert" => InsertRow
           /\ Head(todo).op # "status" => transfer' = transfer
           /\ Head(todo).op = "status" => WriteStatus
           /\ Head(todo).op # "balance" => balance' = balance
           /\ Head(todo).op = "balance" => AddToBalance
  <1> USE DEF Executes
  <1>1. todo \in Seq(Statements) /\ todo # <<>> /\ todo' = Tail(todo) /\ corrections' = corrections
    BY DEF TypeOK, Statement, WriteStatus, InsertRow, AddToBalance, QueueEvent, AmendRow,
           RequeueEvent, RemoveRow, WithdrawEvent
  <1>2. 1 \in DOMAIN todo /\ todo[1] = Head(todo)
    BY <1>1, TailFacts
  <1>3. CASE AmendRow \/ RemoveRow
    <2>1. Head(todo).id \in DOMAIN ledger
      BY <1>1, <1>2, <1>3 DEF AmendRow, RemoveRow, FindsItsRow
    <2>2. DOMAIN ledger' = DOMAIN ledger /\ Len(ledger') = Len(ledger)
      BY <1>3, <2>1 DEF AmendRow, RemoveRow, WithoutRow, TypeOK
    <2> QED BY <1>1, <1>3, <2>2 DEF AmendRow, RemoveRow
  <1>4. CASE ~(AmendRow \/ RemoveRow)
    BY <1>1, <1>4 DEF Statement, WriteStatus, InsertRow, AddToBalance, QueueEvent, RequeueEvent,
       WithdrawEvent
  <1> QED BY <1>3, <1>4

LEMMA StatementFindsItsRow ==
    ASSUME TypeOK, FindsItsRow, Statement
    PROVE  FindsItsRow'
  <1>1. todo \in Seq(Statements) /\ todo # <<>> /\ todo' = Tail(todo)
    BY StatementEffects DEF TypeOK
  <1> SUFFICES ASSUME NEW i \in DOMAIN todo',
                      todo'[i].op \in {"queue", "amend", "requeue", "remove", "withdraw"}
               PROVE  \/ todo'[i].id \in DOMAIN ledger'
                      \/ /\ todo'[i].op = "queue"
                         /\ todo'[i].id = Len(ledger') + 1
                         /\ \E j \in DOMAIN todo' : j < i /\ todo'[j].op = "insert"
                      \/ /\ todo'[i].op = "queue"
                         /\ todo'[i].id = Len(ledger') + 2
                         /\ i > 2 /\ todo'[1].op = "insert" /\ todo'[2].op = "insert"
    BY DEF FindsItsRow
  <1>2. i \in Nat /\ i >= 1 /\ i + 1 \in DOMAIN todo /\ todo'[i] = todo[i + 1]
    BY <1>1, TailFacts
  <1>3. 1 \in DOMAIN todo /\ todo[1] = Head(todo)
    BY <1>1, TailFacts
  <1>4. CASE todo[i + 1].id \in DOMAIN ledger
    <2>1. DOMAIN ledger \subseteq DOMAIN ledger'
      BY StatementEffects DEF InsertRow, TypeOK
    <2> QED BY <1>2, <1>4, <2>1
  <1>5. CASE /\ todo[i + 1].op = "queue"
             /\ todo[i + 1].id = Len(ledger) + 1
             /\ \E j \in DOMAIN todo : j < i + 1 /\ todo[j].op = "insert"
    <2>1. CASE Head(todo).op = "insert"
      BY <2>1, <1>2, <1>5, StatementEffects DEF InsertRow, TypeOK
    <2>2. CASE Head(todo).op # "insert"
      <3>1. PICK j \in DOMAIN todo : j < i + 1 /\ todo[j].op = "insert"
        BY <1>5
      <3>2. j # 1 /\ j - 1 \in DOMAIN todo' /\ j - 1 < i /\ todo'[j - 1] = todo[j]
        BY <1>1, <1>2, <1>3, <2>2, <3>1, TailFacts
      <3> QED BY <1>2, <1>5, <2>2, <3>1, <3>2, StatementEffects
    <2> QED BY <2>1, <2>2
  <1>6. CASE /\ todo[i + 1].op = "queue"
             /\ todo[i + 1].id = Len(ledger) + 2
             /\ i + 1 > 2 /\ todo[1].op = "insert" /\ todo[2].op = "insert"
    <2>1. Len(ledger') = Len(ledger) + 1
      BY <1>3, <1>6, StatementEffects DEF InsertRow, TypeOK
    <2>2. 1 \in DOMAIN todo' /\ todo'[1] = todo[2]
      BY <1>1, <1>2, <1>6, TailFacts
    <2>3. \E j \in DOMAIN todo' : j < i /\ todo'[j].op = "insert"
      BY <1>2, <1>6, <2>2
    <2>4. todo[i + 1].id = Len(ledger') + 1
      BY <1>6, <2>1 DEF TypeOK
    <2> QED BY <1>2, <1>6, <2>3, <2>4
  <1> QED BY <1>2, <1>4, <1>5, <1>6 DEF FindsItsRow

LEMMA StatementCovered ==
    ASSUME TypeOK, FindsItsRow, PendingIsCovered, StockStaysCovered, Statement
    PROVE  PendingIsCovered' /\ StockStaysCovered'
  <1>1. todo \in Seq(Statements) /\ todo # <<>> /\ todo' = Tail(todo) /\ corrections' = corrections
    BY StatementEffects DEF TypeOK
  <1>2. 1 \in DOMAIN todo /\ todo[1] = Head(todo) /\ Head(todo) \in Statements
    BY <1>1, TailFacts
  <1>3. \A i \in DOMAIN todo' :
           i \in Nat /\ i >= 1 /\ i + 1 \in DOMAIN todo /\ todo'[i] = todo[i + 1]
    BY <1>1, TailFacts
  <1>4. ASSUME NEW i \in DOMAIN todo', NEW j \in DOMAIN todo',
               todo'[i].op = "balance", todo'[j].op = "balance", todo'[j].place = todo'[i].place
        PROVE  j = i
    BY <1>3, <1>4 DEF PendingIsCovered
  <1>5. CASE Head(todo).op = "balance"
    <2>1. AddToBalance
      BY <1>5, StatementEffects
    <2>2. Head(todo).place \in Places /\ Head(todo).delta \in Int
      BY <1>2, <1>5 DEF Statements
    <2>3. corrections = 0 => balance[Head(todo).place] + Head(todo).delta >= 0
      BY <1>2, <1>5 DEF PendingIsCovered
    <2>4. StockStaysCovered'
      BY <1>1, <2>1, <2>2, <2>3 DEF AddToBalance, StockStaysCovered, TypeOK
    <2>5. ASSUME NEW i \in DOMAIN todo', todo'[i].op = "balance", corrections' = 0
          PROVE  balance'[todo'[i].place] + todo'[i].delta >= 0
      <3>1. todo[i + 1].place # Head(todo).place
        BY <1>2, <1>3, <1>5, <2>5 DEF PendingIsCovered
      <3>2. balance'[todo[i + 1].place] = balance[todo[i + 1].place]
        <4>1. todo[i + 1] \in Statements /\ todo[i + 1].op = "balance"
        BY <1>1, <1>3, <2>5
      <4>2. todo[i + 1].place \in Places
        BY <4>1 DEF Statements
      <4> QED BY <2>1, <2>2, <3>1, <4>2 DEF AddToBalance, TypeOK
      <3> QED BY <1>1, <1>3, <2>5, <3>2 DEF PendingIsCovered
    <2> QED BY <1>4, <2>4, <2>5 DEF PendingIsCovered
  <1>6. CASE Head(todo).op # "balance"
    <2>1. balance' = balance
      BY <1>6, StatementEffects
    <2>2. StockStaysCovered'
      BY <1>1, <2>1 DEF StockStaysCovered
    <2>3. ASSUME NEW i \in DOMAIN todo', todo'[i].op = "balance", corrections' = 0
          PROVE  balance'[todo'[i].place] + todo'[i].delta >= 0
      BY <1>1, <1>3, <2>1, <2>3 DEF PendingIsCovered
    <2> QED BY <1>4, <2>2, <2>3 DEF PendingIsCovered
  <1> QED BY <1>5, <1>6

LEMMA StatementAllowed ==
    ASSUME TypeOK, FindsItsRow, PendingIsAllowed, Statement
    PROVE  /\ PendingIsAllowed'
           /\ \A x \in Transfers : transfer'[x].status # transfer[x].status
                 => <<transfer[x].status, transfer'[x].status>> \in AllowedTransitions
  <1>1. todo \in Seq(Statements) /\ todo # <<>> /\ todo' = Tail(todo)
    BY StatementEffects DEF TypeOK
  <1>2. 1 \in DOMAIN todo /\ todo[1] = Head(todo) /\ Head(todo) \in Statements
    BY <1>1, TailFacts
  <1>3. \A i \in DOMAIN todo' :
           i \in Nat /\ i >= 1 /\ i + 1 \in DOMAIN todo /\ todo'[i] = todo[i + 1]
    BY <1>1, TailFacts
  <1>4. CASE Head(todo).op = "status"
    <2>1. WriteStatus
      BY <1>4, StatementEffects
    <2>2. \A i \in DOMAIN todo' : todo'[i].op # "status"
      <3>1. \A j \in DOMAIN todo : todo[j].op = "status" => j = 1
        BY <1>2, <1>4 DEF PendingIsAllowed
      <3> QED BY <1>3, <3>1
    <2>3. Head(todo).transfer \in Transfers /\ transfer[Head(todo).transfer] # Missing
          /\ <<transfer[Head(todo).transfer].status, Head(todo).to>> \in AllowedTransitions
      BY <1>2, <1>4 DEF Statements, PendingIsAllowed
    <2>4. transfer[Head(todo).transfer] \in TransferRows
      BY <2>3 DEF TypeOK
    <2>5. [transfer[Head(todo).transfer] EXCEPT !.status = Head(todo).to].status = Head(todo).to
      BY <2>4 DEF TransferRows
    <2>6. \A x \in Transfers : transfer'[x].status # transfer[x].status
             => x = Head(todo).transfer /\ transfer'[x].status = Head(todo).to
      BY <2>1, <2>3, <2>5 DEF WriteStatus, TypeOK
    <2> QED BY <2>2, <2>3, <2>6 DEF PendingIsAllowed
  <1>5. CASE Head(todo).op # "status"
    <2>1. transfer' = transfer
      BY <1>5, StatementEffects
    <2>2. PendingIsAllowed'
      <3> SUFFICES ASSUME NEW i \in DOMAIN todo', todo'[i].op = "status"
                   PROVE  /\ transfer'[todo'[i].transfer] # Missing
                          /\ <<transfer'[todo'[i].transfer].status, todo'[i].to>> \in AllowedTransitions
                          /\ \A j \in DOMAIN todo' : todo'[j].op = "status" => j = i
        BY DEF PendingIsAllowed
      <3>1. \A j \in DOMAIN todo' : todo'[j].op = "status" => j = i
        <4>1. \A j \in DOMAIN todo : todo[j].op = "status" => j = i + 1
          BY <1>3 DEF PendingIsAllowed
        <4> QED BY <1>3, <4>1
      <3> QED BY <1>3, <2>1, <3>1 DEF PendingIsAllowed
    <2> QED BY <2>1, <2>2
  <1> QED BY <1>4, <1>5

(* A transfer that has shipped, or arrived, stays so.                        *)
LEMMA SettledStays ==
    ASSUME NEW x \in Transfers,
           transfer'[x].status # transfer[x].status
             => <<transfer[x].status, transfer'[x].status>> \in AllowedTransitions
    PROVE  (transfer[x].status \in AfterShipping => transfer'[x].status \in AfterShipping) /\ (transfer[x].status \in AfterArrival => transfer'[x].status \in AfterArrival)
  <1>1. CASE transfer'[x].status = transfer[x].status
    BY <1>1 DEF AfterShipping, AfterArrival
  <1>2. CASE <<transfer[x].status, transfer'[x].status>> \in AllowedTransitions
    BY <1>2 DEF AfterShipping, AfterArrival, AllowedTransitions, Statuses
  <1> QED BY <1>1, <1>2

(* The transfer a row names. *)
LEMMA RowTransfer ==
    ASSUME NEW r \in Rows, r.transfer # NoTransfer
    PROVE  r.transfer \in Transfers
  BY DEF Rows

(* Statements that insert nothing make no shipment and no arrival.           *)
LEMMA StatementKeepsMoves ==
    ASSUME TypeOK, FindsItsRow, AmendsNoTransfer, Statement, Head(todo).op # "insert"
    PROVE  /\ DOMAIN ledger' = DOMAIN ledger
           /\ \A k \in DOMAIN ledger :
                 /\ ledger'[k].transfer = ledger[k].transfer
                 /\ ledger'[k].type \in {ledger[k].type, "DELETED"}
                 /\ Ships(ledger'[k]) => Ships(ledger[k])
                 /\ Arrives(ledger'[k]) => Arrives(ledger[k])
  <1> USE DEF Executes
  <1>1. todo \in Seq(Statements) /\ todo # <<>> /\ todo' = Tail(todo)
        /\ DOMAIN ledger' = DOMAIN ledger
    BY StatementEffects DEF TypeOK
  <1>2. 1 \in DOMAIN todo /\ todo[1] = Head(todo) /\ Head(todo) \in Statements
    BY <1>1, TailFacts
  <1>3. CASE AmendRow
    <2>1. Head(todo).id \in DOMAIN ledger
          /\ ledger[Head(todo).id].type \notin {"TRANSFER_OUT", "TRANSFER_IN"}
      BY <1>2, <1>3 DEF AmendRow, AmendsNoTransfer
    <2>2. ledger[Head(todo).id] \in Rows
      BY <2>1 DEF TypeOK
    <2>3. [ledger[Head(todo).id] EXCEPT !.delta = Head(todo).delta].type = ledger[Head(todo).id].type
          /\ [ledger[Head(todo).id] EXCEPT !.delta = Head(todo).delta].transfer
               = ledger[Head(todo).id].transfer
      BY <2>2 DEF Rows
    <2>4. \A k \in DOMAIN ledger : ledger'[k] =
             IF k = Head(todo).id THEN [ledger[Head(todo).id] EXCEPT !.delta = Head(todo).delta]
             ELSE ledger[k]
      BY <1>3, <2>1 DEF AmendRow, TypeOK
    <2> QED BY <1>1, <2>1, <2>3, <2>4 DEF Ships, Arrives
  <1>4. CASE RemoveRow
    <2>1. Head(todo).id \in DOMAIN ledger
      BY <1>1, <1>2, <1>4 DEF RemoveRow, FindsItsRow
    <2>2. \A k \in DOMAIN ledger : ledger'[k] =
             IF k = Head(todo).id
             THEN [place |-> ledger[k].place, delta |-> 0, type |-> "DELETED",
                   transfer |-> ledger[k].transfer]
             ELSE ledger[k]
      BY <1>4, <2>1 DEF RemoveRow, WithoutRow, Row, TypeOK
    <2> QED BY <1>1, <2>2 DEF Ships, Arrives
  <1>5. CASE ~AmendRow /\ ~RemoveRow
    <2>1. ledger' = ledger
      BY <1>5 DEF Statement, WriteStatus, InsertRow, AddToBalance, QueueEvent, RequeueEvent,
         WithdrawEvent
    <2> QED BY <1>1, <2>1 DEF Ships, Arrives
  <1> QED BY <1>3, <1>4, <1>5

LEMMA StatementRows ==
    ASSUME TypeOK, FindsItsRow, PendingIsAllowed, RowsAreUnique, TransferMovesOnce, Statement
    PROVE  RowsAreUnique' /\ TransferMovesOnce'
  <1> USE DEF RowsAreUnique
  <1>1. todo \in Seq(Statements) /\ todo # <<>> /\ todo' = Tail(todo)
    BY StatementEffects DEF TypeOK
  <1>2. 1 \in DOMAIN todo /\ todo[1] = Head(todo) /\ Head(todo) \in Statements
    BY <1>1, TailFacts
  <1>3. \A i \in DOMAIN todo' :
           i \in Nat /\ i >= 1 /\ i + 1 \in DOMAIN todo /\ todo'[i] = todo[i + 1]
    BY <1>1, TailFacts
  <1>4. \A x \in Transfers : (transfer[x].status \in AfterShipping => transfer'[x].status \in AfterShipping) /\ (transfer[x].status \in AfterArrival => transfer'[x].status \in AfterArrival)
    BY StatementAllowed, SettledStays
  <1>5. \A i \in DOMAIN todo : todo[i].op = "insert" => todo[i].row \in Rows
    <2> TAKE i \in DOMAIN todo
    <2>1. todo[i] \in Statements
      BY <1>1
    <2> QED BY <2>1 DEF Statements
  <1>6. CASE Head(todo).op # "insert"
    <2>1. DOMAIN ledger' = DOMAIN ledger
      BY <1>6, StatementKeepsMoves
    <2>2. \A k \in DOMAIN ledger :
             /\ ledger'[k].transfer = ledger[k].transfer
             /\ ledger'[k].type \in {ledger[k].type, "DELETED"}
             /\ Ships(ledger'[k]) => Ships(ledger[k])
             /\ Arrives(ledger'[k]) => Arrives(ledger[k])
      BY <1>6, StatementKeepsMoves
    <2>3. SettledRows'
      <3> SUFFICES ASSUME NEW k \in DOMAIN ledger, ledger[k].transfer # NoTransfer
                   PROVE  /\ Ships(ledger'[k]) => transfer'[ledger[k].transfer].status \in AfterShipping
                          /\ Arrives(ledger'[k]) => transfer'[ledger[k].transfer].status \in AfterArrival
                          /\ \A i \in DOMAIN todo' :
                                todo'[i].op = "insert" /\ todo'[i].row.transfer = ledger[k].transfer =>
                                    /\ ~(Ships(ledger'[k]) /\ Ships(todo'[i].row))
                                    /\ ~(Arrives(ledger'[k]) /\ Arrives(todo'[i].row))
        BY <2>1, <2>2 DEF SettledRows
      <3>1. ledger[k].transfer \in Transfers
        BY RowTransfer DEF TypeOK
      <3>2. Ships(ledger[k]) => transfer'[ledger[k].transfer].status \in AfterShipping
        BY <1>4, <3>1 DEF SettledRows
      <3>3. Arrives(ledger[k]) => transfer'[ledger[k].transfer].status \in AfterArrival
        BY <1>4, <3>1 DEF SettledRows
      <3>4. ASSUME NEW i \in DOMAIN todo',
                   todo'[i].op = "insert", todo'[i].row.transfer = ledger[k].transfer
            PROVE  /\ ~(Ships(ledger'[k]) /\ Ships(todo'[i].row))
                   /\ ~(Arrives(ledger'[k]) /\ Arrives(todo'[i].row))
        <4>1. /\ ~(Ships(ledger[k]) /\ Ships(todo[i + 1].row))
              /\ ~(Arrives(ledger[k]) /\ Arrives(todo[i + 1].row))
          BY <1>3, <3>4 DEF SettledRows
        <4> QED BY <4>1, <2>2, <1>3 DEF Ships, Arrives
      <3>5. ledger'[k].transfer = ledger[k].transfer
        BY <2>2
      <3> QED BY <2>2, <3>2, <3>3, <3>4, <3>5 DEF AfterShipping, AfterArrival
    <2>4. SettledInserts'
      <3> SUFFICES ASSUME NEW i \in DOMAIN todo', todo'[i].op = "insert",
                          todo'[i].row.transfer # NoTransfer
                   PROVE  /\ Ships(todo'[i].row) => transfer'[todo'[i].row.transfer].status \in AfterShipping
                          /\ Arrives(todo'[i].row) => transfer'[todo'[i].row.transfer].status \in AfterArrival
                          /\ \A j \in DOMAIN todo' :
                                todo'[j].op = "insert" /\ todo'[j].row.transfer = todo'[i].row.transfer
                                => j = i
        BY DEF SettledInserts, Ships, Arrives, AfterShipping, AfterArrival
      <3> DEFINE x == todo[i + 1].row.transfer
      <3>1. i + 1 \in DOMAIN todo /\ todo'[i] = todo[i + 1] /\ x \in Transfers /\ i \in Nat
        BY <1>3, <1>5, RowTransfer
      <3>2. \A j \in DOMAIN todo' :
              todo'[j].op = "insert" /\ todo'[j].row.transfer = todo'[i].row.transfer => j = i
        <4>1. \A j \in DOMAIN todo :
                todo[j].op = "insert" /\ todo[j].row.transfer = todo[i + 1].row.transfer => j = i + 1
          BY <3>1 DEF SettledInserts
        <4> QED BY <1>3, <3>1, <4>1
      <3>3. ASSUME NEW s \in Statuses, todo[1] = SetStatus(x, s)
            PROVE  transfer'[x].status = s
        <4>1. WriteStatus /\ Head(todo).transfer = x /\ Head(todo).to = s
          BY <1>2, <3>3, StatementEffects DEF SetStatus
        <4>4. todo[1].op = "status" /\ todo[1].transfer = x
          BY <3>3 DEF SetStatus
        <4>5. transfer[x] # Missing
          BY <1>2, <4>4 DEF PendingIsAllowed
        <4>2. transfer[x] \in TransferRows
          BY <3>1, <4>5 DEF TypeOK
        <4>3. [transfer[x] EXCEPT !.status = s].status = s
          BY <4>2 DEF TransferRows
        <4> QED BY <3>1, <4>1, <4>3 DEF WriteStatus, TypeOK
      <3>4. Ships(todo'[i].row) => transfer'[x].status \in AfterShipping
        <4>1. CASE todo[1] = SetStatus(x, "DISPATCHED")
          BY <3>3, <4>1 DEF AfterShipping, Statuses
        <4>2. CASE todo[1] # SetStatus(x, "DISPATCHED")
          BY <3>1, <4>2, <1>4 DEF SettledInserts
        <4> QED BY <4>1, <4>2
      <3>5. Arrives(todo'[i].row) => transfer'[x].status \in AfterArrival
        <4>1. CASE todo[1] = SetStatus(x, "RECEIVED")
          BY <3>3, <4>1 DEF AfterArrival, Statuses
        <4>2. CASE todo[1] # SetStatus(x, "RECEIVED")
          BY <3>1, <4>2, <1>4 DEF SettledInserts
        <4> QED BY <4>1, <4>2
      <3> QED BY <3>1, <3>2, <3>4, <3>5
    <2>5. AmendsNoTransfer'
      <3> SUFFICES ASSUME NEW i \in DOMAIN todo', todo'[i].op = "amend"
                   PROVE  /\ todo'[i].id \in DOMAIN ledger'
                          /\ ledger'[todo'[i].id].type \notin {"TRANSFER_OUT", "TRANSFER_IN"}
        BY DEF AmendsNoTransfer
      <3> QED BY <1>3, <2>1, <2>2 DEF AmendsNoTransfer
    <2>6. TransferMovesOnce'
      BY <2>1, <2>2 DEF TransferMovesOnce
    <2> QED BY <2>3, <2>4, <2>5, <2>6
  <1>7. CASE Head(todo).op = "insert"
    <2> DEFINE r == Head(todo).row
               n == Len(ledger) + 1
    <2>1. InsertRow /\ transfer' = transfer
      BY <1>7, StatementEffects
    <2>2. r \in Rows
      BY <1>2, <1>5, <1>7
    <2>3. ledger \in Seq(Rows) /\ ledger' = Append(ledger, r)
      BY <2>1 DEF InsertRow, TypeOK
    <2>4. /\ DOMAIN ledger' = DOMAIN ledger \cup {n}
          /\ n \notin DOMAIN ledger
          /\ ledger'[n] = r
          /\ \A k \in DOMAIN ledger : ledger'[k] = ledger[k]
      BY <2>2, <2>3
    <2>5. r.transfer # NoTransfer =>
             /\ Ships(r) => transfer[r.transfer].status \in AfterShipping
             /\ Arrives(r) => transfer[r.transfer].status \in AfterArrival
             /\ \A j \in DOMAIN todo :
                   todo[j].op = "insert" /\ todo[j].row.transfer = r.transfer => j = 1
      BY <1>2, <1>7 DEF SettledInserts, SetStatus
    <2>6. r.transfer # NoTransfer =>
             \A i \in DOMAIN todo' : ~(todo'[i].op = "insert" /\ todo'[i].row.transfer = r.transfer)
      BY <1>3, <2>5
    <2>7. SettledRows'
      <3> SUFFICES ASSUME NEW k \in DOMAIN ledger', ledger'[k].transfer # NoTransfer
                   PROVE  /\ Ships(ledger'[k]) => transfer'[ledger'[k].transfer].status \in AfterShipping
                          /\ Arrives(ledger'[k]) => transfer'[ledger'[k].transfer].status \in AfterArrival
                          /\ \A i \in DOMAIN todo' :
                                todo'[i].op = "insert" /\ todo'[i].row.transfer = ledger'[k].transfer =>
                                    /\ ~(Ships(ledger'[k]) /\ Ships(todo'[i].row))
                                    /\ ~(Arrives(ledger'[k]) /\ Arrives(todo'[i].row))
        BY DEF SettledRows, Ships, Arrives, AfterShipping, AfterArrival
      <3>1. CASE k = n
        BY <2>1, <2>4, <2>5, <2>6, <3>1 DEF AfterShipping, AfterArrival
      <3>2. CASE k \in DOMAIN ledger
        <4>1. /\ Ships(ledger[k]) => transfer[ledger[k].transfer].status \in AfterShipping
              /\ Arrives(ledger[k]) => transfer[ledger[k].transfer].status \in AfterArrival
          BY <2>4, <3>2 DEF SettledRows
        <4>2. ASSUME NEW i \in DOMAIN todo', todo'[i].op = "insert",
                     todo'[i].row.transfer = ledger[k].transfer
              PROVE  /\ ~(Ships(ledger[k]) /\ Ships(todo'[i].row))
                     /\ ~(Arrives(ledger[k]) /\ Arrives(todo'[i].row))
          BY <1>3, <2>4, <3>2, <4>2 DEF SettledRows
        <4>3. ledger'[k] = ledger[k]
          BY <2>4, <3>2
        <4> QED BY <2>1, <4>1, <4>2, <4>3 DEF AfterShipping, AfterArrival
      <3> QED BY <2>4, <3>1, <3>2
    <2>8. SettledInserts'
      <3> SUFFICES ASSUME NEW i \in DOMAIN todo', todo'[i].op = "insert",
                          todo'[i].row.transfer # NoTransfer
                   PROVE  /\ Ships(todo'[i].row) => transfer'[todo'[i].row.transfer].status \in AfterShipping
                          /\ Arrives(todo'[i].row) => transfer'[todo'[i].row.transfer].status \in AfterArrival
                          /\ \A j \in DOMAIN todo' :
                                todo'[j].op = "insert" /\ todo'[j].row.transfer = todo'[i].row.transfer
                                => j = i
        BY DEF SettledInserts, Ships, Arrives, AfterShipping, AfterArrival
      <3>1. i + 1 \in DOMAIN todo /\ todo'[i] = todo[i + 1] /\ i \in Nat
        BY <1>3
      <3>2. \A y, s : todo[1] # SetStatus(y, s)
        BY <1>2, <1>7 DEF SetStatus
      <3>3. /\ Ships(todo[i + 1].row) => transfer[todo[i + 1].row.transfer].status \in AfterShipping
            /\ Arrives(todo[i + 1].row) => transfer[todo[i + 1].row.transfer].status \in AfterArrival
        BY <3>1, <3>2 DEF SettledInserts
      <3>4. \A j \in DOMAIN todo :
              todo[j].op = "insert" /\ todo[j].row.transfer = todo[i + 1].row.transfer => j = i + 1
        BY <3>1 DEF SettledInserts
      <3>5. \A j \in DOMAIN todo' :
              todo'[j].op = "insert" /\ todo'[j].row.transfer = todo'[i].row.transfer => j = i
        BY <1>3, <3>1, <3>4
      <3> QED BY <2>1, <3>1, <3>3, <3>5 DEF AfterShipping, AfterArrival
    <2>9. AmendsNoTransfer'
      BY <1>3, <2>4 DEF AmendsNoTransfer
    <2>10. \A k \in DOMAIN ledger : ledger[k].transfer # NoTransfer /\ ledger[k].transfer = r.transfer =>
             /\ ~(Ships(ledger[k]) /\ Ships(r))
             /\ ~(Arrives(ledger[k]) /\ Arrives(r))
      BY <1>2, <1>7 DEF SettledRows
    <2>11. TransferMovesOnce'
      <3> SUFFICES ASSUME NEW k \in DOMAIN ledger', NEW m \in DOMAIN ledger',
                          ledger'[k].transfer # NoTransfer,
                          ledger'[k].transfer = ledger'[m].transfer,
                          \/ Ships(ledger'[k]) /\ Ships(ledger'[m])
                          \/ Arrives(ledger'[k]) /\ Arrives(ledger'[m])
                   PROVE  k = m
        BY DEF TransferMovesOnce, Ships, Arrives
      <3>1. CASE k \in DOMAIN ledger /\ m \in DOMAIN ledger
        BY <2>4, <3>1 DEF TransferMovesOnce
      <3>2. CASE k = n \/ m = n
        BY <2>4, <2>10, <3>2
      <3> QED BY <2>4, <3>1, <3>2
    <2> QED BY <2>7, <2>8, <2>9, <2>11
  <1> QED BY <1>6, <1>7

-----------------------------------------------------------------------------
(* Starting a command. *)

(* What a starting command must show of its statements.                      *)
LEMMA StartFrame ==
    ASSUME CommandInv,
           UNCHANGED <<transfer, ledger, balance, events, faults>>,
           corrections' \in Nat, corrections' = 0 => corrections = 0,
           todo' \in Seq(Statements),
           FindsItsRow', PendingIsCovered', PendingIsAllowed', SettledInserts', AmendsNoTransfer',
           \A k \in DOMAIN ledger, i \in DOMAIN todo' :
              /\ ledger[k].transfer # NoTransfer
              /\ todo'[i].op = "insert"
              /\ todo'[i].row.transfer = ledger[k].transfer
              => /\ ~(Ships(ledger[k]) /\ Ships(todo'[i].row))
                 /\ ~(Arrives(ledger[k]) /\ Arrives(todo'[i].row))
    PROVE  CommandInv'
  <1>1. TypeOK'
    BY DEF CommandInv, TypeOK
  <1>2. StockStaysCovered'
    BY DEF CommandInv, StockStaysCovered
  <1>3. TransferMovesOnce'
    BY DEF CommandInv, TransferMovesOnce
  <1>4. SettledRows'
    BY DEF CommandInv, RowsAreUnique, SettledRows
  <1> QED BY <1>1, <1>2, <1>3, <1>4 DEF CommandInv, RowsAreUnique

(* A movement that belongs to no transfer (return_stock, adjust_stock).      *)
LEMMA PlainStarts ==
    ASSUME CommandInv, NEW r \in Rows, r.transfer = NoTransfer,
           corrections = 0 => balance[r.place] + r.delta >= 0,
           Begin(Movement(r)), UNCHANGED corrections
    PROVE  CommandInv'
  <1>1. ledger \in Seq(Rows) /\ todo' = Movement(r)
        /\ UNCHANGED <<transfer, ledger, balance, events, faults>>
    BY DEF CommandInv, TypeOK, Begin
  <1>2. todo' \in Seq(Statements) /\ DOMAIN todo' = {1, 2, 3}
    BY <1>1, MovementFacts
  <1>3. /\ todo'[1] = Insert(r)
        /\ todo'[2] = Add(r.place, r.delta)
        /\ todo'[3] = Queue(Len(ledger) + 1, r.delta)
    BY <1>1, MovementFacts
  <1>4. /\ todo'[1].op = "insert" /\ todo'[1].row = r
        /\ todo'[2].op = "balance" /\ todo'[2].place = r.place /\ todo'[2].delta = r.delta
        /\ todo'[3].op = "queue" /\ todo'[3].id = Len(ledger) + 1
    BY <1>3 DEF Insert, Add, Queue
  <1>5. FindsItsRow'
    BY <1>1, <1>2, <1>4 DEF FindsItsRow
  <1>6. PendingIsCovered'
    BY <1>1, <1>2, <1>4 DEF PendingIsCovered
  <1>7. PendingIsAllowed'
    BY <1>2, <1>4 DEF PendingIsAllowed
  <1>8. SettledInserts'
    BY <1>2, <1>4 DEF SettledInserts
  <1>9. AmendsNoTransfer'
    BY <1>2, <1>4 DEF AmendsNoTransfer
  <1>10. \A i \in DOMAIN todo' : todo'[i].op = "insert" => todo'[i].row.transfer = NoTransfer
    BY <1>2, <1>4
  <1>11. corrections' \in Nat /\ (corrections' = 0 => corrections = 0)
    BY DEF CommandInv, TypeOK
  <1> QED BY <1>1, <1>2, <1>5, <1>6, <1>7, <1>8, <1>9, <1>10, <1>11, StartFrame

(* The elements of two sequences joined.                                     *)
LEMMA OneThenThree ==
    ASSUME NEW S, NEW u \in Seq(S), NEW v \in Seq(S), Len(u) = 1, Len(v) = 3
    PROVE  /\ u \o v \in Seq(S)
           /\ DOMAIN (u \o v) = {1, 2, 3, 4}
           /\ (u \o v)[1] = u[1] /\ (u \o v)[2] = v[1] /\ (u \o v)[3] = v[2] /\ (u \o v)[4] = v[3]
  <1> DEFINE w == u \o v
  <1>1. /\ w \in Seq(S) /\ Len(w) = Len(u) + Len(v)
        /\ \A i \in 1 .. Len(u) + Len(v) : w[i] = IF i <= Len(u) THEN u[i] ELSE v[i - Len(u)]
    BY ConcatProperties, Zenon
  <1> HIDE DEF w
  <1>2. Len(w) = 4 /\ \A i \in 1..4 : w[i] = IF i <= 1 THEN u[i] ELSE v[i - 1]
    BY <1>1
  <1>3. w[1] = u[1] /\ w[2] = v[1] /\ w[3] = v[2] /\ w[4] = v[3]
    BY <1>2
  <1>4. DOMAIN w = {1, 2, 3, 4}
    BY <1>1, <1>2
  <1> QED BY <1>1, <1>3, <1>4 DEF w

LEMMA ThreeThenOne ==
    ASSUME NEW S, NEW u \in Seq(S), NEW v \in Seq(S), Len(u) = 3, Len(v) = 1
    PROVE  /\ u \o v \in Seq(S)
           /\ DOMAIN (u \o v) = {1, 2, 3, 4}
           /\ (u \o v)[1] = u[1] /\ (u \o v)[2] = u[2] /\ (u \o v)[3] = u[3] /\ (u \o v)[4] = v[1]
  <1> DEFINE w == u \o v
  <1>1. /\ w \in Seq(S) /\ Len(w) = Len(u) + Len(v)
        /\ \A i \in 1 .. Len(u) + Len(v) : w[i] = IF i <= Len(u) THEN u[i] ELSE v[i - Len(u)]
    BY ConcatProperties, Zenon
  <1> HIDE DEF w
  <1>2. Len(w) = 4 /\ \A i \in 1..4 : w[i] = IF i <= 3 THEN u[i] ELSE v[i - 3]
    BY <1>1
  <1>3. w[1] = u[1] /\ w[2] = u[2] /\ w[3] = u[3] /\ w[4] = v[1]
    BY <1>2
  <1>4. DOMAIN w = {1, 2, 3, 4}
    BY <1>1, <1>2
  <1> QED BY <1>1, <1>3, <1>4 DEF w

(* Status first: dispatch_transfer and receive_transfer.                     *)
LEMMA StatusFirstStarts ==
    ASSUME CommandInv, NEW x \in Transfers, NEW to \in {"DISPATCHED", "RECEIVED"}, NEW r \in Rows,
           transfer[x] # Missing,
           <<transfer[x].status, to>> \in AllowedTransitions,
           r.transfer = x,
           corrections = 0 => balance[r.place] + r.delta >= 0,
           Ships(r) => to = "DISPATCHED" /\ transfer[x].status \notin AfterShipping,
           Arrives(r) => to = "RECEIVED" /\ transfer[x].status \notin AfterArrival,
           Begin(StatusFirst(x, to, r)), UNCHANGED corrections
    PROVE  CommandInv'
  <1>1. ledger \in Seq(Rows) /\ todo' = <<SetStatus(x, to)>> \o Movement(r)
        /\ UNCHANGED <<transfer, ledger, balance, events, faults>>
    BY DEF CommandInv, TypeOK, Begin, StatusFirst
  <1>2. SetStatus(x, to) \in Statements
    BY DEF SetStatus, Statements, Statuses
  <1>3. /\ Movement(r) \in Seq(Statements) /\ DOMAIN Movement(r) = {1, 2, 3}
        /\ Movement(r)[1] = Insert(r)
        /\ Movement(r)[2] = Add(r.place, r.delta)
        /\ Movement(r)[3] = Queue(Len(ledger) + 1, r.delta)
    BY <1>1, MovementFacts
  <1>4. Len(Movement(r)) = 3
    BY <1>3
  <1>5. <<SetStatus(x, to)>> \in Seq(Statements) /\ Len(<<SetStatus(x, to)>>) = 1
        /\ <<SetStatus(x, to)>>[1] = SetStatus(x, to)
    BY <1>2
  <1>6. /\ todo' \in Seq(Statements) /\ DOMAIN todo' = {1, 2, 3, 4}
        /\ todo'[1] = SetStatus(x, to) /\ todo'[2] = Insert(r)
        /\ todo'[3] = Add(r.place, r.delta) /\ todo'[4] = Queue(Len(ledger) + 1, r.delta)
    <2> DEFINE u == <<SetStatus(x, to)>>
               v == Movement(r)
    <2>1. u \in Seq(Statements) /\ Len(u) = 1 /\ v \in Seq(Statements) /\ Len(v) = 3
      BY <1>3, <1>4, <1>5
    <2>2. u[1] = SetStatus(x, to) /\ v[1] = Insert(r) /\ v[2] = Add(r.place, r.delta)
          /\ v[3] = Queue(Len(ledger) + 1, r.delta)
      BY <1>3, <1>5
    <2>3. todo' = u \o v
      BY <1>1
    <2> HIDE DEF u, v
    <2>4. /\ u \o v \in Seq(Statements)
          /\ DOMAIN (u \o v) = {1, 2, 3, 4}
          /\ (u \o v)[1] = u[1] /\ (u \o v)[2] = v[1] /\ (u \o v)[3] = v[2] /\ (u \o v)[4] = v[3]
      BY <2>1, OneThenThree
    <2> QED BY <2>2, <2>3, <2>4
  <1>7. /\ todo'[1].op = "status" /\ todo'[1].transfer = x /\ todo'[1].to = to
        /\ todo'[2].op = "insert" /\ todo'[2].row = r
        /\ todo'[3].op = "balance" /\ todo'[3].place = r.place /\ todo'[3].delta = r.delta
        /\ todo'[4].op = "queue" /\ todo'[4].id = Len(ledger) + 1
    BY <1>6 DEF SetStatus, Insert, Add, Queue
  <1>8. \A i \in DOMAIN todo' : i = 1 \/ i = 2 \/ i = 3 \/ i = 4
    BY <1>6
  <1>9. FindsItsRow'
    <2>1. \A i \in DOMAIN todo' :
             todo'[i].op \in {"queue", "amend", "requeue", "remove", "withdraw"} => i = 4
      BY <1>7, <1>8
    <2>2. 2 \in DOMAIN todo' /\ 2 < 4 /\ todo'[2].op = "insert"
      BY <1>6, <1>7
    <2>3. todo'[4].id = Len(ledger') + 1
      BY <1>1, <1>7
    <2> QED BY <1>7, <2>1, <2>2, <2>3 DEF FindsItsRow
  <1>10. PendingIsCovered'
    <2>1. \A i \in DOMAIN todo' : todo'[i].op = "balance" => i = 3
      BY <1>7, <1>8
    <2>2. corrections' = 0 => balance'[todo'[3].place] + todo'[3].delta >= 0
      BY <1>1, <1>7
    <2> QED BY <2>1, <2>2 DEF PendingIsCovered
  <1>11. PendingIsAllowed'
    <2> SUFFICES ASSUME NEW i \in DOMAIN todo', todo'[i].op = "status"
                 PROVE  /\ transfer'[todo'[i].transfer] # Missing
                        /\ <<transfer'[todo'[i].transfer].status, todo'[i].to>> \in AllowedTransitions
                        /\ \A j \in DOMAIN todo' : todo'[j].op = "status" => j = i
      BY DEF PendingIsAllowed
    <2>1. i = 1 /\ \A j \in DOMAIN todo' : todo'[j].op = "status" => j = 1
      BY <1>7, <1>8
    <2> QED BY <1>1, <1>7, <2>1
  <1>12. SettledInserts'
    <2> SUFFICES ASSUME NEW i \in DOMAIN todo', todo'[i].op = "insert"
                 PROVE  /\ Ships(todo'[i].row) =>
                              i = 2 /\ todo'[1] = SetStatus(todo'[i].row.transfer, "DISPATCHED")
                        /\ Arrives(todo'[i].row) =>
                              i = 2 /\ todo'[1] = SetStatus(todo'[i].row.transfer, "RECEIVED")
                        /\ \A j \in DOMAIN todo' : todo'[j].op = "insert" => j = i
      BY DEF SettledInserts, Ships, Arrives, SetStatus
    <2>1. i = 2 /\ \A j \in DOMAIN todo' : todo'[j].op = "insert" => j = 2
      BY <1>7, <1>8
    <2> QED BY <1>6, <1>7, <2>1
  <1>13. AmendsNoTransfer'
    <2>1. \A i \in DOMAIN todo' : todo'[i].op # "amend"
      BY <1>7, <1>8
    <2> QED BY <2>1 DEF AmendsNoTransfer
  <1>14. ASSUME NEW k \in DOMAIN ledger, NEW i \in DOMAIN todo',
                ledger[k].transfer # NoTransfer,
                todo'[i].op = "insert", todo'[i].row.transfer = ledger[k].transfer
         PROVE  /\ ~(Ships(ledger[k]) /\ Ships(todo'[i].row))
                /\ ~(Arrives(ledger[k]) /\ Arrives(todo'[i].row))
    <2>1. todo'[i].row = r /\ ledger[k].transfer = x
      BY <1>7, <1>8, <1>14
    <2> QED BY <1>14, <2>1 DEF CommandInv, RowsAreUnique, SettledRows
  <1>15. corrections' \in Nat /\ (corrections' = 0 => corrections = 0)
    BY DEF CommandInv, TypeOK
  <1> QED BY <1>1, <1>6, <1>9, <1>10, <1>11, <1>12, <1>13, <1>14, <1>15, StartFrame

(* Status last: cancel_transfer of a transfer that was shipped.              *)
LEMMA CancelStarts ==
    ASSUME CommandInv, NEW x \in Transfers, CancelShipped(x)
    PROVE  CommandInv'
  <1> DEFINE r == Row(Available(transfer[x].source), transfer[x].quantity, "TRANSFER_OUT", x)
  <1>1. /\ ledger \in Seq(Rows) /\ todo' = Movement(r) \o <<SetStatus(x, "CANCELLED")>>
        /\ UNCHANGED <<transfer, ledger, balance, events, faults, corrections>>
        /\ transfer[x].status \in Shipped
    BY DEF CommandInv, TypeOK, Begin, CancelShipped
  <1>2. transfer[x] \in TransferRows /\ transfer[x] # Missing
    BY <1>1 DEF CommandInv, TypeOK, Shipped, Missing
  <1>3. transfer[x].source \in Stores /\ transfer[x].quantity \in Int /\ transfer[x].quantity > 0
    BY <1>2 DEF TransferRows
  <1>4. Available(transfer[x].source) \in Places
    BY <1>3, StockAssumption DEF Available, Places
  <1>5. /\ r \in Rows /\ r.transfer = x /\ ~Ships(r) /\ ~Arrives(r)
        /\ r.place \in Places /\ r.delta \in Int /\ r.delta > 0
    BY <1>3, <1>4 DEF Row, Rows, MovementTypes, Ships, Arrives
  <1>6. <<transfer[x].status, "CANCELLED">> \in AllowedTransitions
    BY <1>1 DEF Shipped, AllowedTransitions
  <1>7. corrections = 0 => balance[r.place] + r.delta >= 0
    <2>1. corrections = 0 => balance[r.place] >= 0 /\ balance[r.place] \in Int
      BY <1>5 DEF CommandInv, StockStaysCovered, TypeOK
    <2> QED BY <1>5, <2>1
  <1> HIDE DEF r
  <1>8. /\ todo' \in Seq(Statements) /\ DOMAIN todo' = {1, 2, 3, 4}
        /\ todo'[1] = Insert(r) /\ todo'[2] = Add(r.place, r.delta)
        /\ todo'[3] = Queue(Len(ledger) + 1, r.delta) /\ todo'[4] = SetStatus(x, "CANCELLED")
    <2> DEFINE u == Movement(r)
               v == <<SetStatus(x, "CANCELLED")>>
    <2>1. /\ u \in Seq(Statements) /\ DOMAIN u = {1, 2, 3}
          /\ u[1] = Insert(r) /\ u[2] = Add(r.place, r.delta)
          /\ u[3] = Queue(Len(ledger) + 1, r.delta)
      BY <1>1, <1>5, MovementFacts
    <2>2. Len(u) = 3
      BY <2>1
    <2>3. SetStatus(x, "CANCELLED") \in Statements
      BY DEF SetStatus, Statements, Statuses
    <2>4. v \in Seq(Statements) /\ Len(v) = 1 /\ v[1] = SetStatus(x, "CANCELLED")
      BY <2>3
    <2>5. todo' = u \o v
      BY <1>1
    <2> HIDE DEF u, v
    <2>6. /\ u \o v \in Seq(Statements)
          /\ DOMAIN (u \o v) = {1, 2, 3, 4}
          /\ (u \o v)[1] = u[1] /\ (u \o v)[2] = u[2] /\ (u \o v)[3] = u[3] /\ (u \o v)[4] = v[1]
      BY <2>1, <2>2, <2>4, ThreeThenOne
    <2> QED BY <2>1, <2>4, <2>5, <2>6
  <1>9. /\ todo'[1].op = "insert" /\ todo'[1].row = r
        /\ todo'[2].op = "balance" /\ todo'[2].place = r.place /\ todo'[2].delta = r.delta
        /\ todo'[3].op = "queue" /\ todo'[3].id = Len(ledger) + 1
        /\ todo'[4].op = "status" /\ todo'[4].transfer = x /\ todo'[4].to = "CANCELLED"
    BY <1>8 DEF SetStatus, Insert, Add, Queue
  <1>10. \A i \in DOMAIN todo' : i = 1 \/ i = 2 \/ i = 3 \/ i = 4
    BY <1>8
  <1>11. FindsItsRow'
    <2>1. \A i \in DOMAIN todo' :
             todo'[i].op \in {"queue", "amend", "requeue", "remove", "withdraw"} => i = 3
      BY <1>9, <1>10
    <2>2. 1 \in DOMAIN todo' /\ 1 < 3 /\ todo'[1].op = "insert"
      BY <1>8, <1>9
    <2>3. todo'[3].id = Len(ledger') + 1
      BY <1>1, <1>9
    <2> QED BY <1>9, <2>1, <2>2, <2>3 DEF FindsItsRow
  <1>12. PendingIsCovered'
    <2>1. \A i \in DOMAIN todo' : todo'[i].op = "balance" => i = 2
      BY <1>9, <1>10
    <2>2. corrections' = 0 => balance'[todo'[2].place] + todo'[2].delta >= 0
      BY <1>1, <1>7, <1>9
    <2> QED BY <2>1, <2>2 DEF PendingIsCovered
  <1>13. PendingIsAllowed'
    <2>1. \A i \in DOMAIN todo' : todo'[i].op = "status" => i = 4
      BY <1>9, <1>10
    <2>2. transfer'[todo'[4].transfer] # Missing
          /\ <<transfer'[todo'[4].transfer].status, todo'[4].to>> \in AllowedTransitions
      BY <1>1, <1>2, <1>6, <1>9
    <2> QED BY <2>1, <2>2 DEF PendingIsAllowed, Missing
  <1>14. \A i \in DOMAIN todo' : todo'[i].op = "insert" => i = 1 /\ todo'[i].row = r
    BY <1>9, <1>10
  <1>15. SettledInserts'
    <2> SUFFICES ASSUME NEW i \in DOMAIN todo', todo'[i].op = "insert"
                 PROVE  /\ ~Ships(todo'[i].row) /\ ~Arrives(todo'[i].row)
                        /\ \A j \in DOMAIN todo' : todo'[j].op = "insert" => j = i
      BY DEF SettledInserts, Ships, Arrives
    <2> QED BY <1>5, <1>14
  <1>16. AmendsNoTransfer'
    <2>1. \A i \in DOMAIN todo' : todo'[i].op # "amend"
      BY <1>9, <1>10
    <2> QED BY <2>1 DEF AmendsNoTransfer
  <1>17. corrections' \in Nat /\ (corrections' = 0 => corrections = 0)
    BY <1>1 DEF CommandInv, TypeOK
  <1> QED BY <1>1, <1>5, <1>8, <1>11, <1>12, <1>13, <1>14, <1>15, <1>16, <1>17, StartFrame

(* A status alone: cancel_transfer of a draft, mark_transfer_exception.      *)
LEMMA StatusStarts ==
    ASSUME CommandInv, NEW x \in Transfers, NEW to \in Statuses,
           transfer[x] # Missing,
           <<transfer[x].status, to>> \in AllowedTransitions,
           Begin(<<SetStatus(x, to)>>), UNCHANGED corrections
    PROVE  CommandInv'
  <1>1. todo' = <<SetStatus(x, to)>> /\ UNCHANGED <<transfer, ledger, balance, events, faults>>
    BY DEF Begin
  <1>2. SetStatus(x, to) \in Statements
    BY DEF SetStatus, Statements
  <1>3. todo' \in Seq(Statements) /\ DOMAIN todo' = {1} /\ todo'[1] = SetStatus(x, to)
    BY <1>1, <1>2
  <1>4. todo'[1].op = "status" /\ todo'[1].transfer = x /\ todo'[1].to = to
    BY <1>3 DEF SetStatus
  <1>5. \A i \in DOMAIN todo' : i = 1 /\ todo'[i].op = "status"
    BY <1>3, <1>4
  <1>6. FindsItsRow' /\ PendingIsCovered' /\ SettledInserts' /\ AmendsNoTransfer'
    BY <1>5 DEF FindsItsRow, PendingIsCovered, SettledInserts, AmendsNoTransfer
  <1>7. PendingIsAllowed'
    BY <1>1, <1>4, <1>5 DEF PendingIsAllowed, Missing
  <1>8. corrections' \in Nat /\ (corrections' = 0 => corrections = 0)
    BY DEF CommandInv, TypeOK
  <1> QED BY <1>1, <1>3, <1>5, <1>6, <1>7, <1>8, StartFrame

(* move_stock_bucket: two rows, two balances, two events.                    *)
LEMMA BucketStarts ==
    ASSUME CommandInv, NEW st \in Stores, NEW from \in Buckets, NEW to \in Buckets,
           NEW q \in Int, MoveStockBucket(st, from, to, q)
    PROVE  CommandInv'
  <1> DEFINE out == Row(<<st, from>>, -q, "DAMAGE", NoTransfer)
             in == Row(<<st, to>>, q, "DAMAGE", NoTransfer)
             n == Len(ledger) + 1
  <1>1. /\ ledger \in Seq(Rows)
        /\ UNCHANGED <<transfer, ledger, balance, events, faults, corrections>>
        /\ q > 0 /\ from # to /\ q <= balance[<<st, from>>]
        /\ todo' = <<Insert(out), Insert(in), Add(<<st, from>>, -q), Add(<<st, to>>, q),
                     Queue(n, -q), Queue(n + 1, q)>>
    BY DEF CommandInv, TypeOK, Begin, MoveStockBucket, Covered, NextId
  <1>2. <<st, from>> \in Places /\ <<st, to>> \in Places /\ <<st, from>> # <<st, to>>
    BY <1>1 DEF Places
  <1>3. out \in Rows /\ in \in Rows /\ out.transfer = NoTransfer /\ in.transfer = NoTransfer
    BY <1>2 DEF Row, Rows, MovementTypes
  <1>4. n \in Nat /\ n + 1 \in Nat /\ n + 1 = Len(ledger) + 2
    BY <1>1
  <1> HIDE DEF out, in, n
  <1>5. /\ Insert(out) \in Statements /\ Insert(in) \in Statements
        /\ Add(<<st, from>>, -q) \in Statements /\ Add(<<st, to>>, q) \in Statements
        /\ Queue(n, -q) \in Statements /\ Queue(n + 1, q) \in Statements
    BY <1>2, <1>3, <1>4 DEF Insert, Add, Queue, Statements
  <1>6. /\ todo' \in Seq(Statements) /\ DOMAIN todo' = {1, 2, 3, 4, 5, 6}
        /\ todo'[1] = Insert(out) /\ todo'[2] = Insert(in)
        /\ todo'[3] = Add(<<st, from>>, -q) /\ todo'[4] = Add(<<st, to>>, q)
        /\ todo'[5] = Queue(n, -q) /\ todo'[6] = Queue(n + 1, q)
    BY <1>1, <1>5
  <1>7. /\ todo'[1].op = "insert" /\ todo'[1].row = out
        /\ todo'[2].op = "insert" /\ todo'[2].row = in
        /\ todo'[3].op = "balance" /\ todo'[3].place = <<st, from>> /\ todo'[3].delta = -q
        /\ todo'[4].op = "balance" /\ todo'[4].place = <<st, to>> /\ todo'[4].delta = q
        /\ todo'[5].op = "queue" /\ todo'[5].id = n
        /\ todo'[6].op = "queue" /\ todo'[6].id = n + 1
    BY <1>6 DEF Insert, Add, Queue
  <1>8. \A i \in DOMAIN todo' : i = 1 \/ i = 2 \/ i = 3 \/ i = 4 \/ i = 5 \/ i = 6
    BY <1>6
  <1>9. FindsItsRow'
    <2>1. \A i \in DOMAIN todo' :
             todo'[i].op \in {"queue", "amend", "requeue", "remove", "withdraw"} => i = 5 \/ i = 6
      BY <1>7, <1>8
    <2>2. 1 \in DOMAIN todo' /\ 1 < 5 /\ 6 > 2
      BY <1>6
    <2>3. todo'[5].id = Len(ledger') + 1 /\ todo'[6].id = Len(ledger') + 2
      BY <1>1, <1>4, <1>7 DEF n
    <2> QED BY <1>7, <2>1, <2>2, <2>3 DEF FindsItsRow
  <1>10. PendingIsCovered'
    <2>1. \A i \in DOMAIN todo' : todo'[i].op = "balance" => i = 3 \/ i = 4
      BY <1>7, <1>8
    <2>2. balance \in [Places -> Int] /\ (corrections = 0 => balance[<<st, to>>] >= 0)
      BY <1>2 DEF CommandInv, TypeOK, StockStaysCovered
    <2>3. balance[<<st, from>>] \in Int /\ balance[<<st, to>>] \in Int
      BY <1>2, <2>2
    <2>4. ASSUME corrections' = 0
          PROVE  /\ balance'[todo'[3].place] + todo'[3].delta >= 0
                 /\ balance'[todo'[4].place] + todo'[4].delta >= 0
      <3>1. balance[<<st, from>>] + (-q) >= 0 /\ balance[<<st, to>>] + q >= 0
        BY <1>1, <2>2, <2>3, <2>4
      <3> QED BY <1>1, <1>7, <3>1
    <2>5. todo'[3].place # todo'[4].place
      BY <1>2, <1>7
    <2> SUFFICES ASSUME NEW i \in DOMAIN todo', todo'[i].op = "balance"
                 PROVE  /\ corrections' = 0 => balance'[todo'[i].place] + todo'[i].delta >= 0
                        /\ \A j \in DOMAIN todo' :
                              todo'[j].op = "balance" /\ todo'[j].place = todo'[i].place => j = i
      BY DEF PendingIsCovered
    <2>6. i = 3 \/ i = 4
      BY <2>1
    <2>7. corrections' = 0 => balance'[todo'[i].place] + todo'[i].delta >= 0
      BY <2>4, <2>6
    <2> QED BY <2>1, <2>5, <2>6, <2>7
  <1>11. \A i \in DOMAIN todo' : /\ todo'[i].op # "status" /\ todo'[i].op # "amend"
                                 /\ todo'[i].op = "insert" => todo'[i].row.transfer = NoTransfer
    BY <1>3, <1>7, <1>8
  <1>12. PendingIsAllowed' /\ SettledInserts' /\ AmendsNoTransfer'
    BY <1>11 DEF PendingIsAllowed, SettledInserts, AmendsNoTransfer
  <1>13. corrections' \in Nat /\ (corrections' = 0 => corrections = 0)
    BY <1>1 DEF CommandInv, TypeOK
  <1> QED BY <1>1, <1>6, <1>9, <1>10, <1>11, <1>12, <1>13, StartFrame

(* A correction: no status, no insertion, rows of no transfer, one balance.  *)
LEMMA CorrectionStarts ==
    ASSUME CommandInv, NEW i \in DOMAIN ledger, Corrects(i),
           UNCHANGED <<transfer, ledger, balance, events, faults>>,
           todo' \in Seq(Statements),
           \A k \in DOMAIN todo' :
              /\ todo'[k].op \in {"balance", "amend", "requeue", "remove", "withdraw"}
              /\ todo'[k].op # "balance" => todo'[k].id = i,
           \A j, k \in DOMAIN todo' : todo'[j].op = "balance" /\ todo'[k].op = "balance" => j = k
    PROVE  CommandInv'
  <1>1. corrections' \in Nat /\ corrections' # 0
    BY DEF Corrects, CommandInv, TypeOK
  <1>2. FindsItsRow'
    BY DEF FindsItsRow
  <1>3. PendingIsCovered'
    BY <1>1 DEF PendingIsCovered
  <1>4. \A k \in DOMAIN todo' : todo'[k].op # "status" /\ todo'[k].op # "insert"
    OBVIOUS
  <1>5. PendingIsAllowed' /\ SettledInserts'
    BY <1>4 DEF PendingIsAllowed, SettledInserts
  <1>6. ledger[i].type \notin {"TRANSFER_OUT", "TRANSFER_IN"}
    BY DEF Corrects
  <1>7. AmendsNoTransfer'
    BY <1>6 DEF AmendsNoTransfer
  <1> QED BY <1>1, <1>2, <1>3, <1>4, <1>5, <1>7, StartFrame

LEMMA DeleteStarts ==
    ASSUME CommandInv, NEW i \in DOMAIN ledger, DeleteTransaction(i)
    PROVE  CommandInv'
  <1> DEFINE a == Add(ledger[i].place, -ledger[i].delta)
  <1>1. /\ Corrects(i) /\ UNCHANGED <<transfer, ledger, balance, events, faults>>
        /\ todo' = <<a, Remove(i), Withdraw(i)>>
    BY DEF DeleteTransaction, Begin
  <1>2. ledger[i] \in Rows /\ i \in Nat
    BY DEF CommandInv, TypeOK
  <1>3. a \in Statements /\ Remove(i) \in Statements /\ Withdraw(i) \in Statements
    BY <1>2 DEF Add, Remove, Withdraw, Statements, Rows
  <1> HIDE DEF a
  <1>4. /\ todo' \in Seq(Statements) /\ DOMAIN todo' = {1, 2, 3}
        /\ todo'[1] = a /\ todo'[2] = Remove(i) /\ todo'[3] = Withdraw(i)
    BY <1>1, <1>3
  <1>5. /\ todo'[1].op = "balance"
        /\ todo'[2].op = "remove" /\ todo'[2].id = i
        /\ todo'[3].op = "withdraw" /\ todo'[3].id = i
    BY <1>4 DEF a, Add, Remove, Withdraw
  <1>6. \A k \in DOMAIN todo' :
           /\ todo'[k].op \in {"balance", "amend", "requeue", "remove", "withdraw"}
           /\ todo'[k].op # "balance" => todo'[k].id = i
           /\ todo'[k].op = "balance" => k = 1
    BY <1>4, <1>5
  <1> QED BY <1>1, <1>4, <1>6, CorrectionStarts

LEMMA UpdateStarts ==
    ASSUME CommandInv, NEW i \in DOMAIN ledger, NEW q \in Int, UpdateTransaction(i, q)
    PROVE  CommandInv'
  <1> DEFINE d == IF ledger[i].type = "SALE" THEN -q ELSE q
             change == Add(ledger[i].place, d - ledger[i].delta)
             patch == IF d = ledger[i].delta THEN <<>> ELSE <<change>>
             u == <<Amend(i, d)>>
             v == u \o patch
             w == <<Requeue(i, d)>>
  <1>1. /\ Corrects(i) /\ UNCHANGED <<transfer, ledger, balance, events, faults>>
        /\ todo' = v \o w
    BY DEF UpdateTransaction, Begin
  <1>2. ledger[i] \in Rows /\ i \in Nat /\ d \in Int
    BY DEF CommandInv, TypeOK
  <1>3. change \in Statements /\ change.op = "balance"
    BY <1>2 DEF Add, Statements, Rows
  <1>4. Amend(i, d) \in Statements /\ Amend(i, d).op = "amend" /\ Amend(i, d).id = i
    BY <1>2 DEF Amend, Statements
  <1>5. Requeue(i, d) \in Statements /\ Requeue(i, d).op = "requeue" /\ Requeue(i, d).id = i
    BY <1>2 DEF Requeue, Statements
  <1> HIDE DEF d, change
  <1>6. u \in Seq(Statements) /\ Len(u) = 1 /\ u[1] = Amend(i, d)
    BY <1>4
  <1>7. w \in Seq(Statements) /\ Len(w) = 1 /\ w[1] = Requeue(i, d)
    BY <1>5
  <1>8. patch \in Seq(Statements) /\ (Len(patch) = 0 \/ (Len(patch) = 1 /\ patch[1] = change))
    BY <1>3
  <1> HIDE DEF patch, u, w
  <1>9. /\ v \in Seq(Statements) /\ Len(v) = Len(u) + Len(patch)
        /\ \A k \in 1 .. Len(u) + Len(patch) : v[k] = IF k <= Len(u) THEN u[k] ELSE patch[k - Len(u)]
    BY <1>6, <1>8, ConcatProperties, Zenon DEF v
  <1> HIDE DEF v
  <1>10. /\ v[1] = Amend(i, d)
         /\ Len(v) = 1 \/ (Len(v) = 2 /\ v[2] = change)
    BY <1>6, <1>8, <1>9
  <1>11. /\ todo' \in Seq(Statements) /\ Len(todo') = Len(v) + Len(w)
         /\ \A k \in 1 .. Len(v) + Len(w) : todo'[k] = IF k <= Len(v) THEN v[k] ELSE w[k - Len(v)]
    <2> DEFINE t == v \o w
    <2>0. v \in Seq(Statements) /\ w \in Seq(Statements)
      BY <1>7, <1>9
    <2>1. /\ t \in Seq(Statements) /\ Len(t) = Len(v) + Len(w)
          /\ \A k \in 1 .. Len(v) + Len(w) : t[k] = IF k <= Len(v) THEN v[k] ELSE w[k - Len(v)]
      BY <2>0, ConcatProperties, Zenon
    <2>2. todo' = t
      BY <1>1
    <2> QED BY <2>1, <2>2, Zenon
  <1>12. \/ /\ DOMAIN todo' = {1, 2}
            /\ todo'[1] = Amend(i, d) /\ todo'[2] = Requeue(i, d)
         \/ /\ DOMAIN todo' = {1, 2, 3}
            /\ todo'[1] = Amend(i, d) /\ todo'[2] = change /\ todo'[3] = Requeue(i, d)
    BY <1>7, <1>10, <1>11
  <1>13. \A k \in DOMAIN todo' :
           /\ todo'[k].op \in {"balance", "amend", "requeue", "remove", "withdraw"}
           /\ todo'[k].op # "balance" => todo'[k].id = i
           /\ todo'[k].op = "balance" => k = 2
    BY <1>3, <1>4, <1>5, <1>12
  <1> QED BY <1>1, <1>11, <1>13, CorrectionStarts

-----------------------------------------------------------------------------
(* The other steps. *)

(* With no command in progress nothing is pending.                           *)
LEMMA NothingPending ==
    ASSUME todo' = <<>>
    PROVE  FindsItsRow' /\ PendingIsCovered' /\ PendingIsAllowed' /\ SettledInserts' /\ AmendsNoTransfer'
  BY DEF FindsItsRow, PendingIsCovered, PendingIsAllowed, SettledInserts, AmendsNoTransfer

(* receive_stock and sell_stock, in one transaction.                         *)
LEMMA RecordKeeps ==
    ASSUME CommandInv, NEW r \in Rows, r.transfer = NoTransfer, Record(r),
           corrections = 0 => balance[r.place] + r.delta >= 0
    PROVE  CommandInv'
  <1>1. /\ todo = <<>> /\ todo' = <<>> /\ ledger \in Seq(Rows) /\ ledger' = Append(ledger, r)
        /\ balance' = [balance EXCEPT ![r.place] = @ + r.delta]
        /\ events' = events \cup {[id |-> Len(ledger) + 1, delta |-> r.delta]}
        /\ UNCHANGED <<transfer, corrections, faults>>
    BY DEF CommandInv, TypeOK, Record, MainThreadFree, NextId
  <1>2. r.place \in Places /\ r.delta \in Int
    BY DEF Rows
  <1>3. /\ ledger' \in Seq(Rows)
        /\ DOMAIN ledger' = DOMAIN ledger \cup {Len(ledger) + 1}
        /\ ledger'[Len(ledger) + 1] = r
        /\ \A k \in DOMAIN ledger : ledger'[k] = ledger[k]
    BY <1>1
  <1>4. TypeOK'
    <2>1. balance' \in [Places -> Int]
      BY <1>1, <1>2 DEF CommandInv, TypeOK
    <2>2. events' \subseteq [id : DOMAIN ledger', delta : Int]
      BY <1>1, <1>2, <1>3 DEF CommandInv, TypeOK
    <2> QED BY <1>1, <1>3, <2>1, <2>2 DEF CommandInv, TypeOK
  <1>5. StockStaysCovered'
    BY <1>1, <1>2 DEF CommandInv, StockStaysCovered, TypeOK
  <1>6. \A k \in DOMAIN ledger' : ledger'[k].transfer # NoTransfer =>
           k \in DOMAIN ledger /\ ledger'[k] = ledger[k]
    BY <1>3
  <1>7. TransferMovesOnce'
    BY <1>6 DEF CommandInv, TransferMovesOnce, Ships, Arrives
  <1>8. SettledRows'
    <2> SUFFICES ASSUME NEW k \in DOMAIN ledger', ledger'[k].transfer # NoTransfer
                 PROVE  /\ Ships(ledger'[k]) => transfer'[ledger'[k].transfer].status \in AfterShipping
                        /\ Arrives(ledger'[k]) => transfer'[ledger'[k].transfer].status \in AfterArrival
                        /\ DOMAIN todo' = {}
      BY DEF SettledRows, Ships, Arrives, AfterShipping, AfterArrival
    <2> QED BY <1>1, <1>6 DEF CommandInv, RowsAreUnique, SettledRows
  <1> QED BY <1>1, <1>4, <1>5, <1>7, <1>8, NothingPending DEF CommandInv, RowsAreUnique

(* create_transfer: the new row is a draft of a transfer nothing names yet.  *)
LEMMA CreateKeeps ==
    ASSUME CommandInv, NEW x \in Transfers, NEW st \in Stores, NEW d \in Stores, NEW q \in Int,
           CreateTransfer(x, st, d, q)
    PROVE  CommandInv'
  <1>1. /\ todo' = <<>> /\ transfer[x] = Missing /\ q > 0
        /\ transfer' = [transfer EXCEPT ![x] = [status |-> "DRAFT", source |-> st,
                                                destination |-> d, quantity |-> q]]
        /\ UNCHANGED <<ledger, balance, events, corrections, faults>>
    BY DEF CreateTransfer, MainThreadFree
  <1>2. [status |-> "DRAFT", source |-> st, destination |-> d, quantity |-> q] \in TransferRows
    BY <1>1 DEF TransferRows, Statuses
  <1>3. TypeOK'
    BY <1>1, <1>2 DEF CommandInv, TypeOK
  <1>4. StockStaysCovered' /\ TransferMovesOnce'
    BY <1>1 DEF CommandInv, StockStaysCovered, TransferMovesOnce
  <1>5. transfer[x].status \notin AfterShipping \cup AfterArrival
    BY <1>1 DEF Missing, AfterShipping, AfterArrival, Statuses
  <1>6. SettledRows'
    <2> SUFFICES ASSUME NEW k \in DOMAIN ledger, ledger[k].transfer # NoTransfer
                 PROVE  /\ Ships(ledger[k]) => transfer'[ledger[k].transfer].status \in AfterShipping
                        /\ Arrives(ledger[k]) => transfer'[ledger[k].transfer].status \in AfterArrival
                        /\ DOMAIN todo' = {}
      BY <1>1 DEF SettledRows, Ships, Arrives, AfterShipping, AfterArrival
    <2>1. ledger[k] \in Rows
      BY DEF CommandInv, TypeOK
    <2>2. ledger[k].transfer \in Transfers
      BY <2>1, RowTransfer
    <2>3. /\ Ships(ledger[k]) => transfer[ledger[k].transfer].status \in AfterShipping
          /\ Arrives(ledger[k]) => transfer[ledger[k].transfer].status \in AfterArrival
      BY DEF CommandInv, RowsAreUnique, SettledRows
    <2>4. ledger[k].transfer # x => transfer'[ledger[k].transfer] = transfer[ledger[k].transfer]
      BY <1>1, <2>2 DEF CommandInv, TypeOK
    <2> QED BY <1>1, <1>5, <2>3, <2>4
  <1> QED BY <1>1, <1>3, <1>4, <1>6, NothingPending DEF CommandInv, RowsAreUnique

(* The rest of a command is dropped.                                         *)
LEMMA InterruptKeeps ==
    ASSUME CommandInv, Interrupt
    PROVE  CommandInv'
  <1>1. /\ todo' = <<>> /\ faults' = faults + 1
        /\ UNCHANGED <<transfer, ledger, balance, events, corrections>>
    BY DEF Interrupt
  <1>2. TypeOK'
    BY <1>1 DEF CommandInv, TypeOK
  <1>3. StockStaysCovered' /\ TransferMovesOnce'
    BY <1>1 DEF CommandInv, StockStaysCovered, TransferMovesOnce
  <1>4. SettledRows'
    BY <1>1 DEF CommandInv, RowsAreUnique, SettledRows
  <1> QED BY <1>1, <1>2, <1>3, <1>4, NothingPending DEF CommandInv, RowsAreUnique

LEMMA StatementKeeps ==
    ASSUME CommandInv, Statement
    PROVE  CommandInv'
  <1> USE DEF CommandInv
  <1>1. TypeOK' /\ FindsItsRow'
    BY StatementTypes, StatementFindsItsRow
  <1>2. PendingIsCovered' /\ StockStaysCovered'
    BY StatementCovered
  <1>3. PendingIsAllowed'
    BY StatementAllowed
  <1>4. RowsAreUnique' /\ TransferMovesOnce'
    BY StatementRows DEF RowsAreUnique
  <1> QED BY <1>1, <1>2, <1>3, <1>4

(* The commands at the counter start, or record, correctly.                  *)
LEMMA CounterKeeps ==
    ASSUME CommandInv, Counter
    PROVE  CommandInv'
  <1>1. PICK st \in Stores, q \in Quantities :
            \/ ReceiveStock(st, q) \/ SellStock(st, q) \/ AdjustStock(st, q) \/ AdjustStock(st, -q)
            \/ \E b \in Buckets : CustomerReturn(<<st, b>>, q) \/ SupplierReturn(<<st, b>>, q)
            \/ \E from, to \in Buckets : MoveStockBucket(st, from, to, q)
    BY DEF Counter
  <1>2. q \in Int /\ -q \in Int /\ Available(st) \in Places
    BY StockAssumption DEF Available, Places
  <1>3. \A p \in Places : balance[p] \in Int /\ (corrections = 0 => balance[p] >= 0)
    BY DEF CommandInv, TypeOK, StockStaysCovered
  <1>4. ASSUME NEW p \in Places, NEW d \in Int, NEW type \in MovementTypes
        PROVE  /\ Row(p, d, type, NoTransfer) \in Rows
               /\ Row(p, d, type, NoTransfer).transfer = NoTransfer
               /\ Row(p, d, type, NoTransfer).place = p
               /\ Row(p, d, type, NoTransfer).delta = d
    BY DEF Row, Rows
  <1>5. {"RECEIPT", "SALE", "RETURN", "ADJUSTMENT"} \subseteq MovementTypes
    BY DEF MovementTypes
  <1>6. CASE ReceiveStock(st, q)
    <2> DEFINE r == Row(Available(st), q, "RECEIPT", NoTransfer)
    <2>1. Record(r) /\ q > 0
      BY <1>6 DEF ReceiveStock
    <2>2. r \in Rows /\ r.transfer = NoTransfer /\ r.place = Available(st) /\ r.delta = q
      BY <1>2, <1>4, <1>5
    <2> HIDE DEF r
    <2>3. corrections = 0 => balance[r.place] + r.delta >= 0
      BY <1>2, <1>3, <2>1, <2>2
    <2> QED BY <2>1, <2>2, <2>3, RecordKeeps
  <1>7. CASE SellStock(st, q)
    <2> DEFINE r == Row(Available(st), -q, "SALE", NoTransfer)
    <2>1. Record(r) /\ q <= balance[Available(st)]
      BY <1>7 DEF SellStock, Covered
    <2>2. r \in Rows /\ r.transfer = NoTransfer /\ r.place = Available(st) /\ r.delta = -q
      BY <1>2, <1>4, <1>5
    <2> HIDE DEF r
    <2>3. corrections = 0 => balance[r.place] + r.delta >= 0
      BY <1>2, <1>3, <2>1, <2>2
    <2> QED BY <2>1, <2>2, <2>3, RecordKeeps
  <1>8. ASSUME NEW d \in Int, AdjustStock(st, d)
        PROVE  CommandInv'
    <2> DEFINE r == Row(Available(st), d, "ADJUSTMENT", NoTransfer)
    <2>1. Begin(Movement(r)) /\ UNCHANGED corrections /\ (d < 0 => -d <= balance[Available(st)])
      BY <1>8 DEF AdjustStock, Covered
    <2>2. r \in Rows /\ r.transfer = NoTransfer /\ r.place = Available(st) /\ r.delta = d
      BY <1>2, <1>4, <1>5
    <2> HIDE DEF r
    <2>3. corrections = 0 => balance[r.place] + r.delta >= 0
      BY <1>2, <1>3, <2>1, <2>2
    <2> QED BY <2>1, <2>2, <2>3, PlainStarts
  <1>9. ASSUME NEW b \in Buckets, CustomerReturn(<<st, b>>, q)
        PROVE  CommandInv'
    <2> DEFINE r == Row(<<st, b>>, q, "RETURN", NoTransfer)
    <2>1. Begin(Movement(r)) /\ UNCHANGED corrections /\ q > 0
      BY <1>9 DEF CustomerReturn
    <2>2. <<st, b>> \in Places
      BY DEF Places
    <2>3. r \in Rows /\ r.transfer = NoTransfer /\ r.place = <<st, b>> /\ r.delta = q
      BY <1>2, <1>4, <1>5, <2>2
    <2> HIDE DEF r
    <2>4. corrections = 0 => balance[r.place] + r.delta >= 0
      BY <1>2, <1>3, <2>1, <2>2, <2>3
    <2> QED BY <2>1, <2>3, <2>4, PlainStarts
  <1>10. ASSUME NEW b \in Buckets, SupplierReturn(<<st, b>>, q)
         PROVE  CommandInv'
    <2> DEFINE r == Row(<<st, b>>, -q, "RETURN", NoTransfer)
    <2>1. Begin(Movement(r)) /\ UNCHANGED corrections /\ q <= balance[<<st, b>>]
      BY <1>10 DEF SupplierReturn, Covered
    <2>2. <<st, b>> \in Places
      BY DEF Places
    <2>3. r \in Rows /\ r.transfer = NoTransfer /\ r.place = <<st, b>> /\ r.delta = -q
      BY <1>2, <1>4, <1>5, <2>2
    <2> HIDE DEF r
    <2>4. corrections = 0 => balance[r.place] + r.delta >= 0
      BY <1>2, <1>3, <2>1, <2>2, <2>3
    <2> QED BY <2>1, <2>3, <2>4, PlainStarts
  <1>11. ASSUME NEW from \in Buckets, NEW to \in Buckets, MoveStockBucket(st, from, to, q)
         PROVE  CommandInv'
    BY <1>2, <1>11, BucketStarts
  <1> QED BY <1>1, <1>2, <1>6, <1>7, <1>8, <1>9, <1>10, <1>11

(* So do the commands of the transfer desk.                                  *)
LEMMA TransferDeskKeeps ==
    ASSUME CommandInv, TransferDesk
    PROVE  CommandInv'
  <1>1. PICK x \in Transfers :
            \/ \E st, d \in Stores, q \in Quantities : CreateTransfer(x, st, d, q)
            \/ DispatchTransfer(x) \/ ReceiveTransfer(x) \/ CancelShipped(x)
            \/ CancelUnshipped(x) \/ MarkTransferException(x)
    BY DEF TransferDesk
  <1>2. \A p \in Places : balance[p] \in Int /\ (corrections = 0 => balance[p] >= 0)
    BY DEF CommandInv, TypeOK, StockStaysCovered
  <1>3. transfer[x] \in TransferRows \cup {Missing}
    BY DEF CommandInv, TypeOK
  <1>4. ASSUME transfer[x].status # "NONE"
        PROVE  /\ transfer[x] # Missing /\ transfer[x].status \in Statuses
               /\ Available(transfer[x].source) \in Places
               /\ Available(transfer[x].destination) \in Places
               /\ transfer[x].quantity \in Int /\ transfer[x].quantity > 0
    <2>1. transfer[x] # Missing /\ transfer[x] \in TransferRows
      BY <1>3, <1>4 DEF Missing
    <2>2. transfer[x].source \in Stores /\ transfer[x].destination \in Stores
          /\ transfer[x].status \in Statuses /\ transfer[x].quantity \in Nat \ {0}
      BY <2>1 DEF TransferRows
    <2> QED BY <2>1, <2>2, StockAssumption DEF Available, Places
  <1>5. CASE \E st, d \in Stores, q \in Quantities : CreateTransfer(x, st, d, q)
    BY <1>5, CreateKeeps, StockAssumption
  <1>6. CASE DispatchTransfer(x)
    <2> DEFINE place == Available(transfer[x].source)
               d == -transfer[x].quantity
               r == Row(place, d, "TRANSFER_OUT", x)
    <2>1. /\ transfer[x].status = "DRAFT" /\ transfer[x].quantity <= balance[place]
          /\ Begin(StatusFirst(x, "DISPATCHED", r)) /\ UNCHANGED corrections
      BY <1>6 DEF DispatchTransfer, Covered
    <2>2. place \in Places /\ d \in Int /\ transfer[x] # Missing /\ balance[place] + d >= 0
      BY <1>2, <1>4, <2>1
    <2>3. /\ r \in Rows /\ r.transfer = x /\ r.place = place /\ r.delta = d
          /\ r.type = "TRANSFER_OUT"
      BY <2>2 DEF Row, Rows, MovementTypes
    <2>4. <<transfer[x].status, "DISPATCHED">> \in AllowedTransitions
          /\ transfer[x].status \notin AfterShipping
      BY <2>1 DEF AllowedTransitions, AfterShipping
    <2>5. ~Arrives(r)
      BY <2>3 DEF Arrives
    <2> HIDE DEF r, d, place
    <2> QED BY <2>1, <2>2, <2>3, <2>4, <2>5, StatusFirstStarts
  <1>7. CASE ReceiveTransfer(x)
    <2> DEFINE place == Available(transfer[x].destination)
               d == transfer[x].quantity
               r == Row(place, d, "TRANSFER_IN", x)
    <2>1. /\ transfer[x].status \in {"DISPATCHED", "EXCEPTION"}
          /\ Begin(StatusFirst(x, "RECEIVED", r)) /\ UNCHANGED corrections
      BY <1>7 DEF ReceiveTransfer, MayReceive, Shipped
    <2>2. place \in Places /\ d \in Int /\ d > 0 /\ transfer[x] # Missing
      BY <1>4, <2>1
    <2>3. /\ r \in Rows /\ r.transfer = x /\ r.place = place /\ r.delta = d
          /\ r.type = "TRANSFER_IN"
      BY <2>2 DEF Row, Rows, MovementTypes
    <2>4. <<transfer[x].status, "RECEIVED">> \in AllowedTransitions
          /\ transfer[x].status \notin AfterArrival
      BY <2>1 DEF AllowedTransitions, AfterArrival
    <2>5. ~Ships(r)
      BY <2>3 DEF Ships
    <2> HIDE DEF r, d, place
    <2>6. corrections = 0 => balance[r.place] + r.delta >= 0
      BY <1>2, <2>2, <2>3
    <2> QED BY <2>1, <2>2, <2>3, <2>4, <2>5, <2>6, StatusFirstStarts
  <1>8. CASE CancelShipped(x)
    BY <1>8, CancelStarts
  <1>9. CASE CancelUnshipped(x)
    <2>1. /\ transfer[x].status \notin {"DISPATCHED", "EXCEPTION", "NONE", "RECEIVED", "CANCELLED"}
          /\ Begin(<<SetStatus(x, "CANCELLED")>>) /\ UNCHANGED corrections
      BY <1>9 DEF CancelUnshipped, Shipped
    <2>2. transfer[x] # Missing /\ transfer[x].status = "DRAFT"
      BY <1>4, <2>1 DEF Statuses
    <2>3. <<transfer[x].status, "CANCELLED">> \in AllowedTransitions /\ "CANCELLED" \in Statuses
      BY <2>2 DEF AllowedTransitions, Statuses
    <2> QED BY <2>1, <2>2, <2>3, StatusStarts
  <1>10. CASE MarkTransferException(x)
    <2>1. /\ transfer[x].status = "DISPATCHED"
          /\ Begin(<<SetStatus(x, "EXCEPTION")>>) /\ UNCHANGED corrections
      BY <1>10 DEF MarkTransferException
    <2>2. transfer[x] # Missing
      BY <1>4, <2>1
    <2>3. <<transfer[x].status, "EXCEPTION">> \in AllowedTransitions /\ "EXCEPTION" \in Statuses
      BY <2>1 DEF AllowedTransitions, Statuses
    <2> QED BY <2>1, <2>2, <2>3, StatusStarts
  <1> QED BY <1>1, <1>5, <1>6, <1>7, <1>8, <1>9, <1>10

-----------------------------------------------------------------------------
(* CommandInv holds initially and every step keeps it.                       *)
LEMMA CommandInvInit ==
    ASSUME Init
    PROVE  CommandInv
  <1>1. TypeOK
    BY DEF Init, TypeOK
  <1>2. FindsItsRow /\ PendingIsCovered /\ PendingIsAllowed /\ SettledInserts /\ AmendsNoTransfer
    BY DEF Init, FindsItsRow, PendingIsCovered, PendingIsAllowed, SettledInserts, AmendsNoTransfer
  <1>3. StockStaysCovered /\ TransferMovesOnce /\ SettledRows
    BY DEF Init, StockStaysCovered, TransferMovesOnce, SettledRows
  <1> QED BY <1>1, <1>2, <1>3 DEF CommandInv, RowsAreUnique

LEMMA CommandInvStep ==
    ASSUME CommandInv, [Next]_vars
    PROVE  CommandInv'
  <1>1. CASE Counter
    BY <1>1, CounterKeeps
  <1>2. CASE TransferDesk
    BY <1>2, TransferDeskKeeps
  <1>3. CASE Correction
    BY <1>3, UpdateStarts, DeleteStarts, StockAssumption DEF Correction
  <1>4. CASE Statement
    BY <1>4, StatementKeeps
  <1>5. CASE Interrupt
    BY <1>5, InterruptKeeps
  <1>6. CASE UNCHANGED vars
    BY <1>6 DEF vars, CommandInv, TypeOK, FindsItsRow, PendingIsCovered, StockStaysCovered,
                PendingIsAllowed, RowsAreUnique, SettledRows, SettledInserts, AmendsNoTransfer,
                TransferMovesOnce
  <1> QED BY <1>1, <1>2, <1>3, <1>4, <1>5, <1>6 DEF Next

(* The inductive invariant holds throughout.                                 *)
THEOREM CommandInvAlways == Spec => []CommandInv
  <1>1. Init => CommandInv
    BY CommandInvInit
  <1>2. CommandInv /\ [Next]_vars => CommandInv'
    BY CommandInvStep
  <1> QED BY <1>1, <1>2, PTL DEF Spec

(* Type correctness: every statement a command has left to execute names     *)
(* rows, places and transfers that exist when it is executed.                *)
THEOREM TypeCorrect == Spec => []TypeOK
  <1>1. CommandInv => TypeOK
    BY DEF CommandInv
  <1> QED BY <1>1, CommandInvAlways, PTL

(* FR-MOV-008 for every number of stores, buckets and transfers, and however *)
(* often a command is interrupted: the check a command makes at its start    *)
(* still covers the balance it writes later, and only update_transaction and *)
(* delete_transaction can take a balance below zero.                         *)
THEOREM StockNeverOverdrawn == Spec => []StockStaysCovered
  <1>1. CommandInv => StockStaysCovered
    BY DEF CommandInv
  <1> QED BY <1>1, CommandInvAlways, PTL

(* dispatch_transfer and receive_transfer insert at most one outgoing and    *)
(* one incoming row per transfer, through any number of interruptions and    *)
(* retries.                                                                  *)
THEOREM MovesOnce == Spec => []TransferMovesOnce
  <1>1. CommandInv => TransferMovesOnce
    BY DEF CommandInv
  <1> QED BY <1>1, CommandInvAlways, PTL

(* The statuses the transfer commands write follow the domain's transition   *)
(* table, although the check and the write are separate steps.               *)
THEOREM FollowsRules == Spec => FollowsTransferRules
  <1> DEFINE Follows == \A x \in Transfers :
                 transfer'[x].status # transfer[x].status
                 => <<transfer[x].status, transfer'[x].status>> \in AllowedTransitions
  <1>1. ASSUME CommandInv, [Next]_vars
        PROVE  Follows
    <2>1. CASE Statement
      BY <1>1, <2>1, StatementAllowed DEF CommandInv
    <2>2. ASSUME NEW y \in Transfers, NEW st, NEW d, NEW q, CreateTransfer(y, st, d, q)
          PROVE  Follows
      BY <1>1, <2>2 DEF CreateTransfer, CommandInv, TypeOK, Missing, AllowedTransitions
    <2>3. CASE UNCHANGED transfer
      BY <2>3
    <2>4. CASE Counter
      <3>1. ASSUME NEW r, Record(r)
            PROVE  UNCHANGED transfer
        BY <3>1 DEF Record
      <3>2. ASSUME NEW statements, Begin(statements)
            PROVE  UNCHANGED transfer
        BY <3>2 DEF Begin
      <3>3. ASSUME NEW st, NEW q, ReceiveStock(st, q) \/ SellStock(st, q)
            PROVE  UNCHANGED transfer
        BY <3>1, <3>3 DEF ReceiveStock, SellStock
      <3>4. ASSUME NEW p, NEW q, AdjustStock(p, q) \/ CustomerReturn(p, q) \/ SupplierReturn(p, q)
            PROVE  UNCHANGED transfer
        BY <3>2, <3>4 DEF AdjustStock, CustomerReturn, SupplierReturn
      <3>5. ASSUME NEW st, NEW from, NEW to, NEW q, MoveStockBucket(st, from, to, q)
            PROVE  UNCHANGED transfer
        BY <3>2, <3>5 DEF MoveStockBucket
      <3>6. UNCHANGED transfer
        BY <2>4, <3>3, <3>4, <3>5 DEF Counter
      <3> QED BY <2>3, <3>6
    <2>5. CASE TransferDesk
      <3>1. UNCHANGED transfer \/ \E y \in Transfers : \E st, d \in Stores, q \in Quantities :
                                       CreateTransfer(y, st, d, q)
        BY <2>5 DEF TransferDesk, DispatchTransfer, ReceiveTransfer, CancelShipped,
                    CancelUnshipped, MarkTransferException, Begin
      <3> QED BY <2>2, <2>3, <3>1
    <2>6. CASE Correction \/ Interrupt \/ UNCHANGED vars
      <3>1. UNCHANGED transfer
        BY <2>6 DEF Correction, UpdateTransaction, DeleteTransaction, Begin, Interrupt, vars
      <3> QED BY <2>3, <3>1
    <2> QED BY <1>1, <2>1, <2>4, <2>5, <2>6 DEF Next
  <1>2. CommandInv /\ [Next]_vars => [Follows]_vars
    BY <1>1
  <1> QED BY <1>2, CommandInvAlways, PTL DEF Spec, FollowsTransferRules

-----------------------------------------------------------------------------
(* Completing a command.                                                     *)
(*                                                                           *)
(* Between the statements of a command the tables disagree; what holds       *)
(* throughout is where the command is heading.  A run is the sequence of     *)
(* contents the tables will have if the statements left are executed.        *)
(* CompletesExactly says that such a run ends in tables that agree, unless   *)
(* a command has been interrupted, and that until there is a correction      *)
(* every point of it has applied what it has queued, so that it may be cut   *)
(* short anywhere.                                                           *)

(* The tables, and what one statement makes of them.                         *)
Now == [t |-> transfer, l |-> ledger, b |-> balance, e |-> events]
Amended(r, d) == [r EXCEPT !.delta = d]
Deleted(r) == Row(r.place, 0, "DELETED", r.transfer)
Restated(s, e) == IF e.id = s.id THEN [id |-> e.id, delta |-> s.delta] ELSE e
Requeued(s, E) == {Restated(s, e) : e \in E}
TransferAfter(s, u) ==
    IF s.op = "status" THEN [u.t EXCEPT ![s.transfer] = [u.t[s.transfer] EXCEPT !.status = s.to]]
    ELSE u.t
LedgerAfter(s, u) ==
    IF s.op = "insert" THEN Append(u.l, s.row)
    ELSE IF s.op = "amend" THEN [u.l EXCEPT ![s.id] = Amended(u.l[s.id], s.delta)]
    ELSE IF s.op = "remove" THEN [u.l EXCEPT ![s.id] = Deleted(u.l[s.id])]
    ELSE u.l
BalanceAfter(s, u) ==
    IF s.op = "balance" THEN [u.b EXCEPT ![s.place] = u.b[s.place] + s.delta] ELSE u.b
EventsAfter(s, u) ==
    IF s.op = "queue" THEN u.e \cup {[id |-> s.id, delta |-> s.delta]}
    ELSE IF s.op = "requeue" THEN Requeued(s, u.e)
    ELSE IF s.op = "withdraw" THEN {e \in u.e : e.id # s.id}
    ELSE u.e
After(s, u) == [t |-> TransferAfter(s, u), l |-> LedgerAfter(s, u),
                b |-> BalanceAfter(s, u), e |-> EventsAfter(s, u)]

(* The tables from u to the end of the statements td.                        *)
IsRun(run, td, u) ==
    /\ run[1] = u
    /\ \A j \in 1 .. Len(td) : run[j + 1] = After(td[j], run[j])

(* Tables that agree: the balances are the sums of the ledger, the events    *)
(* are its rows, the rows of a transfer sum to what is on its way, and the   *)
(* rows that can be corrected belong to no transfer.                         *)
Deltas(l) == [i \in DOMAIN l |-> l[i].delta]
SumAt(l, p) == SumOver(Deltas(l), {i \in DOMAIN l : l[i].place = p})
SumFor(l, x) == SumOver(Deltas(l), {i \in DOMAIN l : l[i].transfer = x})
Queued(l) ==
    {[id |-> i, delta |-> l[i].delta] : i \in {j \in DOMAIN l : l[j].type # "DELETED"}}
Projects(u) == \A p \in Places : u.b[p] = SumAt(u.l, p)
Carries(u) == u.e = Queued(u.l)
Outstanding(s, q) == IF s \in {"DISPATCHED", "EXCEPTION"} THEN -q ELSE 0
Owes(u, x) == IF u.t[x].status \in {"DISPATCHED", "EXCEPTION"} THEN -u.t[x].quantity ELSE 0
Balances(u) == \A x \in Transfers : SumFor(u.l, x) = Owes(u, x)
PlainRows(u) ==
    \A i \in DOMAIN u.l : u.l[i].type \in {"RECEIPT", "SALE"} => u.l[i].transfer = NoTransfer
Exact(u) == Projects(u) /\ Carries(u) /\ Balances(u) /\ PlainRows(u)

(* Tables whose balances are the sum over the rows A, which include all that *)
(* are queued.                                                               *)
AppliedBy(u, A) ==
    /\ A \subseteq DOMAIN u.l
    /\ \A e \in u.e : e.id \in A
    /\ \A p \in Places : u.b[p] = SumOver(Deltas(u.l), {i \in A : u.l[i].place = p})
Applied(u) == \E A : AppliedBy(u, A)

Completes(run, td, u, f, c) ==
    /\ IsRun(run, td, u)
    /\ f = 0 => Exact(run[Len(td) + 1])
    /\ c = 0 => \A j \in 1 .. Len(td) + 1 : Applied(run[j])
CompletesExactly == \E run : Completes(run, todo, Now, faults, corrections)

(* A statement that is executed is the next step of the run.                 *)
LEMMA StatementIsAfter ==
    ASSUME Statement
    PROVE  Now' = After(Head(todo), Now)
  <1> USE DEF Executes, After, TransferAfter, LedgerAfter, BalanceAfter, EventsAfter, Now
  <1>1. CASE WriteStatus
    BY <1>1 DEF WriteStatus
  <1>2. CASE InsertRow
    BY <1>2 DEF InsertRow
  <1>3. CASE AddToBalance
    BY <1>3 DEF AddToBalance
  <1>4. CASE QueueEvent
    BY <1>4 DEF QueueEvent
  <1>5. CASE AmendRow
    BY <1>5 DEF AmendRow, Amended
  <1>6. CASE RequeueEvent
    BY <1>6, Zenon DEF RequeueEvent, Restated, Requeued
  <1>7. CASE RemoveRow
    BY <1>7 DEF RemoveRow, WithoutRow, Deleted
  <1>8. CASE WithdrawEvent
    BY <1>8, Zenon DEF WithdrawEvent
  <1> QED
    BY <1>1, <1>2, <1>3, <1>4, <1>5, <1>6, <1>7, <1>8 DEF Statement

(* One statement on: the rest of the run.                                    *)
LEMMA RunAdvances ==
    ASSUME NEW td, td \in Seq(Statements), td # <<>>, NEW u, NEW run, NEW f, NEW c,
           Completes(run, td, u, f, c)
    PROVE  \E rest : Completes(rest, Tail(td), After(Head(td), u), f, c)
  <1>1. PICK n : n = Len(td)
    OBVIOUS
  <1>2. /\ n \in Nat /\ n >= 1 /\ Len(Tail(td)) = n - 1 /\ Head(td) = td[1]
        /\ \A j \in 1 .. (n - 1) : Tail(td)[j] = td[j + 1]
    BY <1>1
  <1>3. PICK rest : rest = [j \in 1 .. n |-> run[j + 1]]
    OBVIOUS
  <1>4. /\ run[1] = u /\ \A j \in 1 .. n : run[j + 1] = After(td[j], run[j])
        /\ f = 0 => Exact(run[n + 1])
        /\ c = 0 => \A j \in 1 .. (n + 1) : Applied(run[j])
    BY <1>1 DEF Completes, IsRun
  <1>5. \A j \in 1 .. n : rest[j] = run[j + 1]
    BY <1>3
  <1>6. rest[1] = After(Head(td), u)
    <2>1. 1 \in 1 .. n /\ run[1 + 1] = After(td[1], run[1])
      BY <1>2, <1>4
    <2> QED
      BY <1>2, <1>4, <1>5, <2>1
  <1>7. \A j \in 1 .. (n - 1) : rest[j + 1] = After(Tail(td)[j], rest[j])
    <2> SUFFICES ASSUME NEW j \in 1 .. (n - 1)
                 PROVE  rest[j + 1] = After(Tail(td)[j], rest[j])
      OBVIOUS
    <2>1. j \in 1 .. n /\ j + 1 \in 1 .. n
      BY <1>2
    <2>2. run[j + 1 + 1] = After(td[j + 1], run[j + 1])
      BY <1>4, <2>1
    <2> QED
      BY <1>2, <1>5, <2>1, <2>2
  <1>8. f = 0 => Exact(rest[n - 1 + 1])
    BY <1>2, <1>4, <1>5
  <1>9. c = 0 => \A j \in 1 .. (n - 1 + 1) : Applied(rest[j])
    BY <1>2, <1>4, <1>5
  <1>10. Completes(rest, Tail(td), After(Head(td), u), f, c)
    BY <1>2, <1>6, <1>7, <1>8, <1>9 DEF Completes, IsRun
  <1> QED
    BY <1>10

(* No statement left: the run is the present state.                          *)
LEMMA IdleCompletes ==
    ASSUME NEW u, NEW f, NEW c, f = 0 => Exact(u), c = 0 => Applied(u)
    PROVE  \E run : Completes(run, <<>>, u, f, c)
  <1>1. PICK run : run = [j \in 1 .. 1 |-> u]
    OBVIOUS
  <1>2. run[1] = u /\ Len(<<>>) = 0
    BY <1>1
  <1>3. Completes(run, <<>>, u, f, c)
    BY <1>2 DEF Completes, IsRun
  <1> QED
    BY <1>3

(* And such a run says what its only point says.                            *)
LEMMA IdleIsExact ==
    ASSUME NEW u, NEW run, NEW f, NEW c, Completes(run, <<>>, u, f, c)
    PROVE  (f = 0 => Exact(u)) /\ (c = 0 => Applied(u))
  <1>1. Len(<<>>) = 0
    OBVIOUS
  <1> QED
    BY <1>1 DEF Completes, IsRun

(* What has been written so far has been applied as far as it is queued.     *)
LEMMA RunIsApplied ==
    ASSUME NEW td, td \in Seq(Statements), NEW u, NEW run, NEW f, Completes(run, td, u, f, 0)
    PROVE  Applied(u)
  <1>1. 1 \in 1 .. (Len(td) + 1)
    OBVIOUS
  <1> QED
    BY <1>1 DEF Completes, IsRun

-----------------------------------------------------------------------------
(* Sums over the ledger. *)

(* The ids of a ledger are a finite set.                                     *)
LEMMA LedgerFinite ==
    ASSUME NEW l \in Seq(Rows), NEW A \in SUBSET DOMAIN l
    PROVE  IsFiniteSet(A) /\ Len(l) + 1 \notin A
  <1>1. DOMAIN l = 1 .. Len(l) /\ Len(l) \in Nat
    OBVIOUS
  <1>2. IsFiniteSet(1 .. Len(l))
    BY <1>1, FS_Interval
  <1> QED
    BY <1>1, <1>2, FS_Subset

(* A row is appended: sums without it stay, with it they grow by its delta.  *)
LEMMA AppendSums ==
    ASSUME NEW l \in Seq(Rows), NEW r \in Rows, NEW A \in SUBSET DOMAIN l
    PROVE  /\ SumOver(Deltas(Append(l, r)), A) = SumOver(Deltas(l), A)
           /\ SumOver(Deltas(Append(l, r)), A \cup {Len(l) + 1}) = SumOver(Deltas(l), A) + r.delta
           /\ SumOver(Deltas(l), A) \in Int
  <1>1. PICK n : n = Len(l) + 1
    OBVIOUS
  <1>2. PICK m : m = Append(l, r)
    OBVIOUS
  <1>3. /\ m \in Seq(Rows) /\ DOMAIN m = DOMAIN l \cup {n} /\ n \notin DOMAIN l
        /\ m[n] = r /\ \A i \in DOMAIN l : m[i] = l[i]
    BY <1>1, <1>2
  <1>4. IsFiniteSet(A) /\ n \notin A
    BY <1>1, LedgerFinite
  <1>5. \A i \in A : l[i].delta \in Int
    <2>1. \A i \in A : l[i] \in Rows
      OBVIOUS
    <2> QED
      BY <2>1 DEF Rows
  <1>6. r.delta \in Int
    BY DEF Rows
  <1>7. PICK f : f = Deltas(l)
    OBVIOUS
  <1>8. PICK g : g = Deltas(m)
    OBVIOUS
  <1>9. /\ \A i \in A : f[i] = l[i].delta /\ g[i] = f[i] /\ f[i] \in Int /\ g[i] \in Int
        /\ g[n] = r.delta /\ g[n] \in Int
    BY <1>3, <1>5, <1>6, <1>7, <1>8 DEF Deltas
  <1>10. SumOver(f, A) = SumOver(g, A) /\ SumOver(f, A) \in Int
    BY <1>4, <1>9, SumSame, SumType
  <1>11. SumOver(g, A \cup {n}) = SumOver(g, A) + g[n]
    BY <1>4, <1>9, SumAdd
  <1> QED
    BY <1>1, <1>2, <1>7, <1>8, <1>9, <1>10, <1>11

(* The sum at a place grows by the rows appended there ...                   *)
LEMMA AppendSumAt ==
    ASSUME NEW l \in Seq(Rows), NEW r \in Rows, NEW p
    PROVE  SumAt(Append(l, r), p) = SumAt(l, p) + (IF r.place = p THEN r.delta ELSE 0)
  <1>1. PICK m : m = Append(l, r)
    OBVIOUS
  <1>2. PICK n : n = Len(l) + 1
    OBVIOUS
  <1>3. /\ DOMAIN m = DOMAIN l \cup {n} /\ n \notin DOMAIN l
        /\ m[n] = r /\ \A i \in DOMAIN l : m[i] = l[i]
    BY <1>1, <1>2
  <1>4. PICK A : A = {i \in DOMAIN l : l[i].place = p}
    OBVIOUS
  <1>5. {i \in DOMAIN m : m[i].place = p} = IF r.place = p THEN A \cup {n} ELSE A
    BY <1>3, <1>4
  <1>6. A \in SUBSET DOMAIN l
    BY <1>4
  <1>7. /\ SumOver(Deltas(m), A) = SumOver(Deltas(l), A)
        /\ SumOver(Deltas(m), A \cup {n}) = SumOver(Deltas(l), A) + r.delta
        /\ SumOver(Deltas(l), A) \in Int
    BY <1>1, <1>2, <1>6, AppendSums
  <1>8. SumAt(l, p) = SumOver(Deltas(l), A)
    BY <1>4, Zenon DEF SumAt
  <1>9. SumAt(m, p) = SumOver(Deltas(m), IF r.place = p THEN A \cup {n} ELSE A)
    BY <1>5, Zenon DEF SumAt
  <1> QED
    BY <1>1, <1>7, <1>8, <1>9

(* ... and the sum of a transfer by the rows that name it.                   *)
LEMMA AppendSumFor ==
    ASSUME NEW l \in Seq(Rows), NEW r \in Rows, NEW x
    PROVE  SumFor(Append(l, r), x) = SumFor(l, x) + (IF r.transfer = x THEN r.delta ELSE 0)
  <1>1. PICK m : m = Append(l, r)
    OBVIOUS
  <1>2. PICK n : n = Len(l) + 1
    OBVIOUS
  <1>3. /\ DOMAIN m = DOMAIN l \cup {n} /\ n \notin DOMAIN l
        /\ m[n] = r /\ \A i \in DOMAIN l : m[i] = l[i]
    BY <1>1, <1>2
  <1>4. PICK A : A = {i \in DOMAIN l : l[i].transfer = x}
    OBVIOUS
  <1>5. {i \in DOMAIN m : m[i].transfer = x} = IF r.transfer = x THEN A \cup {n} ELSE A
    BY <1>3, <1>4
  <1>6. A \in SUBSET DOMAIN l
    BY <1>4
  <1>7. /\ SumOver(Deltas(m), A) = SumOver(Deltas(l), A)
        /\ SumOver(Deltas(m), A \cup {n}) = SumOver(Deltas(l), A) + r.delta
        /\ SumOver(Deltas(l), A) \in Int
    BY <1>1, <1>2, <1>6, AppendSums
  <1>8. SumFor(l, x) = SumOver(Deltas(l), A)
    BY <1>4, Zenon DEF SumFor
  <1>9. SumFor(m, x) = SumOver(Deltas(m), IF r.transfer = x THEN A \cup {n} ELSE A)
    BY <1>5, Zenon DEF SumFor
  <1> QED
    BY <1>1, <1>7, <1>8, <1>9

(* A row is restated in its place: only its own sums change.                 *)
Replaces(m, l, i, r) ==
    /\ l \in Seq(Rows) /\ i \in DOMAIN l /\ r \in Rows
    /\ r.place = l[i].place /\ r.transfer = l[i].transfer
    /\ m = [l EXCEPT ![i] = r]

LEMMA ReplaceSums ==
    ASSUME NEW l, NEW i, NEW r, NEW m, Replaces(m, l, i, r)
    PROVE  /\ \A p : SumAt(m, p) = SumAt(l, p) + (IF p = r.place THEN r.delta - l[i].delta ELSE 0)
           /\ \A x : SumFor(m, x) = SumFor(l, x) + (IF x = r.transfer THEN r.delta - l[i].delta ELSE 0)
  <1>0. /\ l \in Seq(Rows) /\ i \in DOMAIN l /\ r \in Rows
        /\ r.place = l[i].place /\ r.transfer = l[i].transfer
        /\ m = [l EXCEPT ![i] = r]
    BY DEF Replaces
  <1>1. /\ DOMAIN m = DOMAIN l /\ m[i] = r /\ \A j \in DOMAIN l : j # i => m[j] = l[j]
    BY <1>0
  <1>2. \A j \in DOMAIN l : l[j].delta \in Int
    <2>1. \A j \in DOMAIN l : l[j] \in Rows
      BY <1>0
    <2> QED
      BY <2>1 DEF Rows
  <1>3. r.delta \in Int
    BY <1>0 DEF Rows
  <1>4. PICK f : f = Deltas(l)
    OBVIOUS
  <1>5. PICK g : g = Deltas(m)
    OBVIOUS
  <1>6. \A j \in DOMAIN l : f[j] = l[j].delta /\ f[j] \in Int /\ (j # i => g[j] = f[j])
    BY <1>1, <1>2, <1>4, <1>5 DEF Deltas
  <1>7. g[i] = r.delta /\ g[i] \in Int
    BY <1>0, <1>1, <1>3, <1>5 DEF Deltas
  <1>8. ASSUME NEW A \in SUBSET DOMAIN l
        PROVE  SumOver(g, A) = SumOver(f, A) + (IF i \in A THEN r.delta - l[i].delta ELSE 0)
    <2>1. IsFiniteSet(A)
      BY <1>0, LedgerFinite
    <2>2. SumOver(f, A) \in Int
      BY <1>6, <2>1, SumType
    <2>3. CASE i \in A
      <3>1. /\ \A t \in A : f[t] \in Int
            /\ \A t \in A \ {i} : f[t] = g[t]
        BY <1>6
      <3>2. SumOver(g, A) = SumOver(f, A) + g[i] - f[i]
        BY <1>7, <2>1, <2>3, <3>1, SumChange
      <3>3. f[i] = l[i].delta /\ f[i] \in Int
        BY <1>0, <1>6
      <3> QED
        BY <1>7, <2>2, <2>3, <3>2, <3>3
    <2>4. CASE i \notin A
      <3>1. \A t \in A : f[t] = g[t]
        BY <1>6, <2>4
      <3> QED
        BY <2>1, <2>2, <2>4, <3>1, SumSame
    <2> QED
      BY <2>3, <2>4
  <1>9. ASSUME NEW p
        PROVE  SumAt(m, p) = SumAt(l, p) + (IF p = r.place THEN r.delta - l[i].delta ELSE 0)
    <2>1. PICK A : A = {j \in DOMAIN l : l[j].place = p}
      OBVIOUS
    <2>2. {j \in DOMAIN m : m[j].place = p} = A
      BY <1>0, <1>1, <2>1
    <2>3. SumAt(m, p) = SumOver(g, A) /\ SumAt(l, p) = SumOver(f, A)
      BY <1>4, <1>5, <2>1, <2>2, Zenon DEF SumAt
    <2>4. A \in SUBSET DOMAIN l /\ (i \in A <=> p = r.place)
      BY <1>0, <2>1
    <2> QED
      BY <1>8, <2>3, <2>4
  <1>10. ASSUME NEW x
         PROVE  SumFor(m, x) = SumFor(l, x) + (IF x = r.transfer THEN r.delta - l[i].delta ELSE 0)
    <2>1. PICK A : A = {j \in DOMAIN l : l[j].transfer = x}
      OBVIOUS
    <2>2. {j \in DOMAIN m : m[j].transfer = x} = A
      BY <1>0, <1>1, <2>1
    <2>3. SumFor(m, x) = SumOver(g, A) /\ SumFor(l, x) = SumOver(f, A)
      BY <1>4, <1>5, <2>1, <2>2, Zenon DEF SumFor
    <2>4. A \in SUBSET DOMAIN l /\ (i \in A <=> x = r.transfer)
      BY <1>0, <2>1
    <2> QED
      BY <1>8, <2>3, <2>4
  <1> QED
    BY <1>9, <1>10

-----------------------------------------------------------------------------
(* What whole commands do to the tables. *)

(* Tables of the right types, a movement completed, rows that movements      *)
(* insert, and the tables a movement has to keep in step.                    *)
Movable(u) == u.l \in Seq(Rows) /\ u.b \in [Places -> Int]
Moved(u, r) ==
    [t |-> u.t, l |-> Append(u.l, r), b |-> [u.b EXCEPT ![r.place] = u.b[r.place] + r.delta],
     e |-> u.e \cup {[id |-> Len(u.l) + 1, delta |-> r.delta]}]
IsMovement(r) ==
    /\ r \in Rows
    /\ r.type # "DELETED"
    /\ r.transfer # NoTransfer => r.type \notin {"RECEIPT", "SALE"}
Books(u) == Movable(u) /\ Projects(u) /\ Carries(u) /\ PlainRows(u)

(* A movement, completed: row, balance and event agree again.                *)
LEMMA MovedKeepsBooks ==
    ASSUME NEW u, NEW r, IsMovement(r), Books(u)
    PROVE  Books(Moved(u, r))
  <1>1. PICK v : v = Moved(u, r)
    OBVIOUS
  <1>2. PICK n : n = Len(u.l) + 1
    OBVIOUS
  <1>3. /\ v.t = u.t /\ v.l = Append(u.l, r)
        /\ v.b = [u.b EXCEPT ![r.place] = u.b[r.place] + r.delta]
        /\ v.e = u.e \cup {[id |-> n, delta |-> r.delta]}
    BY <1>1, <1>2 DEF Moved
  <1>4. u.l \in Seq(Rows) /\ u.b \in [Places -> Int] /\ r \in Rows
    BY DEF Books, Movable, IsMovement
  <1>5. r.place \in Places /\ r.delta \in Int
    BY <1>4 DEF Rows
  <1>6. /\ v.l \in Seq(Rows) /\ DOMAIN v.l = DOMAIN u.l \cup {n} /\ n \notin DOMAIN u.l
        /\ v.l[n] = r /\ \A i \in DOMAIN u.l : v.l[i] = u.l[i]
    BY <1>2, <1>3, <1>4
  <1>7. Movable(v)
    BY <1>3, <1>4, <1>5, <1>6 DEF Movable
  <1>8. Projects(v)
    <2> SUFFICES ASSUME NEW p \in Places
                 PROVE  v.b[p] = SumAt(v.l, p)
      BY DEF Projects
    <2>1. SumAt(v.l, p) = SumAt(u.l, p) + (IF r.place = p THEN r.delta ELSE 0)
      BY <1>3, <1>4, AppendSumAt
    <2>2. u.b[p] = SumAt(u.l, p) /\ u.b[p] \in Int
      BY <1>4 DEF Books, Projects
    <2>3. v.b[p] = IF r.place = p THEN u.b[p] + r.delta ELSE u.b[p]
      BY <1>3, <1>4
    <2> QED
      BY <1>5, <2>1, <2>2, <2>3
  <1>9. Carries(v)
    <2>1. u.e = Queued(u.l)
      BY DEF Books, Carries
    <2>2. r.type # "DELETED"
      BY DEF IsMovement
    <2>3. Queued(v.l) = Queued(u.l) \cup {[id |-> n, delta |-> r.delta]}
      BY <1>6, <2>2 DEF Queued
    <2> QED
      BY <1>3, <2>1, <2>3 DEF Carries
  <1>10. PlainRows(v)
    BY <1>6 DEF Books, PlainRows, IsMovement
  <1> QED
    BY <1>1, <1>7, <1>8, <1>9, <1>10 DEF Books

(* What each statement leaves behind.                                        *)
Tables(v, t, l, b, e) == v = [t |-> t, l |-> l, b |-> b, e |-> e]

LEMMA AfterTables ==
    ASSUME NEW u
    PROVE  /\ \A r : Tables(After(Insert(r), u), u.t, Append(u.l, r), u.b, u.e)
           /\ \A p, d : Tables(After(Add(p, d), u), u.t, u.l, [u.b EXCEPT ![p] = u.b[p] + d], u.e)
           /\ \A i, d : Tables(After(Queue(i, d), u), u.t, u.l, u.b, u.e \cup {[id |-> i, delta |-> d]})
           /\ \A x, to : Tables(After(SetStatus(x, to), u),
                                [u.t EXCEPT ![x] = [u.t[x] EXCEPT !.status = to]], u.l, u.b, u.e)
           /\ \A i, d : Tables(After(Amend(i, d), u),
                               u.t, [u.l EXCEPT ![i] = Amended(u.l[i], d)], u.b, u.e)
           /\ \A i, d : Tables(After(Requeue(i, d), u),
                               u.t, u.l, u.b, Requeued(Requeue(i, d), u.e))
           /\ \A i : Tables(After(Remove(i), u), u.t, [u.l EXCEPT ![i] = Deleted(u.l[i])], u.b, u.e)
           /\ \A i : Tables(After(Withdraw(i), u), u.t, u.l, u.b, {e \in u.e : e.id # i})
  <1> USE DEF After, TransferAfter, LedgerAfter, BalanceAfter, EventsAfter, Tables
  <1>1. \A r : Tables(After(Insert(r), u), u.t, Append(u.l, r), u.b, u.e)
    BY DEF Insert
  <1>2. \A p, d : Tables(After(Add(p, d), u), u.t, u.l, [u.b EXCEPT ![p] = u.b[p] + d], u.e)
    BY DEF Add
  <1>3. \A i, d : Tables(After(Queue(i, d), u), u.t, u.l, u.b, u.e \cup {[id |-> i, delta |-> d]})
    BY DEF Queue
  <1>4. \A x, to : Tables(After(SetStatus(x, to), u),
                          [u.t EXCEPT ![x] = [u.t[x] EXCEPT !.status = to]], u.l, u.b, u.e)
    BY DEF SetStatus
  <1>5. \A i, d : Tables(After(Amend(i, d), u),
                         u.t, [u.l EXCEPT ![i] = Amended(u.l[i], d)], u.b, u.e)
    BY DEF Amend
  <1>6. \A i, d : Tables(After(Requeue(i, d), u),
                         u.t, u.l, u.b, Requeued(Requeue(i, d), u.e))
    <2> TAKE i, d
    <2>1. PICK s : s = Requeue(i, d)
      OBVIOUS
    <2>2. s.op = "requeue"
      BY <2>1 DEF Requeue
    <2>3. Tables(After(s, u), u.t, u.l, u.b, Requeued(s, u.e))
      BY <2>2
    <2> QED
      BY <2>1, <2>3, Zenon
  <1>7. \A i : Tables(After(Remove(i), u), u.t, [u.l EXCEPT ![i] = Deleted(u.l[i])], u.b, u.e)
    BY DEF Remove
  <1>8. \A i : Tables(After(Withdraw(i), u), u.t, u.l, u.b, {e \in u.e : e.id # i})
    BY DEF Withdraw
  <1> HIDE DEF After, Tables
  <1> QED
    BY <1>1, <1>2, <1>3, <1>4, <1>5, <1>6, <1>7, <1>8, Zenon

(* The statements, one by one, and the rows applied so far:                  *)
(* a row is inserted: it is not applied yet;                                 *)
LEMMA InsertApplied ==
    ASSUME NEW u, NEW A, NEW r \in Rows, u.l \in Seq(Rows), AppliedBy(u, A)
    PROVE  AppliedBy(After(Insert(r), u), A)
  <1>1. PICK v : v = After(Insert(r), u)
    OBVIOUS
  <1>2. v.t = u.t /\ v.l = Append(u.l, r) /\ v.b = u.b /\ v.e = u.e
    <2>1. Tables(v, u.t, Append(u.l, r), u.b, u.e)
      BY <1>1, AfterTables, Zenon
    <2> QED
      BY <2>1 DEF Tables
  <1>3. DOMAIN u.l \subseteq DOMAIN v.l /\ \A i \in DOMAIN u.l : v.l[i] = u.l[i]
    BY <1>2
  <1>4. A \subseteq DOMAIN u.l
    BY DEF AppliedBy
  <1>5. ASSUME NEW p \in Places
        PROVE  v.b[p] = SumOver(Deltas(v.l), {i \in A : v.l[i].place = p})
    <2>1. PICK B : B = {i \in A : u.l[i].place = p}
      OBVIOUS
    <2>2. B = {i \in A : v.l[i].place = p} /\ B \in SUBSET DOMAIN u.l
      BY <1>3, <1>4, <2>1
    <2>3. SumOver(Deltas(v.l), B) = SumOver(Deltas(u.l), B)
      BY <1>2, <2>2, AppendSums
    <2>4. u.b[p] = SumOver(Deltas(u.l), B)
      BY <2>1, Zenon DEF AppliedBy
    <2> QED
      BY <1>2, <2>2, <2>3, <2>4, Zenon
  <1>6. \A e \in v.e : e.id \in A
    BY <1>2 DEF AppliedBy
  <1>7. A \subseteq DOMAIN v.l
    BY <1>3, <1>4
  <1>8. AppliedBy(v, A)
    BY <1>5, <1>6, <1>7, Zenon DEF AppliedBy
  <1> QED
    BY <1>1, <1>2, <1>8

(* its balance is written: now it is;                                        *)
LEMMA AddApplied ==
    ASSUME NEW u, NEW A, NEW i \in DOMAIN u.l, i \notin A, Movable(u), AppliedBy(u, A),
           NEW p, NEW d, p = u.l[i].place, d = u.l[i].delta
    PROVE  AppliedBy(After(Add(p, d), u), A \cup {i})
  <1>1. PICK v : v = After(Add(p, d), u)
    OBVIOUS
  <1>2. v.t = u.t /\ v.l = u.l /\ v.b = [u.b EXCEPT ![p] = u.b[p] + d] /\ v.e = u.e
    <2>1. Tables(v, u.t, u.l, [u.b EXCEPT ![p] = u.b[p] + d], u.e)
      BY <1>1, AfterTables, Zenon
    <2> QED
      BY <2>1 DEF Tables
  <1>3. A \subseteq DOMAIN u.l /\ u.l \in Seq(Rows) /\ u.b \in [Places -> Int]
    BY DEF AppliedBy, Movable
  <1>4. \A j \in DOMAIN u.l : u.l[j] \in Rows
    BY <1>3
  <1>5. \A j \in DOMAIN u.l : u.l[j].delta \in Int /\ u.l[j].place \in Places
    BY <1>4 DEF Rows
  <1>6. PICK f : f = Deltas(u.l)
    OBVIOUS
  <1>7. \A j \in DOMAIN u.l : f[j] = u.l[j].delta /\ f[j] \in Int
    BY <1>5, <1>6 DEF Deltas
  <1>8. ASSUME NEW q \in Places
        PROVE  v.b[q] = SumOver(Deltas(v.l), {j \in A \cup {i} : v.l[j].place = q})
    <2>1. PICK B : B = {j \in A : u.l[j].place = q}
      OBVIOUS
    <2>2. u.b[q] = SumOver(f, B)
      BY <1>6, <2>1, Zenon DEF AppliedBy
    <2>3. B \in SUBSET DOMAIN u.l /\ i \notin B
      BY <1>3, <2>1
    <2>4. IsFiniteSet(B)
      BY <1>3, <2>3, LedgerFinite
    <2>5. {j \in A \cup {i} : u.l[j].place = q} = IF p = q THEN B \cup {i} ELSE B
      BY <2>1
    <2>6. f[i] = d /\ f[i] \in Int /\ \A j \in B : f[j] \in Int
      BY <1>7, <2>3
    <2>7. SumOver(f, B \cup {i}) = SumOver(f, B) + f[i]
      BY <2>3, <2>4, <2>6, SumAdd
    <2>8. v.b[q] = IF p = q THEN u.b[q] + d ELSE u.b[q]
      BY <1>2, <1>3
    <2>9. v.b[q] = SumOver(f, IF p = q THEN B \cup {i} ELSE B)
      BY <2>2, <2>6, <2>7, <2>8
    <2> QED
      BY <1>2, <1>6, <2>5, <2>9, Zenon
  <1>9. \A e \in v.e : e.id \in A \cup {i}
    BY <1>2 DEF AppliedBy
  <1>10. A \cup {i} \subseteq DOMAIN v.l
    BY <1>2, <1>3
  <1>11. AppliedBy(v, A \cup {i})
    BY <1>8, <1>9, <1>10, Zenon DEF AppliedBy
  <1> QED
    BY <1>1, <1>2, <1>11

(* an applied row is queued;                                                 *)
LEMMA QueueApplied ==
    ASSUME NEW u, NEW A, NEW i \in A, NEW d, AppliedBy(u, A)
    PROVE  AppliedBy(After(Queue(i, d), u), A)
  <1>1. PICK v : v = After(Queue(i, d), u)
    OBVIOUS
  <1>2. v.t = u.t /\ v.l = u.l /\ v.b = u.b /\ v.e = u.e \cup {[id |-> i, delta |-> d]}
    <2>1. Tables(v, u.t, u.l, u.b, u.e \cup {[id |-> i, delta |-> d]})
      BY <1>1, AfterTables, Zenon
    <2> QED
      BY <2>1 DEF Tables
  <1>3. \A e \in v.e : e.id \in A
    BY <1>2 DEF AppliedBy
  <1>4. AppliedBy(v, A)
    BY <1>2, <1>3, Zenon DEF AppliedBy
  <1> QED
    BY <1>1, <1>2, <1>4

(* a status concerns no balance.                                             *)
LEMMA StatusApplied ==
    ASSUME NEW u, NEW A, NEW x, NEW to, AppliedBy(u, A)
    PROVE  AppliedBy(After(SetStatus(x, to), u), A)
  <1>1. PICK v : v = After(SetStatus(x, to), u)
    OBVIOUS
  <1>2. /\ v.t = [u.t EXCEPT ![x] = [u.t[x] EXCEPT !.status = to]]
        /\ v.l = u.l /\ v.b = u.b /\ v.e = u.e
    <2>1. Tables(v, [u.t EXCEPT ![x] = [u.t[x] EXCEPT !.status = to]], u.l, u.b, u.e)
      BY <1>1, AfterTables, Zenon
    <2> QED
      BY <2>1 DEF Tables
  <1>3. AppliedBy(v, A)
    BY <1>2, Zenon DEF AppliedBy
  <1> QED
    BY <1>1, <1>2, <1>3

(* A movement statement by statement: the balance before the event.          *)
LEMMA MovementRun ==
    ASSUME NEW u, Movable(u), NEW r \in Rows, NEW u1, NEW u2, NEW u3,
           u1 = After(Insert(r), u), u2 = After(Add(r.place, r.delta), u1),
           u3 = After(Queue(Len(u.l) + 1, r.delta), u2)
    PROVE  /\ u3 = Moved(u, r)
           /\ Applied(u) => Applied(u1) /\ Applied(u2) /\ Applied(u3)
  <1>1. PICK n : n = Len(u.l) + 1
    OBVIOUS
  <1>2. Tables(u1, u.t, Append(u.l, r), u.b, u.e)
    BY AfterTables, Zenon
  <1>a. Tables(u2, u1.t, u1.l, [u1.b EXCEPT ![r.place] = u1.b[r.place] + r.delta], u1.e)
    BY AfterTables, Zenon
  <1>b. Tables(u3, u2.t, u2.l, u2.b, u2.e \cup {[id |-> n, delta |-> r.delta]})
    BY <1>1, AfterTables, Zenon
  <1>3. u3 = Moved(u, r) /\ u1.l = Append(u.l, r) /\ u1.b = u.b
    <2>1. /\ u1.t = u.t /\ u1.l = Append(u.l, r) /\ u1.b = u.b /\ u1.e = u.e
      BY <1>2 DEF Tables
    <2>2. /\ u2.t = u1.t /\ u2.l = u1.l /\ u2.e = u1.e
          /\ u2.b = [u1.b EXCEPT ![r.place] = u1.b[r.place] + r.delta]
      BY <1>a DEF Tables
    <2>3. u3 = [t |-> u2.t, l |-> u2.l, b |-> u2.b, e |-> u2.e \cup {[id |-> n, delta |-> r.delta]}]
      BY <1>b, Zenon DEF Tables
    <2> QED
      BY <1>1, <2>1, <2>2, <2>3 DEF Moved
  <1>4. ASSUME NEW A, AppliedBy(u, A)
        PROVE  Applied(u1) /\ Applied(u2) /\ Applied(u3)
    <2>1. u.l \in Seq(Rows) /\ u.b \in [Places -> Int]
      BY DEF Movable
    <2>2. AppliedBy(u1, A)
      BY <1>4, <2>1, InsertApplied
    <2>3. /\ u1.l \in Seq(Rows) /\ n \in DOMAIN u1.l /\ n \notin DOMAIN u.l
          /\ u1.l[n] = r /\ u1.b = u.b
      BY <1>1, <1>3, <2>1
    <2>4. Movable(u1) /\ n \notin A
      BY <1>4, <2>1, <2>3 DEF Movable, AppliedBy
    <2>5. AppliedBy(u2, A \cup {n})
      BY <2>2, <2>3, <2>4, AddApplied
    <2>6. AppliedBy(u3, A \cup {n})
      BY <1>1, <2>5, QueueApplied
    <2> QED
      BY <2>2, <2>5, <2>6 DEF Applied
  <1> QED
    BY <1>3, <1>4 DEF Applied

(* move_stock_bucket statement by statement: two movements, interleaved.     *)
LEMMA BucketRun ==
    ASSUME NEW u, Movable(u), NEW r \in Rows, NEW s \in Rows, r.place # s.place,
           NEW u1, NEW u2, NEW u3, NEW u4, NEW u5, NEW u6,
           u1 = After(Insert(r), u), u2 = After(Insert(s), u1),
           u3 = After(Add(r.place, r.delta), u2), u4 = After(Add(s.place, s.delta), u3),
           u5 = After(Queue(Len(u.l) + 1, r.delta), u4),
           u6 = After(Queue(Len(u.l) + 1 + 1, s.delta), u5)
    PROVE  /\ u6 = Moved(Moved(u, r), s)
           /\ Applied(u) => /\ Applied(u1) /\ Applied(u2) /\ Applied(u3)
                            /\ Applied(u4) /\ Applied(u5) /\ Applied(u6)
  <1>1. PICK n : n = Len(u.l) + 1
    OBVIOUS
  <1>2. u.l \in Seq(Rows) /\ u.b \in [Places -> Int]
    BY DEF Movable
  <1>t1. Tables(u1, u.t, Append(u.l, r), u.b, u.e)
    BY <1>1, AfterTables, Zenon
  <1>t2. Tables(u2, u1.t, Append(u1.l, s), u1.b, u1.e)
    BY <1>1, AfterTables, Zenon
  <1>t3. Tables(u3, u2.t, u2.l, [u2.b EXCEPT ![r.place] = u2.b[r.place] + r.delta], u2.e)
    BY <1>1, AfterTables, Zenon
  <1>t4. Tables(u4, u3.t, u3.l, [u3.b EXCEPT ![s.place] = u3.b[s.place] + s.delta], u3.e)
    BY <1>1, AfterTables, Zenon
  <1>t5. Tables(u5, u4.t, u4.l, u4.b, u4.e \cup {[id |-> n, delta |-> r.delta]})
    BY <1>1, AfterTables, Zenon
  <1>t6. Tables(u6, u5.t, u5.l, u5.b, u5.e \cup {[id |-> n + 1, delta |-> s.delta]})
    BY <1>1, AfterTables, Zenon
  <1>4. /\ u1.l = Append(u.l, r) /\ u1.b = u.b /\ u1.t = u.t /\ u1.e = u.e
        /\ u2.l = Append(u1.l, s) /\ u2.b = u.b /\ u2.t = u.t /\ u2.e = u.e
        /\ u3.l = u2.l /\ u3.b = [u.b EXCEPT ![r.place] = u.b[r.place] + r.delta] /\ u3.t = u.t /\ u3.e = u.e
        /\ u4.l = u2.l /\ u4.b = [u3.b EXCEPT ![s.place] = u3.b[s.place] + s.delta] /\ u4.t = u.t /\ u4.e = u.e
        /\ u5.l = u2.l /\ u5.b = u4.b /\ u5.t = u.t /\ u5.e = u.e \cup {[id |-> n, delta |-> r.delta]}
        /\ u6.l = u2.l /\ u6.b = u4.b /\ u6.t = u.t /\ u6.e = u5.e \cup {[id |-> n + 1, delta |-> s.delta]}
        /\ u6 = [t |-> u6.t, l |-> u6.l, b |-> u6.b, e |-> u6.e]
    <2>1. /\ u1.t = u.t /\ u1.l = Append(u.l, r) /\ u1.b = u.b /\ u1.e = u.e
      BY <1>t1 DEF Tables
    <2>2. /\ u2.t = u1.t /\ u2.l = Append(u1.l, s) /\ u2.b = u1.b /\ u2.e = u1.e
      BY <1>t2 DEF Tables
    <2>3. /\ u3.t = u2.t /\ u3.l = u2.l /\ u3.e = u2.e
          /\ u3.b = [u2.b EXCEPT ![r.place] = u2.b[r.place] + r.delta]
      BY <1>t3 DEF Tables
    <2>4. /\ u4.t = u3.t /\ u4.l = u3.l /\ u4.e = u3.e
          /\ u4.b = [u3.b EXCEPT ![s.place] = u3.b[s.place] + s.delta]
      BY <1>t4 DEF Tables
    <2>5. /\ u5.t = u4.t /\ u5.l = u4.l /\ u5.b = u4.b
          /\ u5.e = u4.e \cup {[id |-> n, delta |-> r.delta]}
      BY <1>t5 DEF Tables
    <2>6. /\ u6.t = u5.t /\ u6.l = u5.l /\ u6.b = u5.b
          /\ u6.e = u5.e \cup {[id |-> n + 1, delta |-> s.delta]}
      BY <1>t6 DEF Tables
    <2>7. u6 = [t |-> u6.t, l |-> u6.l, b |-> u6.b, e |-> u6.e]
      BY <1>t6, <2>6, Zenon DEF Tables
    <2> QED
      BY <2>1, <2>2, <2>3, <2>4, <2>5, <2>6, <2>7
  <1>5. /\ u1.l \in Seq(Rows) /\ Len(u1.l) = n /\ u2.l \in Seq(Rows)
        /\ n \in DOMAIN u2.l /\ n + 1 \in DOMAIN u2.l /\ n \notin DOMAIN u.l /\ n + 1 \notin DOMAIN u.l
        /\ u2.l[n] = r /\ u2.l[n + 1] = s /\ n # n + 1
    BY <1>1, <1>2, <1>4
  <1>6. u6 = Moved(Moved(u, r), s)
    <2>1. PICK m : m = Moved(u, r)
      OBVIOUS
    <2>2. m.t = u.t /\ m.l = u1.l /\ m.b = u3.b /\ m.e = u5.e
      BY <1>1, <1>4, <2>1 DEF Moved
    <2>3. Moved(m, s) = [t |-> u6.t, l |-> u6.l, b |-> u6.b, e |-> u6.e]
      BY <1>4, <1>5, <2>2 DEF Moved
    <2> QED
      BY <1>4, <2>1, <2>3
  <1>7. ASSUME NEW A, AppliedBy(u, A)
        PROVE  /\ Applied(u1) /\ Applied(u2) /\ Applied(u3)
               /\ Applied(u4) /\ Applied(u5) /\ Applied(u6)
    <2>1. AppliedBy(u1, A)
      BY <1>2, <1>7, InsertApplied
    <2>2. AppliedBy(u2, A)
      BY <1>5, <2>1, InsertApplied
    <2>3. A \subseteq DOMAIN u.l
      BY <1>7 DEF AppliedBy
    <2>4. Movable(u2) /\ n \notin A /\ n + 1 \notin A \cup {n}
      BY <1>2, <1>4, <1>5, <2>3 DEF Movable
    <2>5. AppliedBy(u3, A \cup {n})
      BY <1>5, <2>2, <2>4, AddApplied
    <2>6. r.place \in Places /\ r.delta \in Int
      BY DEF Rows
    <2>7. Movable(u3)
      BY <1>2, <1>4, <1>5, <2>6 DEF Movable
    <2>8. AppliedBy(u4, A \cup {n} \cup {n + 1})
      <3>1. PICK B : B = A \cup {n}
        OBVIOUS
      <3>2. n + 1 \in DOMAIN u3.l /\ n + 1 \notin B /\ u3.l[n + 1] = s /\ AppliedBy(u3, B)
        BY <1>4, <1>5, <2>4, <2>5, <3>1
      <3>3. AppliedBy(u4, B \cup {n + 1})
        BY <2>7, <3>2, AddApplied
      <3> QED
        BY <3>1, <3>3
    <2>9. PICK C : C = A \cup {n} \cup {n + 1}
      OBVIOUS
    <2>10. AppliedBy(u5, C)
      BY <1>1, <2>8, <2>9, QueueApplied
    <2>11. AppliedBy(u6, C)
      BY <1>1, <2>9, <2>10, QueueApplied
    <2> QED
      BY <2>1, <2>2, <2>5, <2>8, <2>10, <2>11 DEF Applied
  <1> QED
    BY <1>6, <1>7 DEF Applied

(* Transfers: a movement of no transfer leaves them, a shipment or an        *)
(* arrival settles its own.                                                  *)
LEMMA MovedOthers ==
    ASSUME NEW u, Movable(u), NEW r \in Rows
    PROVE  \A x : SumFor(Moved(u, r).l, x) = SumFor(u.l, x) + (IF r.transfer = x THEN r.delta ELSE 0)
  <1>1. Moved(u, r).l = Append(u.l, r)
    BY DEF Moved
  <1>2. u.l \in Seq(Rows)
    BY DEF Movable
  <1> QED
    BY <1>1, <1>2, AppendSumFor

(* What a transfer owes is a number.                                         *)
LEMMA OwesType ==
    ASSUME NEW u, NEW x, u.t[x] \in TransferRows \cup {Missing}
    PROVE  Owes(u, x) \in Int
  <1>1. CASE u.t[x] = Missing
    BY <1>1 DEF Owes, Missing
  <1>2. CASE u.t[x] \in TransferRows
    BY <1>2 DEF Owes, TransferRows
  <1> QED
    BY <1>1, <1>2

(* A completed movement of no transfer leaves tables that agree.             *)
LEMMA MovedKeepsExact ==
    ASSUME NEW u, Movable(u), Exact(u), NEW r, IsMovement(r), r.transfer = NoTransfer,
           u.t \in [Transfers -> TransferRows \cup {Missing}]
    PROVE  Exact(Moved(u, r)) /\ Movable(Moved(u, r)) /\ Moved(u, r).t = u.t
  <1>1. PICK v : v = Moved(u, r)
    OBVIOUS
  <1>2. Books(v)
    BY <1>1, MovedKeepsBooks DEF Books, Exact
  <1>3. v.t = u.t
    BY <1>1 DEF Moved
  <1>4. Balances(v)
    <2> SUFFICES ASSUME NEW x \in Transfers
                 PROVE  SumFor(v.l, x) = Owes(v, x)
      BY DEF Balances
    <2>1. r.transfer # x
      BY StockAssumption
    <2>2. SumFor(v.l, x) = SumFor(u.l, x) + 0
      BY <1>1, <2>1, MovedOthers DEF IsMovement
    <2>3. SumFor(u.l, x) = Owes(u, x)
      BY DEF Exact, Balances
    <2>4. Owes(v, x) = Owes(u, x)
      BY <1>3 DEF Owes
    <2>5. Owes(u, x) \in Int
      BY OwesType
    <2> QED
      BY <2>2, <2>3, <2>4, <2>5
  <1> QED
    BY <1>1, <1>2, <1>3, <1>4 DEF Exact, Books

(* A list of one statement as a run ...                                      *)
LEMMA RunOfOne ==
    ASSUME NEW td \in Seq(Statements), Len(td) = 1, NEW u1, NEW u2, NEW f, NEW c,
           u2 = After(td[1], u1),
           f = 0 => Exact(u2), c = 0 => Applied(u1) /\ Applied(u2)
    PROVE  \E run : Completes(run, td, u1, f, c)
  <1>2. PICK run : run = <<u1, u2>>
    OBVIOUS
  <1>3. run[1] = u1 /\ run[2] = u2
    BY <1>2
  <1>4. /\ \A j \in 1 .. 1 : run[j + 1] = After(td[j], run[j])
        /\ c = 0 => \A j \in 1 .. (1 + 1) : Applied(run[j])
    BY <1>3
  <1>5. Completes(run, td, u1, f, c)
    BY <1>3, <1>4 DEF Completes, IsRun
  <1> QED
    BY <1>5

(* ... of two statements ...                                                 *)
LEMMA RunOfTwo ==
    ASSUME NEW td \in Seq(Statements), Len(td) = 2, NEW u1, NEW u2, NEW u3, NEW f, NEW c,
           u2 = After(td[1], u1), u3 = After(td[2], u2),
           f = 0 => Exact(u3), c = 0 => Applied(u1) /\ Applied(u2) /\ Applied(u3)
    PROVE  \E run : Completes(run, td, u1, f, c)
  <1>2. PICK run : run = <<u1, u2, u3>>
    OBVIOUS
  <1>3. run[1] = u1 /\ run[2] = u2 /\ run[3] = u3
    BY <1>2
  <1>4. /\ \A j \in 1 .. 2 : run[j + 1] = After(td[j], run[j])
        /\ c = 0 => \A j \in 1 .. (2 + 1) : Applied(run[j])
    BY <1>3
  <1>5. Completes(run, td, u1, f, c)
    BY <1>3, <1>4 DEF Completes, IsRun
  <1> QED
    BY <1>5

(* ... of three ...                                                          *)
LEMMA RunOfThree ==
    ASSUME NEW td \in Seq(Statements), Len(td) = 3,
           NEW u1, NEW u2, NEW u3, NEW u4, NEW f, NEW c,
           u2 = After(td[1], u1), u3 = After(td[2], u2), u4 = After(td[3], u3),
           f = 0 => Exact(u4), c = 0 => Applied(u1) /\ Applied(u2) /\ Applied(u3) /\ Applied(u4)
    PROVE  \E run : Completes(run, td, u1, f, c)
  <1>2. PICK run : run = <<u1, u2, u3, u4>>
    OBVIOUS
  <1>3. run[1] = u1 /\ run[2] = u2 /\ run[3] = u3 /\ run[4] = u4
    BY <1>2
  <1>4. /\ \A j \in 1 .. 3 : run[j + 1] = After(td[j], run[j])
        /\ c = 0 => \A j \in 1 .. (3 + 1) : Applied(run[j])
    BY <1>3
  <1>5. Completes(run, td, u1, f, c)
    BY <1>3, <1>4 DEF Completes, IsRun
  <1> QED
    BY <1>5

(* ... of four ...                                                           *)
Four(td, u1, u2, u3, u4, u5) ==
    /\ td \in Seq(Statements) /\ Len(td) = 4
    /\ u2 = After(td[1], u1) /\ u3 = After(td[2], u2) /\ u4 = After(td[3], u3) /\ u5 = After(td[4], u4)

LEMMA RunOfFour ==
    ASSUME NEW td, NEW u1, NEW u2, NEW u3, NEW u4, NEW u5, NEW f, NEW c,
           Four(td, u1, u2, u3, u4, u5),
           f = 0 => Exact(u5),
           c = 0 => Applied(u1) /\ Applied(u2) /\ Applied(u3) /\ Applied(u4) /\ Applied(u5)
    PROVE  \E run : Completes(run, td, u1, f, c)
  <1>1. /\ td \in Seq(Statements) /\ Len(td) = 4
        /\ u2 = After(td[1], u1) /\ u3 = After(td[2], u2) /\ u4 = After(td[3], u3) /\ u5 = After(td[4], u4)
    BY DEF Four
  <1>2. PICK run : run = <<u1, u2, u3, u4, u5>>
    OBVIOUS
  <1>3. run[1] = u1 /\ run[2] = u2 /\ run[3] = u3 /\ run[4] = u4 /\ run[5] = u5
    BY <1>2
  <1>4. /\ \A j \in 1 .. 4 : run[j + 1] = After(td[j], run[j])
        /\ c = 0 => \A j \in 1 .. (4 + 1) : Applied(run[j])
    BY <1>1, <1>3
  <1>5. Completes(run, td, u1, f, c)
    BY <1>1, <1>3, <1>4 DEF Completes, IsRun
  <1> QED
    BY <1>5

(* The length of a list of four.                                             *)
LEMMA LengthFour ==
    ASSUME NEW td \in Seq(Statements), DOMAIN td = {1, 2, 3, 4}
    PROVE  Len(td) = 4
  OBVIOUS

(* ... and of six.                                                           *)
Six(td, u1, u2, u3, u4, u5, u6, u7) ==
    /\ td \in Seq(Statements) /\ Len(td) = 6
    /\ u2 = After(td[1], u1) /\ u3 = After(td[2], u2) /\ u4 = After(td[3], u3) /\ u5 = After(td[4], u4)
    /\ u6 = After(td[5], u5) /\ u7 = After(td[6], u6)

LEMMA RunOfSix ==
    ASSUME NEW td, NEW u1, NEW u2, NEW u3, NEW u4, NEW u5, NEW u6, NEW u7, NEW f, NEW c,
           Six(td, u1, u2, u3, u4, u5, u6, u7),
           f = 0 => Exact(u7),
           c = 0 => /\ Applied(u1) /\ Applied(u2) /\ Applied(u3) /\ Applied(u4) /\ Applied(u5)
                    /\ Applied(u6) /\ Applied(u7)
    PROVE  \E run : Completes(run, td, u1, f, c)
  <1>1. /\ td \in Seq(Statements) /\ Len(td) = 6
        /\ u2 = After(td[1], u1) /\ u3 = After(td[2], u2) /\ u4 = After(td[3], u3) /\ u5 = After(td[4], u4)
        /\ u6 = After(td[5], u5) /\ u7 = After(td[6], u6)
    BY DEF Six
  <1>2. PICK run : run = <<u1, u2, u3, u4, u5, u6, u7>>
    OBVIOUS
  <1>3. /\ run[1] = u1 /\ run[2] = u2 /\ run[3] = u3 /\ run[4] = u4 /\ run[5] = u5 /\ run[6] = u6
        /\ run[7] = u7
    BY <1>2
  <1>4. /\ \A j \in 1 .. 6 : run[j + 1] = After(td[j], run[j])
        /\ c = 0 => \A j \in 1 .. (6 + 1) : Applied(run[j])
    BY <1>1, <1>3
  <1>5. Completes(run, td, u1, f, c)
    BY <1>1, <1>3, <1>4 DEF Completes, IsRun
  <1> QED
    BY <1>5

(* What a command finds when it starts.                                      *)
LEMMA Found ==
    ASSUME CommandInv, CompletesExactly, MainThreadFree
    PROVE  /\ faults = 0 => Exact(Now)
           /\ corrections = 0 => Applied(Now)
           /\ Movable(Now)
           /\ Now.t = transfer /\ Now.l = ledger /\ Now.b = balance /\ Now.e = events
           /\ Now.t \in [Transfers -> TransferRows \cup {Missing}]
  <1>1. PICK run : Completes(run, <<>>, Now, faults, corrections)
    BY DEF CompletesExactly, MainThreadFree
  <1>2. (faults = 0 => Exact(Now)) /\ (corrections = 0 => Applied(Now))
    BY <1>1, IdleIsExact
  <1>3. Now.t = transfer /\ Now.l = ledger /\ Now.b = balance /\ Now.e = events
    BY DEF Now
  <1> QED
    BY <1>2, <1>3 DEF CommandInv, TypeOK, Movable

(* A command that starts has changed no table yet.                           *)
LEMMA NowStays ==
    ASSUME UNCHANGED <<transfer, ledger, balance, events>>
    PROVE  Now' = Now
  BY DEF Now

(* A command that moves stock and has to do with no transfer.                *)
LEMMA PlainCompletes ==
    ASSUME CommandInv, CompletesExactly, MainThreadFree, NEW r, IsMovement(r), r.transfer = NoTransfer,
           Begin(Movement(r)), UNCHANGED corrections
    PROVE  CompletesExactly'
  <1>1. todo' = Movement(r) /\ faults' = faults /\ corrections' = corrections /\ Now' = Now
    BY NowStays DEF Begin
  <1>2. PICK u : u = Now
    OBVIOUS
  <1>3. /\ faults = 0 => Exact(u)
        /\ corrections = 0 => Applied(u)
        /\ Movable(u) /\ u.l = ledger
        /\ u.t \in [Transfers -> TransferRows \cup {Missing}]
    BY <1>2, Found
  <1>4. r \in Rows /\ ledger \in Seq(Rows)
    BY DEF IsMovement, CommandInv, TypeOK
  <1>5. PICK td : td = Movement(r)
    OBVIOUS
  <1>6. /\ td \in Seq(Statements) /\ Len(td) = 3
        /\ td[1] = Insert(r) /\ td[2] = Add(r.place, r.delta) /\ td[3] = Queue(Len(u.l) + 1, r.delta)
    <2>1. /\ td \in Seq(Statements) /\ DOMAIN td = {1, 2, 3}
          /\ td[1] = Insert(r) /\ td[2] = Add(r.place, r.delta) /\ td[3] = Queue(Len(u.l) + 1, r.delta)
      BY <1>3, <1>4, <1>5, MovementFacts
    <2> QED
      BY <2>1
  <1>7. PICK u1, u2, u3 : /\ u1 = After(Insert(r), u) /\ u2 = After(Add(r.place, r.delta), u1)
                          /\ u3 = After(Queue(Len(u.l) + 1, r.delta), u2)
    OBVIOUS
  <1>8. u3 = Moved(u, r) /\ (Applied(u) => Applied(u1) /\ Applied(u2) /\ Applied(u3))
    BY <1>3, <1>4, <1>7, MovementRun
  <1>9. faults = 0 => Exact(u3)
    BY <1>3, <1>8, MovedKeepsExact
  <1>10. \E run : Completes(run, td, u, faults, corrections)
    BY <1>3, <1>6, <1>7, <1>8, <1>9, RunOfThree
  <1> QED
    BY <1>1, <1>2, <1>5, <1>10 DEF CompletesExactly

(* A status is written: the books do not change, only what one transfer owes. *)
LEMMA StatusSettles ==
    ASSUME NEW u, u.t \in [Transfers -> TransferRows \cup {Missing}], NEW x \in Transfers,
           u.t[x] # Missing, NEW to \in Statuses, NEW w, w = After(SetStatus(x, to), u)
    PROVE  /\ w.l = u.l /\ w.b = u.b /\ w.e = u.e
           /\ \A y \in Transfers : Owes(w, y) = IF y = x THEN Outstanding(to, u.t[x].quantity) ELSE Owes(u, y)
           /\ w.t \in [Transfers -> TransferRows \cup {Missing}]
  <1>1. PICK row : row = [u.t[x] EXCEPT !.status = to]
    OBVIOUS
  <1>2. Tables(w, [u.t EXCEPT ![x] = row], u.l, u.b, u.e)
    BY <1>1, AfterTables, Zenon
  <1>3. w.t = [u.t EXCEPT ![x] = row] /\ w.l = u.l /\ w.b = u.b /\ w.e = u.e
    BY <1>2 DEF Tables
  <1>4. u.t[x] \in TransferRows
    OBVIOUS
  <1>5. row.status = to /\ row.quantity = u.t[x].quantity /\ row \in TransferRows
    BY <1>1, <1>4 DEF TransferRows
  <1>6. \A y \in Transfers : w.t[y] = IF y = x THEN row ELSE u.t[y]
    BY <1>3
  <1>7. \A y \in Transfers : Owes(w, y) = IF y = x THEN Outstanding(to, u.t[x].quantity) ELSE Owes(u, y)
    BY <1>5, <1>6 DEF Owes, Outstanding
  <1>8. w.t \in [Transfers -> TransferRows \cup {Missing}]
    BY <1>3, <1>5
  <1> QED
    BY <1>3, <1>7, <1>8

(* A status and nothing else.                                                *)
LEMMA StatusCompletes ==
    ASSUME CommandInv, CompletesExactly, MainThreadFree, NEW x \in Transfers, NEW to \in Statuses,
           transfer[x] # Missing, Outstanding(to, transfer[x].quantity) = Owes(Now, x),
           Begin(<<SetStatus(x, to)>>), UNCHANGED corrections
    PROVE  CompletesExactly'
  <1>1. todo' = <<SetStatus(x, to)>> /\ faults' = faults /\ corrections' = corrections /\ Now' = Now
    BY NowStays DEF Begin
  <1>2. PICK u : u = Now
    OBVIOUS
  <1>3. /\ faults = 0 => Exact(u)
        /\ corrections = 0 => Applied(u)
        /\ u.t = transfer
        /\ u.t \in [Transfers -> TransferRows \cup {Missing}]
    BY <1>2, Found
  <1>4. PICK s : s = SetStatus(x, to)
    OBVIOUS
  <1>5. s \in Statements
    BY <1>4 DEF SetStatus, Statements
  <1>6. PICK td : td = <<s>>
    OBVIOUS
  <1>7. td \in Seq(Statements) /\ Len(td) = 1 /\ td[1] = s
    BY <1>5, <1>6
  <1>8. PICK w : w = After(s, u)
    OBVIOUS
  <1>9. /\ w.l = u.l /\ w.b = u.b /\ w.e = u.e
        /\ \A y \in Transfers : Owes(w, y) = IF y = x THEN Outstanding(to, u.t[x].quantity) ELSE Owes(u, y)
    BY <1>3, <1>4, <1>8, StatusSettles
  <1>10. faults = 0 => Exact(w)
    <2> SUFFICES ASSUME faults = 0
                 PROVE  Exact(w)
      OBVIOUS
    <2>1. Projects(w) /\ Carries(w) /\ PlainRows(w)
      BY <1>3, <1>9 DEF Exact, Projects, Carries, PlainRows
    <2>2. Balances(w)
      BY <1>2, <1>3, <1>9 DEF Exact, Balances
    <2> QED
      BY <2>1, <2>2 DEF Exact
  <1>11. corrections = 0 => Applied(w)
    BY <1>3, <1>4, <1>8, StatusApplied DEF Applied
  <1>12. \E run : Completes(run, td, u, faults, corrections)
    BY <1>3, <1>7, <1>8, <1>10, <1>11, RunOfOne
  <1> QED
    BY <1>1, <1>2, <1>4, <1>6, <1>12 DEF CompletesExactly

(* The statements of dispatch_transfer, receive_transfer and cancel_transfer. *)
LEMMA StatusFirstFacts ==
    ASSUME NEW r \in Rows, ledger \in Seq(Rows), NEW x \in Transfers, NEW to \in Statuses
    PROVE  /\ StatusFirst(x, to, r) \in Seq(Statements) /\ Len(StatusFirst(x, to, r)) = 4
           /\ StatusFirst(x, to, r)[1] = SetStatus(x, to) /\ StatusFirst(x, to, r)[2] = Insert(r)
           /\ StatusFirst(x, to, r)[3] = Add(r.place, r.delta) /\ StatusFirst(x, to, r)[4] = Queue(Len(ledger) + 1, r.delta)
  <1> DEFINE u == <<SetStatus(x, to)>>
             v == Movement(r)
  <1>1. SetStatus(x, to) \in Statements
    BY DEF SetStatus, Statements
  <1>2. u \in Seq(Statements) /\ Len(u) = 1 /\ u[1] = SetStatus(x, to)
    BY <1>1
  <1>3. /\ v \in Seq(Statements) /\ DOMAIN v = {1, 2, 3}
        /\ v[1] = Insert(r) /\ v[2] = Add(r.place, r.delta) /\ v[3] = Queue(Len(ledger) + 1, r.delta)
    BY MovementFacts
  <1>4. Len(v) = 3
    BY <1>3
  <1>5. StatusFirst(x, to, r) = u \o v
    BY DEF StatusFirst
  <1> HIDE DEF u, v
  <1>6. /\ u \o v \in Seq(Statements)
        /\ DOMAIN (u \o v) = {1, 2, 3, 4}
        /\ (u \o v)[1] = u[1] /\ (u \o v)[2] = v[1] /\ (u \o v)[3] = v[2] /\ (u \o v)[4] = v[3]
    BY <1>2, <1>3, <1>4, OneThenThree
  <1>7. StatusFirst(x, to, r) \in Seq(Statements) /\ DOMAIN StatusFirst(x, to, r) = {1, 2, 3, 4}
    BY <1>5, <1>6
  <1>8. Len(StatusFirst(x, to, r)) = 4
    BY <1>7, LengthFour, Zenon
  <1> QED BY <1>2, <1>3, <1>5, <1>6, <1>8

(* The same with the status last.                                            *)
LEMMA StatusLastFacts ==
    ASSUME NEW r \in Rows, ledger \in Seq(Rows), NEW x \in Transfers, NEW to \in Statuses
    PROVE  /\ StatusLast(x, to, r) \in Seq(Statements) /\ Len(StatusLast(x, to, r)) = 4
           /\ StatusLast(x, to, r)[1] = Insert(r) /\ StatusLast(x, to, r)[2] = Add(r.place, r.delta)
           /\ StatusLast(x, to, r)[3] = Queue(Len(ledger) + 1, r.delta) /\ StatusLast(x, to, r)[4] = SetStatus(x, to)
  <1> DEFINE u == Movement(r)
             v == <<SetStatus(x, to)>>
  <1>1. SetStatus(x, to) \in Statements
    BY DEF SetStatus, Statements
  <1>2. v \in Seq(Statements) /\ Len(v) = 1 /\ v[1] = SetStatus(x, to)
    BY <1>1
  <1>3. /\ u \in Seq(Statements) /\ DOMAIN u = {1, 2, 3}
        /\ u[1] = Insert(r) /\ u[2] = Add(r.place, r.delta) /\ u[3] = Queue(Len(ledger) + 1, r.delta)
    BY MovementFacts
  <1>4. Len(u) = 3
    BY <1>3
  <1>5. StatusLast(x, to, r) = u \o v
    BY DEF StatusLast
  <1> HIDE DEF u, v
  <1>6. /\ u \o v \in Seq(Statements)
        /\ DOMAIN (u \o v) = {1, 2, 3, 4}
        /\ (u \o v)[1] = u[1] /\ (u \o v)[2] = u[2] /\ (u \o v)[3] = u[3] /\ (u \o v)[4] = v[1]
    <2>1. u \in Seq(Statements) /\ Len(u) = 3 /\ v \in Seq(Statements) /\ Len(v) = 1
      BY <1>2, <1>3, <1>4
    <2> QED BY <2>1, ThreeThenOne
  <1>7. StatusLast(x, to, r) \in Seq(Statements) /\ DOMAIN StatusLast(x, to, r) = {1, 2, 3, 4}
    BY <1>5, <1>6
  <1>8. Len(StatusLast(x, to, r)) = 4
    BY <1>7, LengthFour, Zenon
  <1> QED BY <1>2, <1>3, <1>5, <1>6, <1>8

(* A movement of a transfer, and its status, in either order: the books are  *)
(* kept, and the transfer owes what its rows sum to.                         *)
LEMMA TransferSettles ==
    ASSUME NEW u, Exact(u), Movable(u), u.t \in [Transfers -> TransferRows \cup {Missing}],
           NEW x \in Transfers, NEW q, NEW r, IsMovement(r), r.transfer = x,
           q = Owes(u, x) + r.delta,
           NEW v, v.l = Append(u.l, r), Books(v),
           \A y \in Transfers : Owes(v, y) = IF y = x THEN q ELSE Owes(u, y)
    PROVE  Exact(v)
  <1>1. Balances(v)
    <2> SUFFICES ASSUME NEW y \in Transfers
                 PROVE  SumFor(v.l, y) = Owes(v, y)
      BY DEF Balances
    <2>1. r \in Rows /\ u.l \in Seq(Rows)
      BY DEF IsMovement, Movable
    <2>2. SumFor(v.l, y) = SumFor(u.l, y) + (IF r.transfer = y THEN r.delta ELSE 0)
      BY <2>1, AppendSumFor
    <2>3. SumFor(u.l, y) = Owes(u, y)
      BY DEF Exact, Balances
    <2>4. Owes(u, y) \in Int
      BY OwesType
    <2> QED
      BY <2>2, <2>3, <2>4
  <1> QED
    BY <1>1 DEF Exact, Books

(* dispatch_transfer and receive_transfer: the status, then the movement.    *)
LEMMA StatusFirstCompletes ==
    ASSUME CommandInv, CompletesExactly, MainThreadFree, NEW x \in Transfers, NEW to \in Statuses,
           transfer[x] # Missing, NEW r, IsMovement(r), r.transfer = x,
           Outstanding(to, transfer[x].quantity) = Owes(Now, x) + r.delta,
           Begin(StatusFirst(x, to, r)), UNCHANGED corrections
    PROVE  CompletesExactly'
  <1>1. /\ todo' = StatusFirst(x, to, r) /\ faults' = faults
        /\ corrections' = corrections /\ Now' = Now
    BY NowStays DEF Begin
  <1>2. PICK u : u = Now
    OBVIOUS
  <1>3. /\ faults = 0 => Exact(u)
        /\ corrections = 0 => Applied(u)
        /\ Movable(u) /\ u.t = transfer /\ u.l = ledger
        /\ u.t \in [Transfers -> TransferRows \cup {Missing}]
    BY <1>2, Found
  <1>4. r \in Rows /\ ledger \in Seq(Rows)
    BY DEF IsMovement, CommandInv, TypeOK
  <1>5. PICK td : td = StatusFirst(x, to, r)
    OBVIOUS
  <1>6. /\ td \in Seq(Statements) /\ Len(td) = 4
        /\ td[1] = SetStatus(x, to) /\ td[2] = Insert(r)
        /\ td[3] = Add(r.place, r.delta) /\ td[4] = Queue(Len(ledger) + 1, r.delta)
    BY <1>4, <1>5, StatusFirstFacts
  <1>7. PICK w : w = After(SetStatus(x, to), u)
    OBVIOUS
  <1>8. /\ w.l = u.l /\ w.b = u.b /\ w.e = u.e
        /\ \A y \in Transfers : Owes(w, y) = IF y = x THEN Outstanding(to, u.t[x].quantity) ELSE Owes(u, y)
    BY <1>3, <1>7, StatusSettles
  <1>9. Movable(w)
    BY <1>3, <1>8 DEF Movable
  <1>10. PICK u1, u2, u3 : /\ u1 = After(Insert(r), w) /\ u2 = After(Add(r.place, r.delta), u1)
                           /\ u3 = After(Queue(Len(w.l) + 1, r.delta), u2)
    OBVIOUS
  <1>11. u3 = Moved(w, r) /\ (Applied(w) => Applied(u1) /\ Applied(u2) /\ Applied(u3))
    BY <1>4, <1>9, <1>10, MovementRun
  <1>12. corrections = 0 => Applied(w)
    BY <1>3, <1>7, StatusApplied DEF Applied
  <1>13. faults = 0 => Exact(u3)
    <2> SUFFICES ASSUME faults = 0
                 PROVE  Exact(u3)
      OBVIOUS
    <2>1. Books(w)
      BY <1>3, <1>8, <1>9 DEF Exact, Books, Projects, Carries, PlainRows
    <2>2. Books(u3)
      BY <1>11, <2>1, MovedKeepsBooks
    <2>3. u3.l = Append(u.l, r) /\ u3.t = w.t
      BY <1>8, <1>11 DEF Moved
    <2>4. \A y \in Transfers : Owes(u3, y) = Owes(w, y)
      BY <2>3 DEF Owes
    <2>5. PICK q : q = Outstanding(to, u.t[x].quantity)
      OBVIOUS
    <2>6. \A y \in Transfers : Owes(u3, y) = IF y = x THEN q ELSE Owes(u, y)
      BY <1>8, <2>4, <2>5
    <2>7. q = Owes(u, x) + r.delta
      BY <1>2, <1>3, <2>5
    <2> QED
      BY <1>3, <2>2, <2>3, <2>6, <2>7, TransferSettles
  <1>14. td[4] = Queue(Len(w.l) + 1, r.delta)
    BY <1>3, <1>6, <1>8
  <1>15. \E run : Completes(run, td, u, faults, corrections)
    <2>1. Four(td, u, w, u1, u2, u3)
      BY <1>6, <1>7, <1>10, <1>14 DEF Four
    <2>2. corrections = 0 => Applied(u) /\ Applied(w) /\ Applied(u1) /\ Applied(u2) /\ Applied(u3)
      BY <1>3, <1>11, <1>12
    <2> QED
      BY <1>13, <2>1, <2>2, RunOfFour
  <1> QED
    BY <1>1, <1>2, <1>5, <1>15 DEF CompletesExactly

(* cancel_transfer of what was shipped: the movement, then the status.       *)
LEMMA StatusLastCompletes ==
    ASSUME CommandInv, CompletesExactly, MainThreadFree, NEW x \in Transfers, NEW to \in Statuses,
           transfer[x] # Missing, NEW r, IsMovement(r), r.transfer = x,
           Outstanding(to, transfer[x].quantity) = Owes(Now, x) + r.delta,
           Begin(StatusLast(x, to, r)), UNCHANGED corrections
    PROVE  CompletesExactly'
  <1>1. /\ todo' = StatusLast(x, to, r) /\ faults' = faults
        /\ corrections' = corrections /\ Now' = Now
    BY NowStays DEF Begin
  <1>2. PICK u : u = Now
    OBVIOUS
  <1>3. /\ faults = 0 => Exact(u)
        /\ corrections = 0 => Applied(u)
        /\ Movable(u) /\ u.t = transfer /\ u.l = ledger
        /\ u.t \in [Transfers -> TransferRows \cup {Missing}]
    BY <1>2, Found
  <1>4. r \in Rows /\ ledger \in Seq(Rows)
    BY DEF IsMovement, CommandInv, TypeOK
  <1>5. PICK td : td = StatusLast(x, to, r)
    OBVIOUS
  <1>6. /\ td \in Seq(Statements) /\ Len(td) = 4
        /\ td[1] = Insert(r) /\ td[2] = Add(r.place, r.delta)
        /\ td[3] = Queue(Len(u.l) + 1, r.delta) /\ td[4] = SetStatus(x, to)
    <2>1. /\ td \in Seq(Statements) /\ Len(td) = 4
          /\ td[1] = Insert(r) /\ td[2] = Add(r.place, r.delta)
          /\ td[3] = Queue(Len(ledger) + 1, r.delta) /\ td[4] = SetStatus(x, to)
      BY <1>4, <1>5, StatusLastFacts
    <2> QED
      BY <1>3, <2>1
  <1>7. PICK u1, u2, u3 : /\ u1 = After(Insert(r), u) /\ u2 = After(Add(r.place, r.delta), u1)
                          /\ u3 = After(Queue(Len(u.l) + 1, r.delta), u2)
    OBVIOUS
  <1>8. u3 = Moved(u, r) /\ (Applied(u) => Applied(u1) /\ Applied(u2) /\ Applied(u3))
    BY <1>3, <1>4, <1>7, MovementRun
  <1>9. u3.t = u.t /\ u3.l = Append(u.l, r)
    BY <1>8 DEF Moved
  <1>10. PICK w : w = After(SetStatus(x, to), u3)
    OBVIOUS
  <1>11. /\ w.l = u3.l /\ w.b = u3.b /\ w.e = u3.e
         /\ \A y \in Transfers : Owes(w, y) = IF y = x THEN Outstanding(to, u3.t[x].quantity) ELSE Owes(u3, y)
    BY <1>3, <1>9, <1>10, StatusSettles
  <1>12. corrections = 0 => Applied(w)
    BY <1>3, <1>8, <1>10, StatusApplied DEF Applied
  <1>13. faults = 0 => Exact(w)
    <2> SUFFICES ASSUME faults = 0
                 PROVE  Exact(w)
      OBVIOUS
    <2>1. Books(u)
      BY <1>3 DEF Exact, Books
    <2>2. Books(u3)
      BY <1>8, <2>1, MovedKeepsBooks
    <2>3. Books(w)
      BY <1>11, <2>2 DEF Books, Movable, Projects, Carries, PlainRows
    <2>4. \A y \in Transfers : Owes(u3, y) = Owes(u, y)
      BY <1>9 DEF Owes
    <2>5. PICK q : q = Outstanding(to, u.t[x].quantity)
      OBVIOUS
    <2>6. \A y \in Transfers : Owes(w, y) = IF y = x THEN q ELSE Owes(u, y)
      BY <1>9, <1>11, <2>4, <2>5
    <2>7. q = Owes(u, x) + r.delta
      BY <1>2, <1>3, <2>5
    <2>8. w.l = Append(u.l, r)
      BY <1>9, <1>11
    <2> QED
      BY <1>3, <2>3, <2>6, <2>7, <2>8, TransferSettles, SMTT(30)
  <1>14. \E run : Completes(run, td, u, faults, corrections)
    <2>1. Four(td, u, u1, u2, u3, w)
      BY <1>6, <1>7, <1>10 DEF Four
    <2>2. corrections = 0 => Applied(u) /\ Applied(u1) /\ Applied(u2) /\ Applied(u3) /\ Applied(w)
      BY <1>3, <1>8, <1>12
    <2> QED
      BY <1>13, <2>1, <2>2, RunOfFour
  <1> QED
    BY <1>1, <1>2, <1>5, <1>14 DEF CompletesExactly

(* move_stock_bucket.                                                        *)
LEMMA BucketCompletes ==
    ASSUME CommandInv, CompletesExactly, NEW st \in Stores, NEW from \in Buckets, NEW to \in Buckets,
           NEW q \in Int, MoveStockBucket(st, from, to, q)
    PROVE  CompletesExactly'
  <1>1. PICK r, s : /\ r = Row(<<st, from>>, -q, "DAMAGE", NoTransfer)
                    /\ s = Row(<<st, to>>, q, "DAMAGE", NoTransfer)
    OBVIOUS
  <1>2. /\ MainThreadFree /\ from # to
        /\ todo' = <<Insert(r), Insert(s), Add(<<st, from>>, -q), Add(<<st, to>>, q),
                     Queue(NextId, -q), Queue(NextId + 1, q)>>
        /\ faults' = faults /\ corrections' = corrections
        /\ UNCHANGED <<transfer, ledger, balance, events>>
    BY <1>1 DEF MoveStockBucket, Begin
  <1>3. <<st, from>> \in Places /\ <<st, to>> \in Places /\ <<st, from>> # <<st, to>>
    BY <1>2 DEF Places
  <1>4. /\ r \in Rows /\ r.place = <<st, from>> /\ r.delta = -q /\ r.transfer = NoTransfer /\ r.type = "DAMAGE"
        /\ s \in Rows /\ s.place = <<st, to>> /\ s.delta = q /\ s.transfer = NoTransfer /\ s.type = "DAMAGE"
    BY <1>1, <1>3 DEF Row, Rows, MovementTypes
  <1>5. PICK u : u = Now
    OBVIOUS
  <1>6. /\ faults = 0 => Exact(u)
        /\ corrections = 0 => Applied(u)
        /\ Movable(u) /\ u.l = ledger
        /\ u.t \in [Transfers -> TransferRows \cup {Missing}]
    BY <1>2, <1>5, Found
  <1>7. PICK n : n = Len(u.l) + 1
    OBVIOUS
  <1>8. n \in Nat /\ n + 1 \in Nat
    BY <1>6, <1>7 DEF Movable
  <1>9. PICK td : td = <<Insert(r), Insert(s), Add(r.place, r.delta), Add(s.place, s.delta),
                         Queue(n, r.delta), Queue(n + 1, s.delta)>>
    OBVIOUS
  <1>10. todo' = td
    BY <1>2, <1>4, <1>6, <1>7, <1>9 DEF NextId
  <1>11. /\ Insert(r) \in Statements /\ Insert(s) \in Statements
         /\ Add(r.place, r.delta) \in Statements /\ Add(s.place, s.delta) \in Statements
         /\ Queue(n, r.delta) \in Statements /\ Queue(n + 1, s.delta) \in Statements
    BY <1>3, <1>4, <1>8 DEF Insert, Add, Queue, Statements
  <1>12. /\ td \in Seq(Statements) /\ Len(td) = 6
         /\ td[1] = Insert(r) /\ td[2] = Insert(s)
         /\ td[3] = Add(r.place, r.delta) /\ td[4] = Add(s.place, s.delta)
         /\ td[5] = Queue(n, r.delta) /\ td[6] = Queue(n + 1, s.delta)
    BY <1>9, <1>11
  <1>13. PICK u1, u2, u3, u4, u5, u6 :
            /\ u1 = After(Insert(r), u) /\ u2 = After(Insert(s), u1)
            /\ u3 = After(Add(r.place, r.delta), u2) /\ u4 = After(Add(s.place, s.delta), u3)
            /\ u5 = After(Queue(n, r.delta), u4) /\ u6 = After(Queue(n + 1, s.delta), u5)
    OBVIOUS
  <1>14. /\ u6 = Moved(Moved(u, r), s)
         /\ Applied(u) => /\ Applied(u1) /\ Applied(u2) /\ Applied(u3)
                          /\ Applied(u4) /\ Applied(u5) /\ Applied(u6)
    BY <1>3, <1>4, <1>6, <1>7, <1>13, BucketRun
  <1>15. IsMovement(r) /\ IsMovement(s)
    BY <1>4 DEF IsMovement
  <1>16. faults = 0 => Exact(u6)
    <2> SUFFICES ASSUME faults = 0
                 PROVE  Exact(u6)
      OBVIOUS
    <2>1. PICK m : m = Moved(u, r)
      OBVIOUS
    <2>2. Exact(m) /\ Movable(m) /\ m.t = u.t
      BY <1>4, <1>6, <1>15, <2>1, MovedKeepsExact
    <2>3. Exact(Moved(m, s))
      BY <1>4, <1>6, <1>15, <2>2, MovedKeepsExact
    <2> QED
      BY <1>14, <2>1, <2>3
  <1>17. \E run : Completes(run, td, u, faults, corrections)
    <2>1. Six(td, u, u1, u2, u3, u4, u5, u6)
      BY <1>12, <1>13 DEF Six
    <2>2. corrections = 0 => /\ Applied(u) /\ Applied(u1) /\ Applied(u2) /\ Applied(u3) /\ Applied(u4)
                             /\ Applied(u5) /\ Applied(u6)
      BY <1>6, <1>14
    <2> QED
      BY <1>16, <2>1, <2>2, RunOfSix
  <1>18. Now' = Now
    BY <1>2, NowStays
  <1> QED
    BY <1>2, <1>5, <1>10, <1>17, <1>18 DEF CompletesExactly

-----------------------------------------------------------------------------
(* Corrections. *)

(* A receipt or sale is restated, and its balance and its event with it.     *)
Restates(v, u, i, r) ==
    /\ Movable(u) /\ u.l[i].type \in {"RECEIPT", "SALE"}
    /\ Replaces(v.l, u.l, i, r)
    /\ v.t = u.t
    /\ v.b = [u.b EXCEPT ![r.place] = u.b[r.place] + (r.delta - u.l[i].delta)]
    /\ v.e = Queued(v.l)

LEMMA RestatedExact ==
    ASSUME NEW u, NEW v, NEW i, NEW r, Exact(u), Restates(v, u, i, r)
    PROVE  Exact(v)
  <1>1. u.l \in Seq(Rows) /\ u.b \in [Places -> Int]
    BY DEF Restates, Movable
  <1>2. /\ i \in DOMAIN u.l /\ r \in Rows
        /\ r.place = u.l[i].place /\ r.transfer = u.l[i].transfer
        /\ v.l = [u.l EXCEPT ![i] = r] /\ v.t = u.t /\ v.e = Queued(v.l)
        /\ v.b = [u.b EXCEPT ![r.place] = u.b[r.place] + (r.delta - u.l[i].delta)]
    BY DEF Restates, Replaces
  <1>0. u.l[i] \in Rows
    BY <1>1, <1>2
  <1>3. u.l[i].delta \in Int /\ r.delta \in Int /\ r.place \in Places
    BY <1>0, <1>2 DEF Rows
  <1>4. u.l[i].transfer = NoTransfer
    BY <1>2 DEF Exact, PlainRows, Restates
  <1>5. /\ \A p : SumAt(v.l, p) = SumAt(u.l, p) + (IF p = r.place THEN r.delta - u.l[i].delta ELSE 0)
        /\ \A x : SumFor(v.l, x) = SumFor(u.l, x) + (IF x = r.transfer THEN r.delta - u.l[i].delta ELSE 0)
    BY ReplaceSums DEF Restates
  <1>6. Projects(v)
    <2> SUFFICES ASSUME NEW p \in Places
                 PROVE  v.b[p] = SumAt(v.l, p)
      BY DEF Projects
    <2>1. SumAt(v.l, p) = SumAt(u.l, p) + (IF p = r.place THEN r.delta - u.l[i].delta ELSE 0)
      BY <1>5
    <2>2. u.b[p] = SumAt(u.l, p) /\ u.b[p] \in Int
      BY <1>1 DEF Exact, Projects
    <2>3. v.b[p] = IF p = r.place THEN u.b[p] + (r.delta - u.l[i].delta) ELSE u.b[p]
      BY <1>1, <1>2, <1>3
    <2> QED
      BY <1>3, <2>1, <2>2, <2>3
  <1>7. Balances(v)
    <2> SUFFICES ASSUME NEW x \in Transfers
                 PROVE  SumFor(v.l, x) = Owes(v, x)
      BY DEF Balances
    <2>1. x # r.transfer
      BY <1>2, <1>4, StockAssumption
    <2>2. SumFor(v.l, x) = SumFor(u.l, x) + 0
      BY <1>5, <2>1
    <2>3. SumFor(u.l, x) = Owes(u, x) /\ Owes(v, x) = Owes(u, x)
      BY <1>2 DEF Exact, Balances, Owes
    <2>4. SumFor(u.l, x) \in Int
      <3>1. PICK A : A = {j \in DOMAIN u.l : u.l[j].transfer = x}
        OBVIOUS
      <3>2. A \in SUBSET DOMAIN u.l
        BY <3>1
      <3>3. SumOver(Deltas(u.l), A) \in Int
        BY <1>1, <1>2, <3>2, AppendSums
      <3> QED
        BY <3>1, <3>3, Zenon DEF SumFor
    <2> QED
      BY <2>2, <2>3, <2>4
  <1>8. PlainRows(v)
    <2>1. DOMAIN v.l = DOMAIN u.l /\ v.l[i] = r /\ \A j \in DOMAIN u.l : j # i => v.l[j] = u.l[j]
      BY <1>1, <1>2
    <2> QED
      BY <1>2, <1>4, <2>1 DEF Exact, PlainRows
  <1> QED
    BY <1>2, <1>6, <1>7, <1>8 DEF Exact, Carries

(* delete_transaction.                                                       *)
LEMMA DeleteCompletes ==
    ASSUME CommandInv, CompletesExactly, NEW i \in DOMAIN ledger, DeleteTransaction(i)
    PROVE  CompletesExactly'
  <1>1. PICK p, d : p = ledger[i].place /\ d = ledger[i].delta
    OBVIOUS
  <1>2. /\ MainThreadFree /\ ledger[i].type \in {"RECEIPT", "SALE"}
        /\ corrections' = corrections + 1 /\ faults' = faults
        /\ todo' = <<Add(p, -d), Remove(i), Withdraw(i)>>
        /\ UNCHANGED <<transfer, ledger, balance, events>>
    BY <1>1 DEF DeleteTransaction, Corrects, Begin
  <1>3. corrections' # 0
    BY <1>2 DEF CommandInv, TypeOK
  <1>4. PICK u : u = Now
    OBVIOUS
  <1>5. (faults = 0 => Exact(u)) /\ Movable(u) /\ u.l = ledger
    BY <1>2, <1>4, Found
  <1>6. u.l \in Seq(Rows) /\ u.b \in [Places -> Int] /\ i \in DOMAIN u.l /\ i \in Nat
    BY <1>5 DEF Movable
  <1>7. u.l[i] \in Rows
    BY <1>6
  <1>8. p \in Places /\ d \in Int
    BY <1>1, <1>5, <1>7 DEF Rows
  <1>9. PICK r : r = Deleted(u.l[i])
    OBVIOUS
  <1>10. /\ r \in Rows /\ r.place = u.l[i].place /\ r.transfer = u.l[i].transfer /\ r.delta = 0
         /\ r.type = "DELETED"
    BY <1>7, <1>9 DEF Deleted, Row, Rows, MovementTypes
  <1>11. PICK td : td = <<Add(p, -d), Remove(i), Withdraw(i)>>
    OBVIOUS
  <1>12. Add(p, -d) \in Statements /\ Remove(i) \in Statements /\ Withdraw(i) \in Statements
    BY <1>6, <1>8 DEF Add, Remove, Withdraw, Statements
  <1>13. /\ td \in Seq(Statements) /\ Len(td) = 3
         /\ td[1] = Add(p, -d) /\ td[2] = Remove(i) /\ td[3] = Withdraw(i)
    BY <1>11, <1>12
  <1>14. PICK u1, u2, u3 : u1 = After(td[1], u) /\ u2 = After(td[2], u1) /\ u3 = After(td[3], u2)
    OBVIOUS
  <1>15. Tables(u1, u.t, u.l, [u.b EXCEPT ![p] = u.b[p] + (-d)], u.e)
    BY <1>13, <1>14, AfterTables, Zenon
  <1>16. Tables(u2, u1.t, [u1.l EXCEPT ![i] = Deleted(u1.l[i])], u1.b, u1.e)
    BY <1>13, <1>14, AfterTables, Zenon
  <1>17. Tables(u3, u2.t, u2.l, u2.b, {e \in u2.e : e.id # i})
    BY <1>13, <1>14, AfterTables, Zenon
  <1>18. u1.t = u.t /\ u1.l = u.l /\ u1.b = [u.b EXCEPT ![p] = u.b[p] + (-d)] /\ u1.e = u.e
    BY <1>15 DEF Tables
  <1>19. u2.t = u1.t /\ u2.l = [u1.l EXCEPT ![i] = Deleted(u1.l[i])] /\ u2.b = u1.b /\ u2.e = u1.e
    BY <1>16 DEF Tables
  <1>20. u3.t = u2.t /\ u3.l = u2.l /\ u3.b = u2.b /\ u3.e = {e \in u2.e : e.id # i}
    BY <1>17 DEF Tables
  <1>21. faults = 0 => Exact(u3)
    <2> SUFFICES ASSUME faults = 0
                 PROVE  Exact(u3)
      OBVIOUS
    <2>1. u3.t = u.t /\ u3.l = [u.l EXCEPT ![i] = r] /\ u3.e = {e \in u.e : e.id # i}
      BY <1>9, <1>18, <1>19, <1>20
    <2>2. u3.b = [u.b EXCEPT ![p] = u.b[p] + (-d)]
      BY <1>18, <1>19, <1>20
    <2>3. u.b[p] + (-d) = u.b[p] + (r.delta - u.l[i].delta) /\ p = r.place
      BY <1>1, <1>5, <1>6, <1>8, <1>10
    <2>4. u3.b = [u.b EXCEPT ![r.place] = u.b[r.place] + (r.delta - u.l[i].delta)]
      BY <2>2, <2>3
    <2>5. Exact(u)
      BY <1>5
    <2>6. DOMAIN u3.l = DOMAIN u.l /\ u3.l[i] = r /\ \A j \in DOMAIN u.l : j # i => u3.l[j] = u.l[j]
      BY <1>6, <2>1
    <2>7. u.e = Queued(u.l)
      BY <2>5 DEF Exact, Carries
    <2>8. u3.e = Queued(u3.l)
      BY <1>10, <2>1, <2>6, <2>7 DEF Queued
    <2>9. u.l[i].type \in {"RECEIPT", "SALE"}
      BY <1>2, <1>5
    <2> QED
      <3>1. Restates(u3, u, i, r)
        BY <1>5, <1>6, <1>10, <2>1, <2>4, <2>8, <2>9 DEF Restates, Replaces
      <3> QED
        BY <2>5, <3>1, RestatedExact
  <1>22. \E run : Completes(run, td, u, faults', corrections')
    BY <1>2, <1>3, <1>13, <1>14, <1>21, RunOfThree
  <1>23. Now' = Now
    BY <1>2, NowStays
  <1> QED
    BY <1>2, <1>4, <1>11, <1>22, <1>23 DEF CompletesExactly

(* update_transaction: the balance is left alone when the quantity stays.    *)
LEMMA UpdateFacts ==
    ASSUME CommandInv, NEW i \in DOMAIN ledger, NEW d \in Int,
           NEW td, td = <<Amend(i, d)>>
                        \o (IF d = ledger[i].delta THEN <<>> ELSE <<Add(ledger[i].place, d - ledger[i].delta)>>)
                        \o <<Requeue(i, d)>>
    PROVE  /\ td \in Seq(Statements)
           /\ \/ Len(td) = 2 /\ td[1] = Amend(i, d) /\ td[2] = Requeue(i, d) /\ d = ledger[i].delta
              \/ Len(td) = 3 /\ td[1] = Amend(i, d) /\ td[2] = Add(ledger[i].place, d - ledger[i].delta)
                 /\ td[3] = Requeue(i, d)
  <1> DEFINE change == Add(ledger[i].place, d - ledger[i].delta)
             patch == IF d = ledger[i].delta THEN <<>> ELSE <<change>>
             u == <<Amend(i, d)>>
             v == u \o patch
             w == <<Requeue(i, d)>>
  <1>1. td = v \o w
    OBVIOUS
  <1>2. ledger[i] \in Rows /\ i \in Nat
    BY DEF CommandInv, TypeOK
  <1>3. change \in Statements
    BY <1>2 DEF Add, Statements, Rows
  <1>4. Amend(i, d) \in Statements /\ Requeue(i, d) \in Statements
    BY <1>2 DEF Amend, Requeue, Statements
  <1> HIDE DEF change
  <1>6. u \in Seq(Statements) /\ Len(u) = 1 /\ u[1] = Amend(i, d)
    BY <1>4
  <1>7. w \in Seq(Statements) /\ Len(w) = 1 /\ w[1] = Requeue(i, d)
    BY <1>4
  <1>8. /\ patch \in Seq(Statements)
        /\ (Len(patch) = 0 /\ d = ledger[i].delta) \/ (Len(patch) = 1 /\ patch[1] = change)
    BY <1>3
  <1> HIDE DEF patch, u, w
  <1>9. /\ v \in Seq(Statements) /\ Len(v) = Len(u) + Len(patch)
        /\ \A k \in 1 .. Len(u) + Len(patch) : v[k] = IF k <= Len(u) THEN u[k] ELSE patch[k - Len(u)]
    BY <1>6, <1>8, ConcatProperties, Zenon DEF v
  <1> HIDE DEF v
  <1>10. /\ v[1] = Amend(i, d)
         /\ (Len(v) = 1 /\ d = ledger[i].delta) \/ (Len(v) = 2 /\ v[2] = change)
    BY <1>6, <1>8, <1>9
  <1>11. /\ td \in Seq(Statements) /\ Len(td) = Len(v) + Len(w)
         /\ \A k \in 1 .. Len(v) + Len(w) : td[k] = IF k <= Len(v) THEN v[k] ELSE w[k - Len(v)]
    <2> DEFINE t == v \o w
    <2>0. v \in Seq(Statements) /\ w \in Seq(Statements)
      BY <1>7, <1>9
    <2>1. /\ t \in Seq(Statements) /\ Len(t) = Len(v) + Len(w)
          /\ \A k \in 1 .. Len(v) + Len(w) : t[k] = IF k <= Len(v) THEN v[k] ELSE w[k - Len(v)]
      BY <2>0, ConcatProperties, Zenon
    <2>2. td = t
      BY <1>1
    <2> QED BY <2>1, <2>2, Zenon
  <1>12. \/ Len(td) = 2 /\ td[1] = Amend(i, d) /\ td[2] = Requeue(i, d) /\ d = ledger[i].delta
         \/ Len(td) = 3 /\ td[1] = Amend(i, d) /\ td[2] = change /\ td[3] = Requeue(i, d)
    BY <1>7, <1>10, <1>11
  <1> QED BY <1>11, <1>12 DEF change

(* update_transaction completes with the row, its balance and its event      *)
(* restated together.                                                        *)
LEMMA UpdateCompletes ==
    ASSUME CommandInv, CompletesExactly, NEW i \in DOMAIN ledger, NEW q \in Int, UpdateTransaction(i, q)
    PROVE  CompletesExactly'
  <1>1. PICK d : d = IF ledger[i].type = "SALE" THEN -q ELSE q
    OBVIOUS
  <1>2. d \in Int
    BY <1>1
  <1>3. PICK td : td = <<Amend(i, d)>>
                       \o (IF d = ledger[i].delta THEN <<>> ELSE <<Add(ledger[i].place, d - ledger[i].delta)>>)
                       \o <<Requeue(i, d)>>
    OBVIOUS
  <1>4. /\ MainThreadFree /\ ledger[i].type \in {"RECEIPT", "SALE"}
        /\ corrections' = corrections + 1 /\ faults' = faults /\ todo' = td
        /\ UNCHANGED <<transfer, ledger, balance, events>>
    BY <1>1, <1>3 DEF UpdateTransaction, Corrects, Begin
  <1>5. corrections' # 0
    BY <1>4 DEF CommandInv, TypeOK
  <1>6. PICK u : u = Now
    OBVIOUS
  <1>7. (faults = 0 => Exact(u)) /\ Movable(u) /\ u.l = ledger
    BY <1>4, <1>6, Found
  <1>8. u.l \in Seq(Rows) /\ u.b \in [Places -> Int] /\ i \in DOMAIN u.l
    BY <1>7 DEF Movable
  <1>9. u.l[i] \in Rows
    BY <1>8
  <1>10. PICK p, o : p = u.l[i].place /\ o = u.l[i].delta
    OBVIOUS
  <1>11. p \in Places /\ o \in Int
    BY <1>9, <1>10 DEF Rows
  <1>12. PICK r : r = Amended(u.l[i], d)
    OBVIOUS
  <1>13. /\ r \in Rows /\ r.place = p /\ r.transfer = u.l[i].transfer /\ r.delta = d
         /\ r.type = u.l[i].type
    BY <1>2, <1>9, <1>10, <1>12 DEF Amended, Rows
  <1>14. /\ td \in Seq(Statements)
         /\ \/ Len(td) = 2 /\ td[1] = Amend(i, d) /\ td[2] = Requeue(i, d) /\ d = o
            \/ Len(td) = 3 /\ td[1] = Amend(i, d) /\ td[2] = Add(p, d - o) /\ td[3] = Requeue(i, d)
    BY <1>2, <1>3, <1>7, <1>10, UpdateFacts
  <1>15. PICK s : s = Requeue(i, d)
    OBVIOUS
  <1>16. s.id = i /\ s.delta = d
    BY <1>15 DEF Requeue
  <1>17. ASSUME NEW v, v.t = u.t, v.l = [u.l EXCEPT ![i] = r],
                v.b = [u.b EXCEPT ![p] = u.b[p] + (d - o)], v.e = Requeued(s, u.e), faults = 0
         PROVE  Exact(v)
    <2>1. Exact(u)
      BY <1>7, <1>17
    <2>2. DOMAIN v.l = DOMAIN u.l /\ v.l[i] = r /\ \A j \in DOMAIN u.l : j # i => v.l[j] = u.l[j]
      BY <1>8, <1>17
    <2>3. u.e = Queued(u.l)
      BY <2>1 DEF Exact, Carries
    <2>4. \A j \in DOMAIN u.l : v.l[j].type = u.l[j].type
      BY <1>13, <2>2
    <2>5. \A j \in DOMAIN u.l :
             Restated(s, [id |-> j, delta |-> u.l[j].delta]) = [id |-> j, delta |-> v.l[j].delta]
      BY <1>13, <1>16, <2>2 DEF Restated
    <2>6. v.e = Queued(v.l)
      <3>1. ASSUME NEW e \in v.e
            PROVE  e \in Queued(v.l)
        <4>1. PICK o1 \in u.e : e = Restated(s, o1)
          BY <1>17 DEF Requeued
        <4>2. PICK j \in DOMAIN u.l : u.l[j].type # "DELETED" /\ o1 = [id |-> j, delta |-> u.l[j].delta]
          BY <2>3 DEF Queued
        <4>3. e = [id |-> j, delta |-> v.l[j].delta]
          BY <2>5, <4>1, <4>2
        <4> QED
          BY <2>2, <2>4, <4>2, <4>3 DEF Queued
      <3>2. ASSUME NEW e \in Queued(v.l)
            PROVE  e \in v.e
        <4>1. PICK j \in DOMAIN v.l : v.l[j].type # "DELETED" /\ e = [id |-> j, delta |-> v.l[j].delta]
          BY DEF Queued
        <4>2. PICK o1 : o1 = [id |-> j, delta |-> u.l[j].delta]
          OBVIOUS
        <4>3. o1 \in u.e
          BY <2>2, <2>3, <2>4, <4>1, <4>2 DEF Queued
        <4>4. e = Restated(s, o1)
          BY <2>2, <2>5, <4>1, <4>2
        <4> QED
          BY <1>17, <4>3, <4>4 DEF Requeued
      <3> QED
        BY <3>1, <3>2
    <2>7. u.l[i].type \in {"RECEIPT", "SALE"}
      BY <1>4, <1>7
    <2>8. v.b = [u.b EXCEPT ![r.place] = u.b[r.place] + (r.delta - u.l[i].delta)]
      BY <1>10, <1>13, <1>17
    <2>9. r.place = u.l[i].place
      BY <1>10, <1>13
    <2> QED
      <3>1. Restates(v, u, i, r)
        BY <1>7, <1>8, <1>13, <1>17, <2>6, <2>7, <2>8, <2>9 DEF Restates, Replaces
      <3> QED
        BY <2>1, <3>1, RestatedExact
  <1>18. CASE Len(td) = 2 /\ td[1] = Amend(i, d) /\ td[2] = Requeue(i, d) /\ d = o
    <2>1. PICK u1, u2 : u1 = After(td[1], u) /\ u2 = After(td[2], u1)
      OBVIOUS
    <2>2. Tables(u1, u.t, [u.l EXCEPT ![i] = Amended(u.l[i], d)], u.b, u.e)
      BY <1>18, <2>1, AfterTables, Zenon
    <2>3. Tables(u2, u1.t, u1.l, u1.b, Requeued(s, u1.e))
      <3>1. Tables(u2, u1.t, u1.l, u1.b, Requeued(Requeue(i, d), u1.e))
        BY <1>18, <2>1, AfterTables, Zenon
      <3> QED
        BY <1>15, <3>1
    <2>4. u1.t = u.t /\ u1.l = [u.l EXCEPT ![i] = r] /\ u1.b = u.b /\ u1.e = u.e
      BY <1>12, <2>2 DEF Tables
    <2>5. u2.t = u1.t /\ u2.l = u1.l /\ u2.b = u1.b /\ u2.e = Requeued(s, u1.e)
      BY <2>3 DEF Tables
    <2>6. u.b = [u.b EXCEPT ![p] = u.b[p] + (d - o)]
      BY <1>8, <1>11, <1>18
    <2>7. faults = 0 => Exact(u2)
      BY <1>17, <2>4, <2>5, <2>6
    <2>8. \E run : Completes(run, td, u, faults', corrections')
      BY <1>4, <1>5, <1>14, <1>18, <2>1, <2>7, RunOfTwo
    <2> QED
      BY <1>4, <1>6, <2>8, NowStays DEF CompletesExactly
  <1>19. CASE Len(td) = 3 /\ td[1] = Amend(i, d) /\ td[2] = Add(p, d - o) /\ td[3] = Requeue(i, d)
    <2>1. PICK u1, u2, u3 : u1 = After(td[1], u) /\ u2 = After(td[2], u1) /\ u3 = After(td[3], u2)
      OBVIOUS
    <2>2. Tables(u1, u.t, [u.l EXCEPT ![i] = Amended(u.l[i], d)], u.b, u.e)
      BY <1>19, <2>1, AfterTables, Zenon
    <2>3. Tables(u2, u1.t, u1.l, [u1.b EXCEPT ![p] = u1.b[p] + (d - o)], u1.e)
      BY <1>19, <2>1, AfterTables, Zenon
    <2>4. Tables(u3, u2.t, u2.l, u2.b, Requeued(s, u2.e))
      <3>1. Tables(u3, u2.t, u2.l, u2.b, Requeued(Requeue(i, d), u2.e))
        BY <1>19, <2>1, AfterTables, Zenon
      <3> QED
        BY <1>15, <3>1
    <2>5. u1.t = u.t /\ u1.l = [u.l EXCEPT ![i] = r] /\ u1.b = u.b /\ u1.e = u.e
      BY <1>12, <2>2 DEF Tables
    <2>6. u2.t = u1.t /\ u2.l = u1.l /\ u2.b = [u1.b EXCEPT ![p] = u1.b[p] + (d - o)] /\ u2.e = u1.e
      BY <2>3 DEF Tables
    <2>7. u3.t = u2.t /\ u3.l = u2.l /\ u3.b = u2.b /\ u3.e = Requeued(s, u2.e)
      BY <2>4 DEF Tables
    <2>8. faults = 0 => Exact(u3)
      BY <1>17, <2>5, <2>6, <2>7
    <2>9. \E run : Completes(run, td, u, faults', corrections')
      BY <1>4, <1>5, <1>14, <1>19, <2>1, <2>8, RunOfThree
    <2> QED
      BY <1>4, <1>6, <2>9, NowStays DEF CompletesExactly
  <1> QED
    BY <1>14, <1>18, <1>19

-----------------------------------------------------------------------------
(* Every step keeps CompletesExactly.                                        *)

(* receive_stock and sell_stock complete at once.                            *)
LEMMA RecordCompletes ==
    ASSUME CommandInv, CompletesExactly, NEW r, IsMovement(r), r.transfer = NoTransfer, Record(r)
    PROVE  CompletesExactly'
  <1>1. /\ MainThreadFree /\ todo' = <<>> /\ ledger' = Append(ledger, r)
        /\ balance' = [balance EXCEPT ![r.place] = balance[r.place] + r.delta]
        /\ events' = events \cup {[id |-> Len(ledger) + 1, delta |-> r.delta]}
        /\ UNCHANGED <<transfer, corrections, faults>>
    BY DEF Record, MainThreadFree, NextId
  <1>2. PICK u : u = Now
    OBVIOUS
  <1>3. /\ faults = 0 => Exact(u)
        /\ corrections = 0 => Applied(u)
        /\ Movable(u) /\ u.t = transfer /\ u.l = ledger /\ u.b = balance /\ u.e = events
        /\ u.t \in [Transfers -> TransferRows \cup {Missing}]
    BY <1>1, <1>2, Found
  <1>4. Now' = Moved(u, r)
    BY <1>1, <1>3 DEF Now, Moved
  <1>5. PICK u1, u2, u3 : /\ u1 = After(Insert(r), u) /\ u2 = After(Add(r.place, r.delta), u1)
                          /\ u3 = After(Queue(Len(u.l) + 1, r.delta), u2)
    OBVIOUS
  <1>6. r \in Rows
    BY DEF IsMovement
  <1>7. u3 = Moved(u, r) /\ (Applied(u) => Applied(u3))
    BY <1>3, <1>5, <1>6, MovementRun
  <1>8. faults' = 0 => Exact(u3)
    BY <1>1, <1>3, <1>7, MovedKeepsExact
  <1>9. corrections' = 0 => Applied(u3)
    BY <1>1, <1>3, <1>7
  <1>10. \E run : Completes(run, <<>>, u3, faults', corrections')
    BY <1>8, <1>9, IdleCompletes
  <1> QED
    BY <1>1, <1>4, <1>7, <1>10 DEF CompletesExactly

(* create_transfer: a draft owes nothing.                                    *)
LEMMA CreateCompletes ==
    ASSUME CommandInv, CompletesExactly, NEW x \in Transfers, NEW st, NEW d, NEW q,
           CreateTransfer(x, st, d, q)
    PROVE  CompletesExactly'
  <1>1. PICK row : row = [status |-> "DRAFT", source |-> st, destination |-> d, quantity |-> q]
    OBVIOUS
  <1>2. /\ MainThreadFree /\ todo' = <<>> /\ transfer[x] = Missing
        /\ transfer' = [transfer EXCEPT ![x] = row]
        /\ UNCHANGED <<ledger, balance, events, corrections, faults>>
    BY <1>1 DEF CreateTransfer, MainThreadFree
  <1>3. PICK u : u = Now
    OBVIOUS
  <1>4. /\ faults = 0 => Exact(u)
        /\ corrections = 0 => Applied(u)
        /\ u.t = transfer /\ u.l = ledger /\ u.b = balance /\ u.e = events
        /\ u.t \in [Transfers -> TransferRows \cup {Missing}]
    BY <1>2, <1>3, Found
  <1>5. PICK v : v = Now'
    OBVIOUS
  <1>6. v.t = [u.t EXCEPT ![x] = row] /\ v.l = u.l /\ v.b = u.b /\ v.e = u.e
    BY <1>2, <1>4, <1>5 DEF Now
  <1>7. \A y \in Transfers : Owes(v, y) = Owes(u, y)
    <2>1. \A y \in Transfers : y # x => v.t[y] = u.t[y]
      BY <1>4, <1>6
    <2>2. v.t[x] = row /\ u.t[x] = Missing
      BY <1>2, <1>4, <1>6
    <2>3. Owes(v, x) = 0 /\ Owes(u, x) = 0
      BY <1>1, <2>2 DEF Owes, Missing
    <2> QED
      BY <2>1, <2>3 DEF Owes
  <1>8. faults' = 0 => Exact(v)
    BY <1>2, <1>4, <1>6, <1>7 DEF Exact, Projects, Carries, PlainRows, Balances
  <1>9. corrections' = 0 => Applied(v)
    <2>1. ASSUME NEW A, AppliedBy(u, A)
          PROVE  AppliedBy(v, A)
      BY <1>6, <2>1, Zenon DEF AppliedBy
    <2> QED
      BY <1>2, <1>4, <2>1 DEF Applied
  <1>10. \E run : Completes(run, <<>>, v, faults', corrections')
    BY <1>8, <1>9, IdleCompletes
  <1> QED
    BY <1>2, <1>5, <1>10 DEF CompletesExactly

(* A statement is executed.                                                  *)
LEMMA StatementCompletes ==
    ASSUME CommandInv, CompletesExactly, Statement
    PROVE  CompletesExactly'
  <1>1. /\ todo \in Seq(Statements) /\ todo # <<>> /\ todo' = Tail(todo)
        /\ corrections' = corrections /\ faults' = faults
    BY DEF CommandInv, TypeOK, Statement, Executes, WriteStatus, InsertRow, AddToBalance, QueueEvent,
           AmendRow, RequeueEvent, RemoveRow, WithdrawEvent
  <1>2. PICK run : Completes(run, todo, Now, faults, corrections)
    BY DEF CompletesExactly
  <1>3. \E rest : Completes(rest, Tail(todo), After(Head(todo), Now), faults, corrections)
    BY <1>1, <1>2, RunAdvances
  <1>4. Now' = After(Head(todo), Now)
    BY StatementIsAfter
  <1> QED
    BY <1>1, <1>3, <1>4 DEF CompletesExactly

(* The rest of a command is dropped: what is queued has been applied.        *)
LEMMA InterruptCompletes ==
    ASSUME CommandInv, CompletesExactly, Interrupt
    PROVE  CompletesExactly'
  <1>1. todo' = <<>> /\ faults' = faults + 1 /\ corrections' = corrections /\ Now' = Now
    BY NowStays DEF Interrupt
  <1>2. todo \in Seq(Statements) /\ faults' # 0
    BY <1>1 DEF CommandInv, TypeOK
  <1>3. corrections = 0 => Applied(Now)
    <2>1. PICK run : Completes(run, todo, Now, faults, corrections)
      BY DEF CompletesExactly
    <2> QED
      BY <1>2, <2>1, RunIsApplied
  <1>4. \E run : Completes(run, <<>>, Now, faults', corrections')
    BY <1>1, <1>2, <1>3, IdleCompletes
  <1> QED
    BY <1>1, <1>4 DEF CompletesExactly

(* The commands at the counter.                                              *)
LEMMA CounterCompletes ==
    ASSUME CommandInv, CompletesExactly, Counter
    PROVE  CompletesExactly'
  <1>1. PICK st \in Stores, q \in Quantities :
            \/ ReceiveStock(st, q) \/ SellStock(st, q) \/ AdjustStock(st, q) \/ AdjustStock(st, -q)
            \/ \E b \in Buckets : CustomerReturn(<<st, b>>, q) \/ SupplierReturn(<<st, b>>, q)
            \/ \E from, to \in Buckets : MoveStockBucket(st, from, to, q)
    BY DEF Counter
  <1>2. q \in Int /\ -q \in Int /\ Available(st) \in Places
    BY StockAssumption DEF Available, Places
  <1>3. ASSUME NEW p \in Places, NEW d \in Int, NEW type \in {"RECEIPT", "SALE", "RETURN", "ADJUSTMENT"}
        PROVE  IsMovement(Row(p, d, type, NoTransfer)) /\ Row(p, d, type, NoTransfer).transfer = NoTransfer
    BY DEF Row, Rows, MovementTypes, IsMovement
  <1>4. CASE ReceiveStock(st, q) \/ SellStock(st, q)
    <2>1. PICK d \in Int, type \in {"RECEIPT", "SALE"} : Record(Row(Available(st), d, type, NoTransfer))
      BY <1>2, <1>4 DEF ReceiveStock, SellStock
    <2> QED
      BY <1>2, <1>3, <2>1, RecordCompletes
  <1>5. ASSUME NEW d \in Int, AdjustStock(st, d)
        PROVE  CompletesExactly'
    <2>1. PICK r : r = Row(Available(st), d, "ADJUSTMENT", NoTransfer)
      OBVIOUS
    <2>2. MainThreadFree /\ Begin(Movement(r)) /\ UNCHANGED corrections
      BY <1>5, <2>1 DEF AdjustStock
    <2>3. IsMovement(r) /\ r.transfer = NoTransfer
      BY <1>2, <1>3, <2>1
    <2> QED
      BY <2>2, <2>3, PlainCompletes
  <1>6. ASSUME NEW b \in Buckets, CustomerReturn(<<st, b>>, q) \/ SupplierReturn(<<st, b>>, q)
        PROVE  CompletesExactly'
    <2>1. <<st, b>> \in Places
      BY DEF Places
    <2>2. PICK p : p = <<st, b>>
      OBVIOUS
    <2>3. CustomerReturn(p, q) \/ SupplierReturn(p, q)
      BY <1>6, <2>2
    <2>4. PICK d \in Int : /\ MainThreadFree /\ UNCHANGED corrections
                           /\ Begin(Movement(Row(p, d, "RETURN", NoTransfer)))
      BY <1>2, <2>3 DEF CustomerReturn, SupplierReturn
    <2>5. PICK r : r = Row(p, d, "RETURN", NoTransfer)
      OBVIOUS
    <2>6. IsMovement(r) /\ r.transfer = NoTransfer
      BY <1>3, <2>1, <2>2, <2>5
    <2> QED
      BY <2>4, <2>5, <2>6, PlainCompletes
  <1>7. ASSUME NEW from \in Buckets, NEW to \in Buckets, MoveStockBucket(st, from, to, q)
        PROVE  CompletesExactly'
    BY <1>2, <1>7, BucketCompletes
  <1> QED
    BY <1>1, <1>2, <1>4, <1>5, <1>6, <1>7

(* The commands of the transfer desk.                                        *)
LEMMA TransferDeskCompletes ==
    ASSUME CommandInv, CompletesExactly, TransferDesk
    PROVE  CompletesExactly'
  <1>1. PICK x \in Transfers :
            \/ \E st, d \in Stores, q \in Quantities : CreateTransfer(x, st, d, q)
            \/ DispatchTransfer(x) \/ ReceiveTransfer(x) \/ CancelShipped(x)
            \/ CancelUnshipped(x) \/ MarkTransferException(x)
    BY DEF TransferDesk
  <1>2. transfer[x] \in TransferRows \cup {Missing} /\ Now.t = transfer
    BY DEF CommandInv, TypeOK, Now
  <1>3. PICK q : q = transfer[x].quantity
    OBVIOUS
  <1>4. Owes(Now, x) = Outstanding(transfer[x].status, q)
    BY <1>2, <1>3 DEF Owes, Outstanding
  <1>5. ASSUME transfer[x].status # "NONE"
        PROVE  /\ transfer[x] # Missing /\ transfer[x].status \in Statuses
               /\ Available(transfer[x].source) \in Places
               /\ Available(transfer[x].destination) \in Places
               /\ q \in Int /\ -q \in Int
    <2>1. transfer[x] # Missing /\ transfer[x] \in TransferRows
      BY <1>2, <1>5 DEF Missing
    <2>2. transfer[x].source \in Stores /\ transfer[x].destination \in Stores
          /\ transfer[x].status \in Statuses /\ transfer[x].quantity \in Nat \ {0}
      BY <2>1 DEF TransferRows
    <2> QED BY <1>3, <2>1, <2>2, StockAssumption DEF Available, Places
  <1>6. ASSUME NEW p \in Places, NEW d \in Int, NEW type \in {"TRANSFER_OUT", "TRANSFER_IN"}
        PROVE  /\ IsMovement(Row(p, d, type, x)) /\ Row(p, d, type, x).transfer = x
               /\ Row(p, d, type, x).delta = d
    BY DEF Row, Rows, MovementTypes, IsMovement
  <1>7. {"DISPATCHED", "EXCEPTION", "RECEIVED", "CANCELLED"} \subseteq Statuses
    BY DEF Statuses
  <1>8. CASE \E st, d \in Stores, n \in Quantities : CreateTransfer(x, st, d, n)
    BY <1>8, CreateCompletes
  <1>9. CASE DispatchTransfer(x)
    <2>1. PICK r : r = Row(Available(transfer[x].source), -q, "TRANSFER_OUT", x)
      OBVIOUS
    <2>2. /\ MainThreadFree /\ transfer[x].status = "DRAFT"
          /\ Begin(StatusFirst(x, "DISPATCHED", r)) /\ UNCHANGED corrections
      BY <1>3, <1>9, <2>1 DEF DispatchTransfer
    <2>3. transfer[x] # Missing /\ IsMovement(r) /\ r.transfer = x /\ r.delta = -q /\ q \in Int
      BY <1>5, <1>6, <2>1, <2>2
    <2>4. Outstanding("DISPATCHED", transfer[x].quantity) = Owes(Now, x) + r.delta
      BY <1>3, <1>4, <2>2, <2>3 DEF Outstanding
    <2> QED
      BY <1>7, <2>2, <2>3, <2>4, StatusFirstCompletes
  <1>10. CASE ReceiveTransfer(x)
    <2>1. PICK r : r = Row(Available(transfer[x].destination), q, "TRANSFER_IN", x)
      OBVIOUS
    <2>2. /\ MainThreadFree /\ transfer[x].status \in {"DISPATCHED", "EXCEPTION"}
          /\ Begin(StatusFirst(x, "RECEIVED", r)) /\ UNCHANGED corrections
      BY <1>3, <1>10, <2>1 DEF ReceiveTransfer, MayReceive, Shipped
    <2>3. transfer[x] # Missing /\ IsMovement(r) /\ r.transfer = x /\ r.delta = q /\ q \in Int
      BY <1>5, <1>6, <2>1, <2>2
    <2>4. Outstanding("RECEIVED", transfer[x].quantity) = Owes(Now, x) + r.delta
      BY <1>3, <1>4, <2>2, <2>3 DEF Outstanding
    <2> QED
      BY <1>7, <2>2, <2>3, <2>4, StatusFirstCompletes
  <1>11. CASE CancelShipped(x)
    <2>1. PICK r : r = Row(Available(transfer[x].source), q, "TRANSFER_OUT", x)
      OBVIOUS
    <2>2. /\ MainThreadFree /\ transfer[x].status \in {"DISPATCHED", "EXCEPTION"}
          /\ Begin(StatusLast(x, "CANCELLED", r)) /\ UNCHANGED corrections
      BY <1>3, <1>11, <2>1 DEF CancelShipped, Shipped, StatusLast
    <2>3. transfer[x] # Missing /\ IsMovement(r) /\ r.transfer = x /\ r.delta = q /\ q \in Int
      BY <1>5, <1>6, <2>1, <2>2
    <2>4. Outstanding("CANCELLED", transfer[x].quantity) = Owes(Now, x) + r.delta
      BY <1>3, <1>4, <2>2, <2>3 DEF Outstanding
    <2> QED
      BY <1>7, <2>2, <2>3, <2>4, StatusLastCompletes
  <1>12. CASE CancelUnshipped(x)
    <2>1. /\ MainThreadFree
          /\ transfer[x].status \notin {"DISPATCHED", "EXCEPTION", "NONE", "RECEIVED", "CANCELLED"}
          /\ Begin(<<SetStatus(x, "CANCELLED")>>) /\ UNCHANGED corrections
      BY <1>12 DEF CancelUnshipped, Shipped
    <2>2. transfer[x] # Missing
      BY <1>5, <2>1
    <2>3. Outstanding("CANCELLED", transfer[x].quantity) = Owes(Now, x)
      BY <1>4, <2>1 DEF Outstanding
    <2> QED
      BY <1>7, <2>1, <2>2, <2>3, StatusCompletes
  <1>13. CASE MarkTransferException(x)
    <2>1. /\ MainThreadFree /\ transfer[x].status = "DISPATCHED"
          /\ Begin(<<SetStatus(x, "EXCEPTION")>>) /\ UNCHANGED corrections
      BY <1>13 DEF MarkTransferException
    <2>2. transfer[x] # Missing
      BY <1>5, <2>1
    <2>3. Outstanding("EXCEPTION", transfer[x].quantity) = Owes(Now, x)
      BY <1>3, <1>4, <2>1 DEF Outstanding
    <2> QED
      BY <1>7, <2>1, <2>2, <2>3, StatusCompletes
  <1> QED
    BY <1>1, <1>8, <1>9, <1>10, <1>11, <1>12, <1>13

(* CompletesExactly holds initially and every step keeps it.                 *)
LEMMA CompletesInit ==
    ASSUME Init
    PROVE  CompletesExactly
  <1>1. PICK u : u = Now
    OBVIOUS
  <1>2. /\ u.l = <<>> /\ u.b = [p \in Places |-> 0] /\ u.e = {} /\ u.t = [x \in Transfers |-> Missing]
        /\ todo = <<>>
    BY <1>1 DEF Init, Now
  <1>3. DOMAIN u.l = {}
    BY <1>2
  <1>4. \A p : SumAt(u.l, p) = 0 /\ SumFor(u.l, p) = 0
    <2> TAKE p
    <2>1. {i \in DOMAIN u.l : u.l[i].place = p} = {} /\ {i \in DOMAIN u.l : u.l[i].transfer = p} = {}
      BY <1>3
    <2> QED
      BY <2>1, SumEmpty, Zenon DEF SumAt, SumFor
  <1>5. Exact(u)
    <2>1. Projects(u)
      BY <1>2, <1>4 DEF Projects
    <2>2. Carries(u)
      BY <1>2, <1>3 DEF Carries, Queued
    <2>3. Balances(u)
      BY <1>2, <1>4 DEF Balances, Owes, Missing
    <2>4. PlainRows(u)
      BY <1>3 DEF PlainRows
    <2> QED
      BY <2>1, <2>2, <2>3, <2>4 DEF Exact
  <1>6. AppliedBy(u, {})
    <2>1. ASSUME NEW p \in Places
          PROVE  u.b[p] = SumOver(Deltas(u.l), {i \in {} : u.l[i].place = p})
      <3>1. {i \in {} : u.l[i].place = p} = {}
        OBVIOUS
      <3>2. u.b[p] = 0
        BY <1>2
      <3> QED
        BY <3>1, <3>2, SumEmpty, Zenon
    <2> QED
      BY <1>2, <2>1, Zenon DEF AppliedBy
  <1>7. \E run : Completes(run, <<>>, u, faults, corrections)
    BY <1>5, <1>6, IdleCompletes DEF Applied
  <1> QED
    BY <1>1, <1>2, <1>7 DEF CompletesExactly

(* One case for each kind of step.                                           *)
LEMMA CompletesStep ==
    ASSUME CommandInv, CompletesExactly, [Next]_vars
    PROVE  CompletesExactly'
  <1>1. CASE Counter
    BY <1>1, CounterCompletes
  <1>2. CASE TransferDesk
    BY <1>2, TransferDeskCompletes
  <1>3. CASE Correction
    BY <1>3, UpdateCompletes, DeleteCompletes, StockAssumption DEF Correction
  <1>4. CASE Statement
    BY <1>4, StatementCompletes
  <1>5. CASE Interrupt
    BY <1>5, InterruptCompletes
  <1>6. CASE UNCHANGED vars
    BY <1>6, NowStays DEF vars, CompletesExactly
  <1> QED BY <1>1, <1>2, <1>3, <1>4, <1>5, <1>6 DEF Next

(* Whatever command is in progress, the statements it has left lead to       *)
(* tables that agree, and can be dropped at any point without leaving an     *)
(* event queued whose movement is not in the balances.                       *)
THEOREM EveryCommandCompletes == Spec => []CompletesExactly
  <1>1. Init => CompletesExactly
    BY CompletesInit
  <1>2. CommandInv /\ CompletesExactly /\ [Next]_vars => CompletesExactly'
    BY CompletesStep
  <1> QED BY <1>1, <1>2, CommandInvAlways, PTL DEF Spec

(* Every command that is not interrupted leaves the balances equal to the    *)
(* sums of quantity_delta, exactly one event per row of the ledger, and the  *)
(* rows of every transfer summing to what is on its way, for any number of   *)
(* stores, buckets, transfers and rows.                                      *)
THEOREM CompletedIsExact == Spec => []UninterruptedIsExact
  <1>1. CommandInv /\ CompletesExactly => UninterruptedIsExact
    <2> SUFFICES ASSUME CommandInv, CompletesExactly, faults = 0, MainThreadFree
                 PROVE  BalanceIsProjection /\ EventsCarryLedger /\ TransferIsBalanced
      BY DEF UninterruptedIsExact
    <2>1. Exact(Now) /\ Now.t = transfer /\ Now.l = ledger /\ Now.b = balance /\ Now.e = events
      BY Found
    <2>2. BalanceIsProjection
      BY <2>1, Zenon DEF Exact, Projects, BalanceIsProjection, SumAt, SumOf, RowsAt, Deltas
    <2>3. EventsCarryLedger
      BY <2>1, Zenon DEF Exact, Carries, Queued, EventsCarryLedger
    <2>4. \A x \in Transfers : SumOf(RowsOf(x)) = Owes(Now, x)
      BY <2>1, Zenon DEF Exact, Balances, SumFor, SumOf, RowsOf, Deltas
    <2>5. TransferIsBalanced
      BY <2>1, <2>4 DEF TransferIsBalanced, Owes
    <2> QED
      BY <2>2, <2>3, <2>5
  <1> QED BY <1>1, CommandInvAlways, EveryCommandCompletes, PTL

(* However often commands are interrupted: the balances are the sum over     *)
(* rows that include every queued one, because each command writes a balance *)
(* before it queues the event.                                               *)
THEOREM AppliedBeforeQueued == Spec => []QueuedIsApplied
  <1>1. CommandInv /\ CompletesExactly => QueuedIsApplied
    <2> SUFFICES ASSUME CommandInv, CompletesExactly, corrections = 0
                 PROVE  \E applied \in SUBSET DOMAIN ledger :
                           /\ {e.id : e \in events} \subseteq applied
                           /\ \A p \in Places : balance[p] = SumOf(RowsAt(p) \cap applied)
      BY DEF QueuedIsApplied
    <2>1. PICK run : Completes(run, todo, Now, faults, corrections)
      BY DEF CompletesExactly
    <2>2. Applied(Now)
      BY <2>1, RunIsApplied DEF CommandInv, TypeOK
    <2>3. PICK A : AppliedBy(Now, A)
      BY <2>2 DEF Applied
    <2>4. Now.l = ledger /\ Now.b = balance /\ Now.e = events
      BY DEF Now
    <2>5. A \in SUBSET DOMAIN ledger /\ {e.id : e \in events} \subseteq A
      BY <2>3, <2>4 DEF AppliedBy
    <2>6. ASSUME NEW p \in Places
          PROVE  balance[p] = SumOf(RowsAt(p) \cap A)
      <3>1. {i \in A : ledger[i].place = p} = RowsAt(p) \cap A
        BY <2>5 DEF RowsAt
      <3>2. balance[p] = SumOver(Deltas(ledger), {i \in A : ledger[i].place = p})
        BY <2>3, <2>4, Zenon DEF AppliedBy
      <3> QED
        BY <3>1, <3>2, Zenon DEF SumOf, Deltas
    <2> QED
      BY <2>5, <2>6
  <1> QED BY <1>1, CommandInvAlways, EveryCommandCompletes, PTL
=============================================================================
