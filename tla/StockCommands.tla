--------------------------- MODULE StockCommands ---------------------------
(***************************************************************************)
(* The commands of the desktop application that move stock, as they write  *)
(* the local SQLite database (apps/desktop/src-tauri/src/lib.rs).          *)
(*                                                                         *)
(* receive_stock and sell_stock write in one SQLite transaction.  Every    *)
(* other command executes its statements one by one, each committed on its *)
(* own: a statement that fails, or the end of the process, leaves the      *)
(* statements before it in place and drops the rest.  The commands run on  *)
(* the main thread, one after the other, so "todo", the statements of the  *)
(* command in progress, is a single sequence.                              *)
(*                                                                         *)
(* One product; a place is a store and a stock bucket.                     *)
(***************************************************************************)
EXTENDS Integers, Sequences, FiniteSets, Sums

CONSTANTS Stores, Buckets, Transfers, NoTransfer,
          Quantities,                          \* quantities the user enters
          MaxRows, MaxCorrections, MaxFaults   \* bounds

ASSUME StockAssumption ==
    /\ "AVAILABLE" \in Buckets
    /\ NoTransfer \notin Transfers
    /\ Quantities \subseteq Int
    /\ MaxRows \in Nat /\ MaxCorrections \in Nat /\ MaxFaults \in Nat

VARIABLES
    transfer,      \* table transfers
    ledger,        \* table inventory_transactions, in order of insertion
    balance,       \* table stock_balances
    events,        \* table outbox_events: what is queued to be pushed
    todo,          \* statements the command in progress has yet to execute
    corrections,   \* edits and deletions made so far
    faults         \* commands interrupted so far

vars == <<transfer, ledger, balance, events, todo, corrections, faults>>

Places == Stores \X Buckets
Available(s) == <<s, "AVAILABLE">>

Statuses == {"DRAFT", "DISPATCHED", "EXCEPTION", "RECEIVED", "CANCELLED"}
Missing == [status |-> "NONE"]
TransferRows ==
    [status : Statuses, source : Stores, destination : Stores, quantity : Nat \ {0}]

MovementTypes == {"RECEIPT", "SALE", "RETURN", "ADJUSTMENT", "DAMAGE", "TRANSFER_OUT",
                  "TRANSFER_IN", "DELETED"}
Row(p, d, type, x) == [place |-> p, delta |-> d, type |-> type, transfer |-> x]
Rows == [place : Places, delta : Int, type : MovementTypes, transfer : Transfers \cup {NoTransfer}]

(* The statements a command executes. *)
SetStatus(x, s) == [op |-> "status", transfer |-> x, to |-> s]
Insert(r) == [op |-> "insert", row |-> r]
Add(p, d) == [op |-> "balance", place |-> p, delta |-> d]
Queue(i, d) == [op |-> "queue", id |-> i, delta |-> d]
Amend(i, d) == [op |-> "amend", id |-> i, delta |-> d]
Requeue(i, d) == [op |-> "requeue", id |-> i, delta |-> d]
Remove(i) == [op |-> "remove", id |-> i]
Withdraw(i) == [op |-> "withdraw", id |-> i]

Statements ==
    [op : {"status"}, transfer : Transfers, to : Statuses]
    \cup [op : {"insert"}, row : Rows]
    \cup [op : {"balance"}, place : Places, delta : Int]
    \cup [op : {"queue", "amend", "requeue"}, id : Nat, delta : Int]
    \cup [op : {"remove", "withdraw"}, id : Nat]

TypeOK ==
    /\ transfer \in [Transfers -> TransferRows \cup {Missing}]
    /\ ledger \in Seq(Rows)
    /\ balance \in [Places -> Int]
    /\ events \subseteq [id : DOMAIN ledger, delta : Int]
    /\ todo \in Seq(Statements)
    /\ corrections \in Nat
    /\ faults \in Nat

Init ==
    /\ transfer = [x \in Transfers |-> Missing]
    /\ ledger = <<>>
    /\ balance = [p \in Places |-> 0]
    /\ events = {}
    /\ todo = <<>>
    /\ corrections = 0
    /\ faults = 0

-----------------------------------------------------------------------------
MainThreadFree == todo = <<>>
Room(n) == Len(ledger) + n <= MaxRows
NextId == Len(ledger) + 1

(* A command starts: its checks have passed, its statements are to come.     *)
Begin(statements) ==
    /\ todo' = statements
    /\ UNCHANGED <<transfer, ledger, balance, events, faults>>

CoveredButOne(p, q) == q <= balance[p] + 1   \* mutant: off by one
Covered(p, q) == q <= balance[p]

(* One movement in one transaction: ledger row, balance, outbox event.       *)
Record(r) ==
    /\ MainThreadFree
    /\ Room(1)
    /\ ledger' = Append(ledger, r)
    /\ balance' = [balance EXCEPT ![r.place] = @ + r.delta]
    /\ events' = events \cup {[id |-> NextId, delta |-> r.delta]}
    /\ UNCHANGED <<transfer, todo, corrections, faults>>

ReceiveStock(s, q) ==
    /\ q > 0
    /\ Record(Row(Available(s), q, "RECEIPT", NoTransfer))

SellStock(s, q) ==
    /\ q > 0
    /\ Covered(Available(s), q)
    /\ Record(Row(Available(s), -q, "SALE", NoTransfer))

(* The same three writes one by one.                                         *)
MovementQueuedFirst(r) ==   \* mutant: the event is queued before the balance is written
    <<Insert(r), Queue(NextId, r.delta), Add(r.place, r.delta)>>
Movement(r) == <<Insert(r), Add(r.place, r.delta), Queue(NextId, r.delta)>>

(* return_stock: a customer's return increases any bucket ...                *)
CustomerReturn(p, q) ==
    /\ MainThreadFree
    /\ Room(1)
    /\ q > 0
    /\ Begin(Movement(Row(p, q, "RETURN", NoTransfer)))
    /\ UNCHANGED corrections

(* ... a return to the supplier must be covered by the bucket.               *)
SupplierReturn(p, q) ==
    /\ MainThreadFree
    /\ Room(1)
    /\ q > 0
    /\ Covered(p, q)
    /\ Begin(Movement(Row(p, -q, "RETURN", NoTransfer)))
    /\ UNCHANGED corrections

(* adjust_stock: a delta of either sign, zero included.                      *)
AdjustStock(s, d) ==
    /\ MainThreadFree
    /\ Room(1)
    /\ d < 0 => Covered(Available(s), -d)
    /\ Begin(Movement(Row(Available(s), d, "ADJUSTMENT", NoTransfer)))
    /\ UNCHANGED corrections

(* move_stock_bucket: both rows, both balances, both events.                 *)
MoveStockBucket(s, from, to, q) ==
    LET out == Row(<<s, from>>, -q, "DAMAGE", NoTransfer)
        in == Row(<<s, to>>, q, "DAMAGE", NoTransfer)
    IN  /\ MainThreadFree
        /\ Room(2)
        /\ q > 0
        /\ from # to
        /\ Covered(<<s, from>>, q)
        /\ Begin(<<Insert(out), Insert(in), Add(<<s, from>>, -q), Add(<<s, to>>, q),
                   Queue(NextId, -q), Queue(NextId + 1, q)>>)
        /\ UNCHANGED corrections

-----------------------------------------------------------------------------
(* Transfers between stores. *)

CreateTransfer(x, source, destination, q) ==
    /\ MainThreadFree
    /\ transfer[x] = Missing
    /\ q > 0
    /\ source # destination
    /\ transfer' = [transfer EXCEPT ![x] = [status |-> "DRAFT", source |-> source,
                                            destination |-> destination, quantity |-> q]]
    /\ UNCHANGED <<ledger, balance, events, todo, corrections, faults>>

StatusLast(x, s, r) == Movement(r) \o <<SetStatus(x, s)>>   \* mutant: the other order
StatusFirst(x, s, r) == <<SetStatus(x, s)>> \o Movement(r)

(* dispatch_transfer: the status first, then the outgoing movement.          *)
DispatchTransfer(x) ==
    LET out == Row(Available(transfer[x].source), -transfer[x].quantity, "TRANSFER_OUT", x)
    IN  /\ MainThreadFree
        /\ Room(1)
        /\ transfer[x].status = "DRAFT"
        /\ Covered(Available(transfer[x].source), transfer[x].quantity)
        /\ Begin(StatusFirst(x, "DISPATCHED", out))
        /\ UNCHANGED corrections

DispatchedOnly == {"DISPATCHED"}   \* mutant: a flagged transfer is cancelled without compensation
Shipped == {"DISPATCHED", "EXCEPTION"}

(* receive_transfer: the status first, then the incoming movement.           *)
ShippedOrDraft == Shipped \cup {"DRAFT"}   \* mutant: a draft can be received
MayReceive == Shipped

ReceiveTransfer(x) ==
    LET in == Row(Available(transfer[x].destination), transfer[x].quantity, "TRANSFER_IN", x)
    IN  /\ MainThreadFree
        /\ Room(1)
        /\ transfer[x].status \in MayReceive
        /\ Begin(StatusFirst(x, "RECEIVED", in))
        /\ UNCHANGED corrections

(* cancel_transfer: what was shipped is given back to the source first, the  *)
(* status comes last.                                                        *)
CancelShipped(x) ==
    LET back == Row(Available(transfer[x].source), transfer[x].quantity, "TRANSFER_OUT", x)
    IN  /\ MainThreadFree
        /\ Room(1)
        /\ transfer[x].status \in Shipped
        /\ Begin(Movement(back) \o <<SetStatus(x, "CANCELLED")>>)
        /\ UNCHANGED corrections

CancelUnshipped(x) ==
    /\ MainThreadFree
    /\ transfer[x].status \notin Shipped \cup {"NONE", "RECEIVED", "CANCELLED"}
    /\ Begin(<<SetStatus(x, "CANCELLED")>>)
    /\ UNCHANGED corrections

MarkTransferException(x) ==
    /\ MainThreadFree
    /\ transfer[x].status = "DISPATCHED"
    /\ Begin(<<SetStatus(x, "EXCEPTION")>>)
    /\ UNCHANGED corrections

-----------------------------------------------------------------------------
(* Corrections of receipts and sales, the rows the grids offer for editing.  *)

Corrects(i) ==
    /\ MainThreadFree
    /\ ledger[i].type \in {"RECEIPT", "SALE"}
    /\ corrections < MaxCorrections
    /\ corrections' = corrections + 1

(* update_transaction: no check against the balance.                         *)
UpdateTransaction(i, q) ==
    LET d == IF ledger[i].type = "SALE" THEN -q ELSE q
        patch == IF d = ledger[i].delta THEN <<>>
                 ELSE <<Add(ledger[i].place, d - ledger[i].delta)>>
    IN  /\ Corrects(i)
        /\ Begin(<<Amend(i, d)>> \o patch \o <<Requeue(i, d)>>)

(* delete_transaction of a row that is not synced: the balance first.        *)
DeleteTransaction(i) ==
    /\ Corrects(i)
    /\ Begin(<<Add(ledger[i].place, -ledger[i].delta), Remove(i), Withdraw(i)>>)

-----------------------------------------------------------------------------
(* Execution of one statement. *)

Executes(op) ==
    /\ todo # <<>>
    /\ Head(todo).op = op
    /\ todo' = Tail(todo)
    /\ UNCHANGED <<corrections, faults>>

WriteStatus ==
    /\ Executes("status")
    /\ transfer' = [transfer EXCEPT ![Head(todo).transfer] = [@ EXCEPT !.status = Head(todo).to]]
    /\ UNCHANGED <<ledger, balance, events>>

InsertRow ==
    /\ Executes("insert")
    /\ ledger' = Append(ledger, Head(todo).row)
    /\ UNCHANGED <<transfer, balance, events>>

AddToBalance ==
    /\ Executes("balance")
    /\ balance' = [balance EXCEPT ![Head(todo).place] = @ + Head(todo).delta]
    /\ UNCHANGED <<transfer, ledger, events>>

QueueEvent ==
    /\ Executes("queue")
    /\ events' = events \cup {[id |-> Head(todo).id, delta |-> Head(todo).delta]}
    /\ UNCHANGED <<transfer, ledger, balance>>

AmendRow ==
    /\ Executes("amend")
    /\ ledger' = [ledger EXCEPT ![Head(todo).id] = [@ EXCEPT !.delta = Head(todo).delta]]
    /\ UNCHANGED <<transfer, balance, events>>

(* UPDATE of an event: the new payload, if there is such an event.           *)
RequeueEvent ==
    /\ Executes("requeue")
    /\ events' = {IF e.id = Head(todo).id THEN [id |-> e.id, delta |-> Head(todo).delta] ELSE e :
                    e \in events}
    /\ UNCHANGED <<transfer, ledger, balance>>

(* A deleted row keeps its place in the sequence and counts for nothing.     *)
WithoutRowShifted(i) ==   \* mutant: the rows after it take other ids
    SubSeq(ledger, 1, i - 1) \o SubSeq(ledger, i + 1, Len(ledger))
WithoutRow(i) == [ledger EXCEPT ![i] = Row(ledger[i].place, 0, "DELETED", ledger[i].transfer)]

RemoveRow ==
    /\ Executes("remove")
    /\ ledger' = WithoutRow(Head(todo).id)
    /\ UNCHANGED <<transfer, balance, events>>

WithdrawEvent ==
    /\ Executes("withdraw")
    /\ events' = {e \in events : e.id # Head(todo).id}
    /\ UNCHANGED <<transfer, ledger, balance>>

(* A statement fails or the process ends: the rest is never executed.        *)
Interrupt ==
    /\ todo # <<>>
    /\ faults < MaxFaults
    /\ faults' = faults + 1
    /\ todo' = <<>>
    /\ UNCHANGED <<transfer, ledger, balance, events, corrections>>

-----------------------------------------------------------------------------
Counter ==
    \E s \in Stores, q \in Quantities :
        \/ ReceiveStock(s, q) \/ SellStock(s, q) \/ AdjustStock(s, q) \/ AdjustStock(s, -q)
        \/ \E b \in Buckets : CustomerReturn(<<s, b>>, q) \/ SupplierReturn(<<s, b>>, q)
        \/ \E from, to \in Buckets : MoveStockBucket(s, from, to, q)

TransferDesk ==
    \E x \in Transfers :
        \/ \E s, d \in Stores, q \in Quantities : CreateTransfer(x, s, d, q)
        \/ DispatchTransfer(x) \/ ReceiveTransfer(x) \/ CancelShipped(x)
        \/ CancelUnshipped(x) \/ MarkTransferException(x)

Correction ==
    \E i \in DOMAIN ledger :
        (\E q \in Quantities : UpdateTransaction(i, q)) \/ DeleteTransaction(i)

Statement ==
    \/ WriteStatus \/ InsertRow \/ AddToBalance \/ QueueEvent
    \/ AmendRow \/ RequeueEvent \/ RemoveRow \/ WithdrawEvent

Next == Counter \/ TransferDesk \/ Correction \/ Statement \/ Interrupt

Spec == Init /\ [][Next]_vars
-----------------------------------------------------------------------------
(* Properties. *)

SumOf(ids) == SumOver([i \in DOMAIN ledger |-> ledger[i].delta], ids)
RowsAt(p) == {i \in DOMAIN ledger : ledger[i].place = p}
RowsOf(x) == {i \in DOMAIN ledger : ledger[i].transfer = x}

(* The ledger invariant: balance = sum of quantity_delta.                    *)
BalanceIsProjection == \A p \in Places : balance[p] = SumOf(RowsAt(p))

(* Every ledger row, and no deleted one, is queued with its quantity.        *)
EventsCarryLedger ==
    events = {[id |-> i, delta |-> ledger[i].delta] :
                i \in {j \in DOMAIN ledger : ledger[j].type # "DELETED"}}

(* AT-005: what a transfer took from its source is on its way, or has been   *)
(* received in full at the destination, or has been given back in full.      *)
TransferIsBalanced ==
    MainThreadFree =>
        \A x \in Transfers :
            SumOf(RowsOf(x)) =
                IF transfer[x].status \in {"DISPATCHED", "EXCEPTION"}
                THEN -transfer[x].quantity ELSE 0

(* As long as no command has been interrupted, every command leaves balances *)
(* that are the sum of the ledger, an event for each row, and transfers that *)
(* neither create nor lose stock.                                            *)
UninterruptedIsExact ==
    faults = 0 /\ MainThreadFree =>
        BalanceIsProjection /\ EventsCarryLedger /\ TransferIsBalanced

(* FR-MOV-008 holds through interruptions: only a correction, which checks   *)
(* nothing, can take a balance below zero.                                   *)
StockStaysCovered == corrections = 0 => \A p \in Places : balance[p] >= 0

(* What the server will be told has been applied locally, whatever was       *)
(* interrupted: the balances are the sum over a set of rows that contains    *)
(* every queued one (the balance is written before the event).               *)
QueuedIsApplied ==
    corrections = 0 =>
        \E applied \in SUBSET DOMAIN ledger :
            /\ {e.id : e \in events} \subseteq applied
            /\ \A p \in Places : balance[p] = SumOf(RowsAt(p) \cap applied)

(* However often it is interrupted and tried again, a transfer leaves its    *)
(* source at most once and arrives at most once: the status that forbids a   *)
(* second try is written before the movement.                                *)
Ships(r) == r.type = "TRANSFER_OUT" /\ r.delta < 0
Arrives(r) == r.type = "TRANSFER_IN"
TransferMovesOnce ==
    \A i, j \in DOMAIN ledger :
        /\ ledger[i].transfer # NoTransfer
        /\ ledger[i].transfer = ledger[j].transfer
        /\ \/ Ships(ledger[i]) /\ Ships(ledger[j])
           \/ Arrives(ledger[i]) /\ Arrives(ledger[j])
        => i = j

(* The transfer lifecycle of the domain package; leaving a status the domain *)
(* calls terminal, or skipping one, would be an illegal transition there.    *)
AllowedTransitions ==
    {<<"NONE", "DRAFT">>, <<"DRAFT", "DISPATCHED">>, <<"DRAFT", "CANCELLED">>,
     <<"DISPATCHED", "RECEIVED">>, <<"DISPATCHED", "EXCEPTION">>, <<"DISPATCHED", "CANCELLED">>,
     <<"EXCEPTION", "RECEIVED">>, <<"EXCEPTION", "CANCELLED">>}

(* Every status change the commands make is one validate_transfer_transition *)
(* allows, also when they are interrupted between check and write.           *)
FollowsTransferRules ==
    [][\A x \in Transfers :
          transfer'[x].status # transfer[x].status
          => <<transfer[x].status, transfer'[x].status>> \in AllowedTransitions]_vars
-----------------------------------------------------------------------------
(* The strengthenings the proofs of StockProofs use: what the statements of  *)
(* the command in progress still rely on.                                    *)

(* A statement about a ledger row finds it: it exists already, or one of the *)
(* statements before inserts it.                                             *)
FindsItsRow ==
    \A i \in DOMAIN todo :
        todo[i].op \in {"queue", "amend", "requeue", "remove", "withdraw"} =>
            \/ todo[i].id \in DOMAIN ledger
            \/ /\ todo[i].op = "queue"
               /\ todo[i].id = Len(ledger) + 1
               /\ \E j \in DOMAIN todo : j < i /\ todo[j].op = "insert"
            \/ /\ todo[i].op = "queue"
               /\ todo[i].id = Len(ledger) + 2
               /\ i > 2 /\ todo[1].op = "insert" /\ todo[2].op = "insert"

(* A pending change of a balance is covered, and the only one at its place.  *)
PendingIsCovered ==
    \A i \in DOMAIN todo : todo[i].op = "balance" =>
        /\ corrections = 0 => balance[todo[i].place] + todo[i].delta >= 0
        /\ \A j \in DOMAIN todo :
              todo[j].op = "balance" /\ todo[j].place = todo[i].place => j = i

(* A pending change of a transfer's status is allowed, and the only one.     *)
PendingIsAllowed ==
    \A i \in DOMAIN todo : todo[i].op = "status" =>
        /\ transfer[todo[i].transfer] # Missing
        /\ <<transfer[todo[i].transfer].status, todo[i].to>> \in AllowedTransitions
        /\ \A j \in DOMAIN todo : todo[j].op = "status" => j = i

(* A shipment or arrival is inserted once its transfer has the status that   *)
(* excludes another; corrections leave the rows of transfers alone.          *)
AfterShipping == Statuses \ {"DRAFT"}
AfterArrival == {"RECEIVED"}
SettledRows ==
    \A k \in DOMAIN ledger : ledger[k].transfer # NoTransfer =>
        /\ Ships(ledger[k]) => transfer[ledger[k].transfer].status \in AfterShipping
        /\ Arrives(ledger[k]) => transfer[ledger[k].transfer].status \in AfterArrival
        /\ \A i \in DOMAIN todo :
              todo[i].op = "insert" /\ todo[i].row.transfer = ledger[k].transfer =>
                  /\ ~(Ships(ledger[k]) /\ Ships(todo[i].row))
                  /\ ~(Arrives(ledger[k]) /\ Arrives(todo[i].row))
SettledInserts ==
    \A i \in DOMAIN todo : todo[i].op = "insert" /\ todo[i].row.transfer # NoTransfer =>
        /\ Ships(todo[i].row) =>
              \/ transfer[todo[i].row.transfer].status \in AfterShipping
              \/ i = 2 /\ todo[1] = SetStatus(todo[i].row.transfer, "DISPATCHED")
        /\ Arrives(todo[i].row) =>
              \/ transfer[todo[i].row.transfer].status \in AfterArrival
              \/ i = 2 /\ todo[1] = SetStatus(todo[i].row.transfer, "RECEIVED")
        /\ \A j \in DOMAIN todo :
              todo[j].op = "insert" /\ todo[j].row.transfer = todo[i].row.transfer => j = i
AmendsNoTransfer ==
    \A i \in DOMAIN todo : todo[i].op = "amend" =>
        /\ todo[i].id \in DOMAIN ledger
        /\ ledger[todo[i].id].type \notin {"TRANSFER_OUT", "TRANSFER_IN"}
RowsAreUnique == SettledRows /\ SettledInserts /\ AmendsNoTransfer

CommandInv ==
    /\ TypeOK
    /\ FindsItsRow
    /\ PendingIsCovered
    /\ StockStaysCovered
    /\ PendingIsAllowed
    /\ RowsAreUnique
    /\ TransferMovesOnce
=============================================================================
