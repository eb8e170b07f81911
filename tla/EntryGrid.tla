------------------------------ MODULE EntryGrid ------------------------------
(***************************************************************************)
(* The grid in which receipts and sales are entered: the rows of            *)
(* useGridKeyboardFlow, the row editing of LinearGridEntry, and the commit,  *)
(* edit and delete handlers of ReceiveStockView and SaleStockView. A row is  *)
(* marked committed before the command is sent ("optimistic commit") and is  *)
(* given back when the command is refused. The commands themselves           *)
(* (StockCommands) are external here: each is accepted or refused.           *)
(***************************************************************************)
EXTENDS Integers, FiniteSets

CONSTANTS MaxRows,    \* bound: rows of the grid
          MaxCalls,   \* bound: commits, edits and deletions sent
          MaxFills    \* bound: changes of a row's cells

ASSUME EntryAssumption == MaxRows \in Nat \ {0} /\ MaxCalls \in Nat /\ MaxFills \in Nat

VARIABLES
    entryView,   \* "receive" or "sale"
    rowCount,    \* rows.length
    rows,        \* per row: [product, qty, ref, committed]
    activeRow, activeField,
    txnIds,      \* committedTxnIds: per row "none", "pending" or "known"
    entryLog,    \* per row, the quantity in the entry log; 0: not listed
    editing,     \* editingRowId (0: none) and editValues
    confirming,  \* deletingRowId (0: none)
    calls,       \* commands under way: [op, row, qty, ref, txn]
    posted,      \* the transaction recorded for a row: [made, live, product, qty]
    sent, fills, switched,
    refused,     \* history: rows whose values the handler refused
    misled       \* history: rows patched although nothing was saved

entryVars == <<entryView, rowCount, rows, activeRow, activeField, txnIds, entryLog, editing,
               confirming, calls, posted, sent, fills, switched, refused, misled>>

RowIds == 1 .. MaxRows
EmptyRow == [product |-> "", qty |-> 1, ref |-> FALSE, committed |-> FALSE]
NoEdit == [row |-> 0, qty |-> 1, ref |-> FALSE]
NotPosted == [made |-> 0, live |-> FALSE, product |-> "", qty |-> 0]

(* The columns: Receive has product, quantity, supplier, receipt number;     *)
(* Sale has product, quantity, receipt number.                               *)
ReceiveFIELDS == 0 .. 3
SaleFIELDS == 0 .. 2
Fields == IF entryView = "receive" THEN ReceiveFIELDS ELSE SaleFIELDS
isLastField(i) == i + 1 \notin Fields

(* What the operator may leave in the cells of a row: nothing, a text no     *)
(* product has, a product, with a quantity and a reference or not.           *)
Cells == { [product |-> "unknown", qty |-> 1, ref |-> TRUE],
           [product |-> "a", qty |-> 1, ref |-> TRUE],
           [product |-> "a", qty |-> 0, ref |-> TRUE],
           [product |-> "a", qty |-> 1, ref |-> FALSE] }
-----------------------------------------------------------------------------
(* handleCommitRow's checks. A value that fails one sets an error and        *)
(* returns: nothing is thrown.                                               *)
ReceiveAccepts(v) == v.product \in {"a", "b"} /\ v.qty > 0
SaleAccepts(v) == v.product \in {"a", "b"} /\ v.qty > 0 /\ v.ref
Accepted(v) == IF entryView = "receive" THEN ReceiveAccepts(v) ELSE SaleAccepts(v)

(* Cells of an uncommitted row are open, and those of the row being edited.  *)
CellEnabled(r) == r <= rowCount /\ (~rows[r].committed \/ editing.row = r)
Larger(a, b) == IF a > b THEN a ELSE b
Smaller(a, b) == IF a < b THEN a ELSE b

handleFieldFocus(r, i) ==
    /\ CellEnabled(r) /\ <<r, i>> # <<activeRow, activeField>>
    /\ activeRow' = r /\ activeField' = i
    /\ UNCHANGED <<entryView, rowCount, rows, txnIds, entryLog, editing, confirming, calls,
                   posted, sent, fills, switched, refused, misled>>

handleFieldChange(v) ==
    /\ activeRow <= rowCount /\ ~rows[activeRow].committed /\ fills < MaxFills
    /\ rows' = [rows EXCEPT ![activeRow].product = v.product, ![activeRow].qty = v.qty,
                            ![activeRow].ref = v.ref]
    /\ fills' = fills + 1
    /\ UNCHANGED <<entryView, rowCount, activeRow, activeField, txnIds, entryLog, editing,
                   confirming, calls, posted, sent, switched, refused, misled>>

(* A product of the pane goes into the active row, whether or not that row   *)
(* has just been committed.                                                  *)
handleSearchPanelSelect ==
    /\ activeRow <= rowCount /\ fills < MaxFills
    /\ rows[activeRow].product # "b"
    /\ rows' = [rows EXCEPT ![activeRow].product = "b"]
    /\ misled' = IF rows[activeRow].committed THEN misled \cup {activeRow} ELSE misled
    /\ activeField' = 1
    /\ fills' = fills + 1
    /\ UNCHANGED <<entryView, rowCount, activeRow, txnIds, entryLog, editing, confirming,
                   calls, posted, sent, switched, refused>>
-----------------------------------------------------------------------------
(* After a commit: a row is appended below the last one and its first cell   *)
(* takes the focus.                                                          *)
focusNext(r) ==
    /\ rowCount' = Smaller(MaxRows, Larger(rowCount, r + 1))
    /\ activeRow' = Smaller(MaxRows, r + 1) /\ activeField' = 0

\* mutant: a committed row may be committed again
CanCommitAlways(r) == TRUE
CanCommit(r) == ~rows[r].committed

(* commitRow marks the row and calls the view's handler, which refuses the   *)
(* values without throwing, so that the row stays marked, or logs the entry  *)
(* and sends the command.                                                    *)
commitRow(r) ==
    /\ CanCommit(r) /\ sent < MaxCalls
    /\ sent' = sent + 1
    /\ rows' = [rows EXCEPT ![r].committed = TRUE]
    /\ IF Accepted(rows[r])
       THEN /\ calls' = calls \cup {[op |-> "commit", row |-> r, qty |-> rows[r].qty,
                                     ref |-> rows[r].ref, product |-> rows[r].product,
                                     txn |-> "none"]}
            /\ txnIds' = [txnIds EXCEPT ![r] = "pending"]
            /\ entryLog' = [entryLog EXCEPT ![r] = rows[r].qty]
            /\ UNCHANGED <<rowCount, activeRow, activeField, refused>>
       ELSE /\ refused' = refused \cup {r}
            /\ focusNext(r)
            /\ UNCHANGED <<calls, txnIds, entryLog>>
    /\ UNCHANGED <<entryView, editing, confirming, posted, fills, switched, misled>>

(* Enter or Tab: on to the next cell, commit from the last one; on a row     *)
(* already committed, on to the next open row.                               *)
NextOpen == {i \in RowIds : i > activeRow /\ i <= rowCount /\ ~rows[i].committed}

handleKeyDown ==
    \/ /\ activeRow <= rowCount /\ isLastField(activeField)
       /\ commitRow(activeRow)
    \/ /\ activeRow <= rowCount
       /\ \/ /\ ~rows[activeRow].committed /\ ~isLastField(activeField)
             /\ activeField' = activeField + 1 /\ UNCHANGED activeRow
          \/ /\ rows[activeRow].committed /\ NextOpen # {}
             /\ activeRow' = CHOOSE i \in NextOpen : \A j \in NextOpen : i <= j
             /\ activeField' = 0
          \/ /\ ~rows[activeRow].committed /\ activeField > 0
             /\ activeField' = activeField - 1 /\ UNCHANGED activeRow
       /\ UNCHANGED <<entryView, rowCount, rows, txnIds, entryLog, editing, confirming,
                      calls, posted, sent, fills, switched, refused, misled>>

(* Escape: an open row starts over.                                          *)
clearRow ==
    /\ activeRow <= rowCount /\ ~rows[activeRow].committed /\ rows[activeRow] # EmptyRow
    /\ rows' = [rows EXCEPT ![activeRow] = EmptyRow]
    /\ activeField' = 0
    /\ UNCHANGED <<entryView, rowCount, activeRow, txnIds, entryLog, editing, confirming,
                   calls, posted, sent, fills, switched, refused, misled>>

(* receiveStock or sellStock answers. The handler records the id, or takes   *)
(* the entry back and throws, on which commitRow opens the row again.        *)
\* mutant: the handler keeps the error to itself
RollBackSwallowed(r) == UNCHANGED rows
RollBack(r) == rows' = [rows EXCEPT ![r].committed = FALSE]

ReceiveCommitAnswers(c, ok) ==
    IF ok
    THEN /\ posted' = [posted EXCEPT ![c.row] = [made |-> @.made + 1, live |-> TRUE,
                                                 product |-> c.product, qty |-> c.qty]]
         /\ txnIds' = [txnIds EXCEPT ![c.row] = "known"]
         /\ focusNext(c.row)
         /\ UNCHANGED <<rows, entryLog>>
    ELSE /\ txnIds' = [txnIds EXCEPT ![c.row] = "none"]
         /\ entryLog' = [entryLog EXCEPT ![c.row] = 0]
         /\ RollBack(c.row)
         /\ UNCHANGED <<posted, rowCount, activeRow, activeField>>
SaleCommitAnswers(c, ok) == ReceiveCommitAnswers(c, ok)

CommitAnswers(c, ok) ==
    /\ c.op = "commit"
    /\ calls' = calls \ {c}
    /\ \/ entryView = "receive" /\ ReceiveCommitAnswers(c, ok)
       \/ entryView = "sale" /\ SaleCommitAnswers(c, ok)
    /\ UNCHANGED <<entryView, editing, confirming, sent, fills, switched, refused, misled>>
-----------------------------------------------------------------------------
(* The actions cell of a committed row: edit (unless being edited), delete.  *)
EditOffered(r) == r <= rowCount /\ rows[r].committed /\ editing.row # r
DeleteOffered(r) == EditOffered(r) /\ confirming # r

startEditing(r) ==
    /\ EditOffered(r) /\ sent < MaxCalls
    /\ editing' = [row |-> r, qty |-> rows[r].qty, ref |-> rows[r].ref]
    /\ confirming' = 0
    /\ UNCHANGED <<entryView, rowCount, rows, activeRow, activeField, txnIds, entryLog,
                   calls, posted, sent, fills, switched, refused, misled>>

EditCell(q, f) ==
    /\ editing.row # 0 /\ fills < MaxFills
    /\ editing' = [editing EXCEPT !.qty = q, !.ref = f]
    /\ fills' = fills + 1
    /\ UNCHANGED <<entryView, rowCount, rows, activeRow, activeField, txnIds, entryLog,
                   confirming, calls, posted, sent, switched, refused, misled>>

cancelEdit ==
    /\ editing.row # 0
    /\ editing' = NoEdit
    /\ UNCHANGED <<entryView, rowCount, rows, activeRow, activeField, txnIds, entryLog,
                   confirming, calls, posted, sent, fills, switched, refused, misled>>

\* mutant: the grid keeps the values it had before the edit
patchNothing(r, q, f) == UNCHANGED rows
patchRowValues(r, q, f) == rows' = [rows EXCEPT ![r].qty = q, ![r].ref = f]

(* handleEditRow returns quietly when it knows no transaction for the row,   *)
(* and in Sale when the receipt number is missing.                           *)
ReceiveRefusesEdit(e) == txnIds[e.row] = "none"
SaleRefusesEdit(e) == txnIds[e.row] = "none" \/ ~e.ref
RefusesEdit(e) == IF entryView = "receive" THEN ReceiveRefusesEdit(e) ELSE SaleRefusesEdit(e)

(* commitEdit: the row shows the new values after handleEditRow returned,    *)
(* whether it saved them or not, and leaves the edit mode.                   *)
commitEdit ==
    /\ editing.row # 0 /\ sent < MaxCalls
    /\ sent' = sent + 1
    /\ IF RefusesEdit(editing)
       THEN /\ patchRowValues(editing.row, editing.qty, editing.ref)
            /\ misled' = misled \cup {editing.row}
            /\ editing' = NoEdit
            /\ UNCHANGED calls
       ELSE /\ calls' = calls \cup {[op |-> "edit", row |-> editing.row, qty |-> editing.qty,
                                     ref |-> editing.ref, product |-> "", txn |-> txnIds[editing.row]]}
            /\ UNCHANGED <<rows, misled, editing>>
    /\ UNCHANGED <<entryView, rowCount, activeRow, activeField, txnIds, entryLog, confirming,
                   posted, fills, switched, refused>>

(* updateTransaction answers: an id that is still "pending", or of a deleted *)
(* transaction, is unknown to it. Receive brings the log up to date.         *)
ReceiveEditAnswers(c, ok) ==
    /\ posted' = IF ok THEN [posted EXCEPT ![c.row].qty = c.qty] ELSE posted
    /\ entryLog' = IF ok /\ entryLog[c.row] > 0
                   THEN [entryLog EXCEPT ![c.row] = c.qty] ELSE entryLog
SaleEditAnswers(c, ok) ==
    /\ posted' = IF ok THEN [posted EXCEPT ![c.row].qty = c.qty] ELSE posted
    /\ UNCHANGED entryLog

EditAnswers(c, ok) ==
    /\ c.op = "edit"
    /\ ok => c.txn = "known" /\ posted[c.row].live
    /\ calls' = calls \ {c}
    /\ \/ entryView = "receive" /\ ReceiveEditAnswers(c, ok)
       \/ entryView = "sale" /\ SaleEditAnswers(c, ok)
    /\ patchRowValues(c.row, c.qty, c.ref)
    /\ misled' = IF ok THEN misled ELSE misled \cup {c.row}
    /\ editing' = NoEdit
    /\ UNCHANGED <<entryView, rowCount, activeRow, activeField, txnIds, confirming, sent,
                   fills, switched, refused>>
-----------------------------------------------------------------------------
askDelete(r) ==
    /\ DeleteOffered(r) /\ sent < MaxCalls
    /\ confirming' = r
    /\ UNCHANGED <<entryView, rowCount, rows, activeRow, activeField, txnIds, entryLog,
                   editing, calls, posted, sent, fills, switched, refused, misled>>

cancelDelete ==
    /\ confirming # 0
    /\ confirming' = 0
    /\ UNCHANGED <<entryView, rowCount, rows, activeRow, activeField, txnIds, entryLog,
                   editing, calls, posted, sent, fills, switched, refused, misled>>

(* confirmDelete; the button stays live while the deletion is under way.     *)
confirmDelete ==
    /\ confirming # 0 /\ editing.row # confirming /\ sent < MaxCalls
    /\ sent' = sent + 1
    /\ IF txnIds[confirming] = "none"
       THEN confirming' = 0 /\ UNCHANGED calls
       ELSE /\ calls' = calls \cup {[op |-> "delete", row |-> confirming, qty |-> 0, ref |-> FALSE,
                                     product |-> "", txn |-> txnIds[confirming]]}
            /\ UNCHANGED confirming
    /\ UNCHANGED <<entryView, rowCount, rows, activeRow, activeField, txnIds, entryLog,
                   editing, posted, fills, switched, refused, misled>>

\* mutant: a deleted entry stays in the log
ReceiveDeleteKeepsLog(c, ok) ==
    IF ok
    THEN /\ posted' = [posted EXCEPT ![c.row].live = FALSE]
         /\ txnIds' = [txnIds EXCEPT ![c.row] = "none"]
         /\ UNCHANGED entryLog
    ELSE UNCHANGED <<posted, entryLog, txnIds>>
ReceiveDeleteAnswers(c, ok) ==
    IF ok
    THEN /\ posted' = [posted EXCEPT ![c.row].live = FALSE]
         /\ entryLog' = [entryLog EXCEPT ![c.row] = 0]
         /\ txnIds' = [txnIds EXCEPT ![c.row] = "none"]
    ELSE UNCHANGED <<posted, entryLog, txnIds>>
SaleDeleteAnswers(c, ok) == ReceiveDeleteAnswers(c, ok)

DeleteAnswers(c, ok) ==
    /\ c.op = "delete"
    /\ ok => c.txn = "known" /\ posted[c.row].live
    /\ calls' = calls \ {c}
    /\ \/ entryView = "receive" /\ ReceiveDeleteAnswers(c, ok)
       \/ entryView = "sale" /\ SaleDeleteAnswers(c, ok)
    /\ confirming' = 0
    /\ UNCHANGED <<entryView, rowCount, rows, activeRow, activeField, editing, sent, fills,
                   switched, refused, misled>>

(* Another store is chosen: loadAllProducts forgets every transaction id of  *)
(* the grid, the rows stay.                                                  *)
forgetTxnIds ==
    /\ ~switched /\ switched' = TRUE
    /\ txnIds' = [r \in RowIds |-> "none"]
    /\ UNCHANGED <<entryView, rowCount, rows, activeRow, activeField, entryLog, editing,
                   confirming, calls, posted, sent, fills, refused, misled>>
-----------------------------------------------------------------------------
EntryInit ==
    /\ entryView \in {"receive", "sale"}
    /\ rowCount = 1 /\ rows = [r \in RowIds |-> EmptyRow]
    /\ activeRow = 1 /\ activeField = 0
    /\ txnIds = [r \in RowIds |-> "none"] /\ entryLog = [r \in RowIds |-> 0]
    /\ editing = NoEdit /\ confirming = 0
    /\ calls = {} /\ posted = [r \in RowIds |-> NotPosted]
    /\ sent = 0 /\ fills = 0 /\ switched = FALSE
    /\ refused = {} /\ misled = {}

EntryNext ==
    \/ \E r \in RowIds, i \in Fields : handleFieldFocus(r, i)
    \/ \E v \in Cells : handleFieldChange(v)
    \/ handleSearchPanelSelect \/ handleKeyDown \/ clearRow
    \/ \E c \in calls, ok \in BOOLEAN :
          CommitAnswers(c, ok) \/ EditAnswers(c, ok) \/ DeleteAnswers(c, ok)
    \/ \E r \in RowIds : startEditing(r) \/ askDelete(r)
    \/ \E q \in 1 .. 2, f \in BOOLEAN : EditCell(q, f)
    \/ cancelEdit \/ commitEdit \/ cancelDelete \/ confirmDelete \/ forgetTxnIds

EntryTypeOK ==
    /\ entryView \in {"receive", "sale"} /\ rowCount \in RowIds
    /\ rows \in [RowIds -> [product : {"", "unknown", "a", "b"}, qty : 0 .. 2,
                            ref : BOOLEAN, committed : BOOLEAN]]
    /\ activeRow \in RowIds /\ activeField \in Fields
    /\ txnIds \in [RowIds -> {"none", "pending", "known"}]
    /\ entryLog \in [RowIds -> 0 .. 2]
    /\ editing.row \in 0 .. MaxRows /\ confirming \in 0 .. MaxRows
    /\ refused \subseteq RowIds /\ misled \subseteq RowIds

Committing(r) == \E c \in calls : c.op = "commit" /\ c.row = r

(* A row shown as committed has been recorded once its command is answered:  *)
(* a refused command gives the row back ("Rethrow so LinearGridEntry rolls   *)
(* back its optimistic row commit"). The exception the code makes are rows   *)
(* whose values handleCommitRow refuses: it returns without throwing.        *)
CommittedIsRecorded ==
    \A r \in RowIds : (rows[r].committed /\ ~Committing(r) /\ r \notin refused)
                          => posted[r].made > 0

(* No row is recorded twice, whatever is pressed while its command is under  *)
(* way and however often it was given back and committed again.              *)
RecordedOnce == \A r \in RowIds : posted[r].made <= 1

(* A recorded row shows the product and the quantity that are recorded,      *)
(* through edits that overlap and answers in any order; excepted are rows    *)
(* patched after an edit that saved nothing, and rows that received another  *)
(* product from the pane after they were committed.                          *)
ShownIsRecorded ==
    \A r \in RowIds : (posted[r].live /\ r \notin misled)
        => rows[r].qty = posted[r].qty /\ rows[r].product = posted[r].product

(* The rows in the entry log beside the grid.                                *)
ReceiveLog == {r \in RowIds : entryLog[r] > 0}
SaleLog == {r \in RowIds : entryLog[r] > 0}
LogShown == IF entryView = "receive" THEN ReceiveLog ELSE SaleLog

(* The entry log lists exactly the recorded movements of the grid; Receive   *)
(* lists them with their current quantity.                                   *)
LogIsRecorded ==
    \A r \in RowIds : ~Committing(r) =>
        /\ posted[r].live <=> r \in LogShown
        /\ entryView = "receive" /\ posted[r].live => entryLog[r] = posted[r].qty

(* What the grid promises its user: a committed row is a recorded movement,  *)
(* recorded once, and the grid and the entry log show what was recorded.     *)
GridIsRecorded == CommittedIsRecorded /\ RecordedOnce /\ ShownIsRecorded /\ LogIsRecorded
==============================================================================
