------------------------------ MODULE DayBooks ------------------------------
(***************************************************************************)
(* The day books of the desktop (DayBooksView.tsx, balanceSheetUtils.ts):   *)
(* a book per day, built from the local transaction log and anchored at the *)
(* current balance; the server adds the days that only it knows; an entry   *)
(* can be edited or deleted from the open book, which is then rebuilt.      *)
(*                                                                          *)
(* One product: the balances of different products do not meet. A           *)
(* transaction is [n, s, d, q, k]: its number (the order of time within a   *)
(* day), store, day, delta, and kind: "shown" in day books, "hidden" there  *)
(* (a recount, a return), or of another stock "bucket". Reads of the local  *)
(* database do not fail here; the detail cache of localStorage, used when   *)
(* nothing else is there, is left out. Loads that have got equally far      *)
(* count as one.                                                            *)
(***************************************************************************)
EXTENDS Integers, FiniteSets, Sums

CONSTANTS BookStores, MaxDay,
          BookKinds,   \* the kinds of movements, a subset of Kinds
          MaxBookOps   \* bound: movements elsewhere, refreshes, switches, edits, deletions, sheets

ASSUME BookAssumption == /\ IsFiniteSet(BookStores) /\ BookStores # {}
                         /\ BookKinds \subseteq {"shown", "hidden", "bucket"}
                         /\ MaxDay \in Nat \ {0} /\ MaxBookOps \in Nat

VARIABLES
    bkTx,        \* inventory_transactions of the device (external)
    bkAvail,     \* stock_balances of the device, bucket AVAILABLE (external)
    bkSrv,       \* the transactions the server has (external)
    bkMoves,
    bkActive,    \* activeStoreId
    bkLoads,     \* loadDayBooks under way
    bkList,      \* dayBooks
    bkCache,     \* their copy in localStorage, {} if there is none
    bkMem,       \* localDetailMap
    bkSel,       \* selectedDayBook, as a set of at most one
    bkOpening,   \* the server book being opened, as a set of at most one
    bkEdits,     \* edits and deletions under way
    bkLoading,   \* loading
    bkLive,      \* currentBalancesMap of the product, as a set of at most one
    bkReads,     \* reads of it under way
    bkSheet,     \* a sheet is being generated and saved
    bkOps,
    bkFresh,     \* history: nothing has changed since the list was read, and after the edit of a
                 \* server book it has not been replaced by the server's
    bkLiveOld,   \* history: the stock has changed since bkLive was read
    bkCrossed,   \* history: the store was switched while something was under way, or to one
                 \* without books, for which the list of the last store stays
    bkOverlap,   \* history: a deletion began while another edit was under way; a list was shown
                 \* from a log read before one; the day has a local book beside the open one; or
                 \* the server's book was shown as it is after an edit
    bkDeleted,   \* history: the transactions deleted from this screen
    bkBadSheet   \* history: a sheet that disagrees with its book was generated

bookDbVars == <<bkTx, bkAvail, bkSrv, bkMoves>>
bookViewVars == <<bkActive, bkLoads, bkList, bkCache, bkMem, bkSel, bkOpening, bkEdits, bkLoading>>
bookSheetVars == <<bkLive, bkReads, bkSheet, bkBadSheet>>
bookVars == <<bookDbVars, bookViewVars, bookSheetVars, bkOps, bkFresh, bkLiveOld, bkCrossed,
              bkOverlap, bkDeleted>>

Days == 1 .. MaxDay
Foreign == 0          \* the number of a transaction of another device
Kinds == {"shown", "hidden", "bucket"}
SumOf(ts) == SumOver([t \in ts |-> t.q], ts)
-----------------------------------------------------------------------------
(* _buildLocalDayBooks: the log of the store, anchored so that its replay    *)
(* ends at the current balance. Hidden movements count in the balances and   *)
(* are no entries.                                                           *)
\* mutant: the replay starts from nothing
CarryNothing(ts, bal) == 0
CarryOver(ts, bal) == bal - SumOf(ts)
UpTo(ts, d) == {t \in ts : t.d <= d}
OfStore(txs, s) == {t \in txs : t.s = s}
DayBookOf(ts, bal, s, d) ==
    [s |-> s, d |-> d, loc |-> TRUE, o |-> CarryOver(ts, bal) + SumOf(UpTo(ts, d - 1)),
     c |-> CarryOver(ts, bal) + SumOf(UpTo(ts, d))]
EntriesOf(ts, bal, d) ==
    {[n |-> t.n, q |-> t.q,
      r |-> CarryOver(ts, bal) + SumOf(UpTo(ts, d - 1) \cup {u \in ts : u.d = d /\ u.n <= t.n})]
        : t \in {t \in ts : t.d = d /\ t.k # "hidden"}}
DetailOf(ts, bal, s, d) == [book |-> DayBookOf(ts, bal, s, d), es |-> EntriesOf(ts, bal, d), gen |-> FALSE]
DaysOf(ts) == {t.d : t \in ts}
LocalBooks(txs, bal, s) == LET ts == OfStore(txs, s) IN {DayBookOf(ts, bal, s, d) : d \in DaysOf(ts)}
LocalDetails(txs, bal, s) == LET ts == OfStore(txs, s) IN {DetailOf(ts, bal, s, d) : d \in DaysOf(ts)}

(* The books of the server (external): its own days, whatever their numbers. *)
ServerBooks(s) == {[s |-> s, d |-> d, loc |-> FALSE, o |-> 0, c |-> 0] : d \in DaysOf(OfStore(bkSrv, s))}
ServerEntries(b) == {[n |-> t.n, q |-> t.q, r |-> 0] : t \in {t \in OfStore(bkSrv, b.s) : t.d = b.d}}

SameId(a, b) == a.s = b.s /\ a.d = b.d /\ a.loc = b.loc
Remember(ms) == bkMem' = {m \in bkMem : ~\E x \in ms : SameId(x.book, m.book)} \cup ms
Remembered(b) == {m \in bkMem : SameId(m.book, b)}
(* Local books take precedence over the server's of the same date.           *)
Merge(local, others) == local \cup {b \in others : ~\E x \in local : x.d = b.d}
-----------------------------------------------------------------------------
(* Elsewhere a movement of the active store is recorded, or the log is       *)
(* pushed. Stock pulled without a transaction is there from the start.       *)
Elsewhere ==
    UNCHANGED <<bookViewVars, bookSheetVars, bkOps, bkCrossed, bkOverlap, bkDeleted>>
StockChanges == bkFresh' = FALSE /\ bkLiveOld' = TRUE
Movement(s, d, k) ==
    /\ s = bkActive /\ ~bkCrossed /\ bkMoves + bkOps < MaxBookOps /\ bkMoves' = bkMoves + 1
    /\ Elsewhere /\ StockChanges /\ UNCHANGED bkSrv
    /\ bkTx' = bkTx \cup {[n |-> bkMoves + 2, s |-> s, d |-> d, q |-> 1, k |-> k]}
    /\ bkAvail' = IF k = "bucket" THEN bkAvail ELSE [bkAvail EXCEPT ![s] = @ + 1]
LogPushed ==
    /\ ~bkCrossed /\ Elsewhere /\ UNCHANGED <<bkTx, bkAvail, bkMoves, bkFresh, bkLiveOld>>
    /\ bkSrv' = bkTx \cup {t \in bkSrv : t.n = Foreign} /\ bkSrv' # bkSrv
-----------------------------------------------------------------------------
(* loadDayBooks: the log and the balances are read side by side, shown, and  *)
(* then, if the server answers, read again and merged with its days.         *)
LoadOf(s, ph) == [s |-> s, ph |-> ph, got |-> "none", txs |-> {}, bal |-> 0]
(* Bound: nothing is started any more after the crossings of which the       *)
(* properties say nothing.                                                   *)
BookOp == bkMoves + bkOps < MaxBookOps /\ ~bkCrossed /\ ~bkOverlap /\ bkOps' = bkOps + 1
UnderWay == bkLoads # {} \/ bkOpening # {} \/ bkEdits # {} \/ bkSheet

(* The setter of selectedDayBook, with the effect that reads the balances of *)
(* the products of the book.                                                 *)
setSelectedDayBook(sel) ==
    /\ bkSel' = sel
    /\ bkReads' = bkReads \cup {x.book.s : x \in {x \in sel : x.es # {} /\ sel # bkSel}}

loadDayBooks(s) ==
    /\ bkLoads' = bkLoads \cup {LoadOf(s, "local")} /\ bkLoading' = TRUE
LoadReads(l, what) ==
    /\ l.ph = "local" /\ l.got = "none"
    /\ bkLoads' = (bkLoads \ {l}) \cup
                  {IF what = "txs" THEN [l EXCEPT !.got = what, !.txs = bkTx]
                   ELSE [l EXCEPT !.got = what, !.bal = bkAvail[l.s]]}
    /\ UNCHANGED <<bookDbVars, bkActive, bkList, bkCache, bkMem, bkSel, bkOpening, bkEdits, bkLoading,
                   bookSheetVars, bkOps, bkFresh, bkLiveOld, bkCrossed, bkOverlap, bkDeleted>>
ShowBooks(s, txs, bal, books) ==
    /\ bkList' = books /\ bkCache' = [bkCache EXCEPT ![s] = books]
    /\ Remember(LocalDetails(txs, bal, s))
    /\ bkFresh' = (txs = bkTx /\ bal = bkAvail[s])
(* The second of the two reads answers.                                      *)
LoadShows(l) ==
    /\ l.ph = "local" /\ l.got # "none"
    /\ LET txs == IF l.got = "txs" THEN l.txs ELSE bkTx
           bal == IF l.got = "bal" THEN l.bal ELSE bkAvail[l.s]
           books == LocalBooks(txs, bal, l.s)
       IN  /\ IF books # {} THEN ShowBooks(l.s, txs, bal, books) /\ bkLoading' = FALSE
              ELSE /\ bkList' = IF bkCache[l.s] # {} THEN bkCache[l.s] ELSE bkList
                   /\ bkFresh' = FALSE /\ UNCHANGED <<bkCache, bkMem, bkLoading>>
           /\ bkCrossed' = (bkCrossed \/ (books = {} /\ \E b \in bkList' : b.s # l.s))
           /\ bkOverlap' = (bkOverlap \/ \E t \in txs : t.n \in bkDeleted)
    /\ bkLoads' = (bkLoads \ {l}) \cup {LoadOf(l.s, "server")}
    /\ UNCHANGED <<bookDbVars, bkActive, bkSel, bkOpening, bkEdits, bookSheetVars, bkOps, bkLiveOld,
                   bkDeleted>>
(* The server fails, or answers and its days are merged with a second, now   *)
(* undisturbed, reading of the log.                                          *)
ServerAnswers(l, ok) ==
    /\ l.ph = "server" /\ bkLoads' = bkLoads \ {l} /\ bkLoading' = FALSE
    /\ IF ok THEN LET bal == bkAvail[l.s] IN
                  ShowBooks(l.s, bkTx, bal, Merge(LocalBooks(bkTx, bal, l.s), ServerBooks(l.s)))
       ELSE UNCHANGED <<bkList, bkCache, bkMem, bkFresh>>
    /\ UNCHANGED <<bookDbVars, bkActive, bkSel, bkOpening, bkEdits, bookSheetVars, bkOps, bkLiveOld,
                   bkCrossed, bkOverlap, bkDeleted>>

RefreshBooks ==
    /\ BookOp /\ ~bkLoading /\ loadDayBooks(bkActive)
    /\ UNCHANGED <<bookDbVars, bkActive, bkList, bkCache, bkMem, bkSel, bkOpening, bkEdits,
                   bookSheetVars, bkFresh, bkLiveOld, bkCrossed, bkOverlap, bkDeleted>>
(* The active store changes: the effect and the event both start a load.     *)
\* mutant: the open book stays open
KeepOpen == bkSel
Deselected == {}
BookStoreSwitch(s) ==
    /\ BookOp /\ s # bkActive /\ bkActive' = s
    /\ bkCache' = [bkCache EXCEPT ![s] = {}]
    /\ setSelectedDayBook(Deselected) /\ loadDayBooks(s)
    /\ bkCrossed' = (bkCrossed \/ UnderWay)
    /\ bkFresh' = FALSE
    /\ UNCHANGED <<bookDbVars, bkList, bkMem, bkOpening, bkEdits, bkLive, bkSheet, bkBadSheet,
                   bkLiveOld, bkOverlap, bkDeleted>>
-----------------------------------------------------------------------------
(* loadDayBookDetail: a local book from memory, or rebuilt; a server book    *)
(* from the server, without what is not in the local log.                    *)
BookOffered(b) == b \in bkList /\ bkSel = {} /\ ~bkLoading
loadDayBookDetail(b) ==
    /\ BookOffered(b)
    /\ IF b.loc
       THEN /\ LET found == IF Remembered(b) # {} THEN Remembered(b)
                            ELSE {m \in LocalDetails(bkTx, bkAvail[b.s], b.s) : m.book.d = b.d}
               IN  Remember(found) /\ setSelectedDayBook(found)
            /\ UNCHANGED <<bkOpening, bkLoading>>
       ELSE bkOpening' = {b} /\ bkLoading' = TRUE /\ UNCHANGED <<bkMem, bkSel, bkReads>>
    /\ UNCHANGED <<bookDbVars, bkActive, bkLoads, bkList, bkCache, bkEdits, bkLive, bkSheet,
                   bkBadSheet, bkOps, bkFresh, bkLiveOld, bkCrossed, bkOverlap, bkDeleted>>
\* mutant: the server's entries are shown as they are
ReconcileNothing(es) == es
Reconciled(es) == {e \in es : \E t \in bkTx : t.n = e.n}
DetailAnswers(b, ok) ==
    /\ b \in bkOpening /\ bkOpening' = {} /\ bkLoading' = FALSE
    /\ IF ok THEN setSelectedDayBook({[book |-> b, es |-> Reconciled(ServerEntries(b)), gen |-> FALSE]})
       ELSE IF Remembered(b) # {} THEN setSelectedDayBook(Remembered(b))
       ELSE UNCHANGED <<bkSel, bkReads>>
    /\ UNCHANGED <<bookDbVars, bkActive, bkLoads, bkList, bkCache, bkMem, bkEdits, bkLive, bkSheet,
                   bkBadSheet, bkOps, bkFresh, bkLiveOld, bkCrossed, bkOverlap, bkDeleted>>
BackToList ==
    /\ bkSel # {} /\ ~bkLoading /\ setSelectedDayBook({})
    /\ UNCHANGED <<bookDbVars, bkActive, bkLoads, bkList, bkCache, bkMem, bkOpening, bkEdits, bkLoading,
                   bkLive, bkSheet, bkBadSheet, bkOps, bkFresh, bkLiveOld, bkCrossed, bkOverlap, bkDeleted>>
-----------------------------------------------------------------------------
(* The actions of an entry: opening its editor or the question whether to    *)
(* delete it, and confirming, is one step. The handler keeps the book that   *)
(* was open when it was clicked. Saving hides the buttons, deleting does not *)
(* (isDeletingEntry is never set).                                           *)
EntryOffered(x, e) == x \in bkSel /\ e \in x.es
EditOf(kind, x, e) == [kind |-> kind, n |-> e.n, sel |-> x, ph |-> "command"]
StartEdit(o) ==
    /\ BookOp /\ o \notin bkEdits /\ bkEdits' = bkEdits \cup {o}
    /\ UNCHANGED <<bookDbVars, bkActive, bkLoads, bkList, bkCache, bkMem, bkSel, bkOpening, bkLoading,
                   bookSheetVars, bkFresh, bkLiveOld, bkCrossed, bkDeleted>>
SaveOffered(x, e) == EntryOffered(x, e) /\ ~\E o \in bkEdits : o.kind = "edit"
DeleteEntryOffered(x, e) == EntryOffered(x, e)
handleSaveEntryEdit(x, e) ==
    /\ SaveOffered(x, e) /\ StartEdit(EditOf("edit", x, e)) /\ UNCHANGED bkOverlap
handleDeleteEntry(x, e) ==
    /\ DeleteEntryOffered(x, e) /\ StartEdit(EditOf("delete", x, e))
    /\ bkOverlap' = (bkOverlap \/ bkEdits # {})

(* The command changes log and balance, or refuses (also a transaction that  *)
(* is not there). A deletion is shown at once.                               *)
InOtherBook(o) == \E m \in bkMem : ~SameId(m.book, o.sel.book) /\ \E e \in m.es : e.n = o.n
EditRuns(o, ok) ==
    /\ o.ph = "command"
    /\ LET ts == {t \in bkTx : t.n = o.n} IN
       IF ok /\ ts # {} THEN
          /\ \E t \in ts :
                /\ bkTx' = (bkTx \ {t}) \cup (IF o.kind = "edit" THEN {[t EXCEPT !.q = -@]} ELSE {})
                /\ bkAvail' = IF t.k = "bucket" THEN bkAvail
                              ELSE [bkAvail EXCEPT ![t.s] = @ - (IF o.kind = "edit" THEN 2 * t.q ELSE t.q)]
          /\ IF o.kind = "delete"
             THEN LET x == [o.sel EXCEPT !.es = {e \in @ : e.n # o.n}] IN
                  /\ Remember({x}) /\ setSelectedDayBook({x}) /\ bkDeleted' = bkDeleted \cup {o.n}
                  /\ bkOverlap' = (bkOverlap \/ InOtherBook(o))
             ELSE UNCHANGED <<bkMem, bkSel, bkReads, bkDeleted, bkOverlap>>
          /\ StockChanges
          /\ bkEdits' = (bkEdits \ {o}) \cup {[o EXCEPT !.ph = "rebuild"]}
       ELSE /\ bkEdits' = bkEdits \ {o}
            /\ UNCHANGED <<bkTx, bkAvail, bkMem, bkSel, bkReads, bkDeleted, bkOverlap, bkFresh, bkLiveOld>>
    /\ UNCHANGED <<bkSrv, bkMoves, bkActive, bkLoads, bkList, bkCache, bkOpening, bkLoading, bkLive,
                   bkSheet, bkBadSheet, bkOps, bkCrossed>>

(* refreshDetailAfterMutation: the books are rebuilt from the log; of the    *)
(* details only the one that is open. The book of a server is fetched again, *)
(* and with it the server's list.                                            *)
RebuildDetail(o) ==
    LET b == o.sel.book
        rebuilt == IF b.loc THEN {m \in LocalDetails(bkTx, bkAvail[b.s], b.s) : m.book.d = b.d} ELSE {}
    IN  IF rebuilt # {} THEN Remember(rebuilt) /\ setSelectedDayBook(rebuilt)
        ELSE UNCHANGED <<bkMem, bkSel, bkReads>>
refreshDetailAfterMutation(o) ==
    /\ o.ph = "rebuild"
    /\ LET s == o.sel.book.s
           books == LocalBooks(bkTx, bkAvail[s], s)
       IN  /\ bkList' = IF books # {} THEN Merge(books, bkList) ELSE bkList
           /\ bkCache' = [bkCache EXCEPT ![s] = {}]
    /\ RebuildDetail(o)
    /\ bkEdits' = (bkEdits \ {o}) \cup IF o.sel.book.loc THEN {} ELSE {[o EXCEPT !.ph = "server"]}
    /\ UNCHANGED <<bookDbVars, bkActive, bkLoads, bkOpening, bkLoading, bkLive, bkSheet, bkBadSheet,
                   bkOps, bkFresh, bkLiveOld, bkCrossed, bkOverlap, bkDeleted>>
RefreshFromServer(o, ok) ==
    /\ o.ph = "server" /\ bkEdits' = bkEdits \ {o}
    /\ LET b == o.sel.book IN
       IF ok THEN /\ setSelectedDayBook(IF Remembered(b) # {} THEN Remembered(b)
                         ELSE {[book |-> b, es |-> ServerEntries(b), gen |-> FALSE]})
                  /\ bkList' = ServerBooks(b.s) /\ bkCache' = [bkCache EXCEPT ![b.s] = ServerBooks(b.s)]
                  /\ bkFresh' = FALSE
                  /\ bkOverlap' = (\/ bkOverlap
                                   \/ Remembered(b) = {} /\ \E e \in ServerEntries(b) : e.n \in bkDeleted)
       ELSE UNCHANGED <<bkSel, bkReads, bkList, bkCache, bkFresh, bkOverlap>>
    /\ UNCHANGED <<bookDbVars, bkActive, bkLoads, bkMem, bkOpening, bkLoading, bkLive, bkSheet,
                   bkBadSheet, bkOps, bkLiveOld, bkCrossed, bkDeleted>>
-----------------------------------------------------------------------------
(* The balance sheet of the open book: it closes at the live balance.        *)
BalanceRead(s) ==
    /\ s \in bkReads /\ bkReads' = bkReads \ {s}
    /\ bkLive' = {bkAvail[s]} /\ bkLiveOld' = (bkReads' # {} \/ \E x \in bkSel : x.book.s # s)
    /\ UNCHANGED <<bookDbVars, bookViewVars, bkSheet, bkBadSheet, bkOps, bkFresh, bkCrossed, bkOverlap,
                   bkDeleted>>
\* mutant: the sheet closes at what its entries add up to
SheetClosingOfEntries(x) == SumOf(x.es)
SheetClosing(x) == IF bkLive # {} THEN CHOOSE live \in bkLive : TRUE ELSE SumOf(x.es)
LastDay(x) == \A t \in OfStore(bkTx, x.book.s) : t.d <= x.book.d
UpToDate(x) == x.book \in LocalBooks(bkTx, bkAvail[x.book.s], x.book.s)
SheetOffered(x) == x \in bkSel /\ x.es # {} /\ ~bkLoading
generateBalanceSheet(x) ==
    /\ SheetOffered(x) /\ BookOp
    /\ bkSheet' = TRUE /\ bkLoading' = TRUE
    /\ bkBadSheet' = (bkBadSheet \/ (/\ bkReads = {} /\ ~bkLiveOld /\ ~bkCrossed
                                     /\ LastDay(x) /\ UpToDate(x)
                                     /\ SheetClosing(x) # x.book.c))
    /\ UNCHANGED <<bookDbVars, bkActive, bkLoads, bkList, bkCache, bkMem, bkSel, bkOpening, bkEdits,
                   bkLive, bkReads, bkFresh, bkLiveOld, bkCrossed, bkOverlap, bkDeleted>>
(* The file is saved, or the user cancels; the book that is open now is      *)
(* marked.                                                                   *)
saveOrDownloadPdf(saved) ==
    /\ bkSheet /\ bkSheet' = FALSE /\ bkLoading' = FALSE
    /\ IF saved THEN setSelectedDayBook({[x EXCEPT !.gen = TRUE] : x \in bkSel})
       ELSE UNCHANGED <<bkSel, bkReads>>
    /\ UNCHANGED <<bookDbVars, bkActive, bkLoads, bkList, bkCache, bkMem, bkOpening, bkEdits, bkLive,
                   bkBadSheet, bkOps, bkFresh, bkLiveOld, bkCrossed, bkOverlap, bkDeleted>>
-----------------------------------------------------------------------------
(* Another device sold in the active store on the first day; on this one     *)
(* nothing has been recorded, or a movement of the first day.                *)
BookInit ==
    /\ bkActive \in BookStores
    /\ bkTx \in {{}} \cup {{[n |-> 1, s |-> bkActive, d |-> 1, q |-> 1, k |-> k]} : k \in BookKinds}
    /\ bkAvail = [s \in BookStores |-> 1] /\ bkMoves = 0
    /\ bkSrv = {[n |-> Foreign, s |-> bkActive, d |-> 1, q |-> 1, k |-> "shown"]}
    /\ bkLoads = {LoadOf(bkActive, "local")} /\ bkLoading = TRUE
    /\ bkList = {} /\ bkCache = [s \in BookStores |-> {}] /\ bkMem = {} /\ bkSel = {}
    /\ bkOpening = {} /\ bkEdits = {}
    /\ bkLive = {} /\ bkReads = {} /\ bkSheet = FALSE /\ bkBadSheet = FALSE
    /\ bkOps = 0 /\ bkFresh = FALSE /\ bkLiveOld = FALSE /\ bkCrossed = FALSE /\ bkOverlap = FALSE
    /\ bkDeleted = {}

BookNext ==
    \/ \E s \in BookStores, d \in Days, k \in BookKinds : Movement(s, d, k)
    \/ \E s \in BookStores : BookStoreSwitch(s) \/ BalanceRead(s)
    \/ LogPushed \/ RefreshBooks \/ BackToList
    \/ \E l \in bkLoads : \/ \E what \in {"txs", "bal"} : LoadReads(l, what)
                          \/ LoadShows(l) \/ \E ok \in BOOLEAN : ServerAnswers(l, ok)
    \/ \E b \in bkList : loadDayBookDetail(b)
    \/ \E b \in bkOpening, ok \in BOOLEAN : DetailAnswers(b, ok)
    \/ \E x \in bkSel : \/ \E e \in x.es : handleSaveEntryEdit(x, e) \/ handleDeleteEntry(x, e)
                        \/ generateBalanceSheet(x)
    \/ \E o \in bkEdits : \/ refreshDetailAfterMutation(o)
                          \/ \E ok \in BOOLEAN : EditRuns(o, ok) \/ RefreshFromServer(o, ok)
    \/ \E saved \in BOOLEAN : saveOrDownloadPdf(saved)

BookTypeOK ==
    /\ bkActive \in BookStores /\ Cardinality(bkSel) <= 1 /\ Cardinality(bkOpening) <= 1
    /\ \A b \in bkList : b.s \in BookStores /\ b.d \in Days
    /\ \A t \in bkTx : t.s \in BookStores /\ t.k \in Kinds /\ t.q \in {1, -1}
    /\ bkReads \subseteq BookStores /\ bkLoading \in BOOLEAN

(* A list read from one state of the database is right: every book closes at *)
(* the current balance less what was moved after its day, and opens where    *)
(* the book before it closed. Movements of another bucket are in the log but *)
(* not in the balance the replay is anchored at, and falsify it.             *)
ClosingOf(s, d) == bkAvail[s] - SumOf({t \in OfStore(bkTx, s) : t.d > d})
BooksAddUp ==
    bkFresh /\ ~bkCrossed /\ (\A t \in bkTx : t.k # "bucket") =>
        /\ DaysOf(OfStore(bkTx, bkActive)) = {b.d : b \in {b \in bkList : b.loc}}
        /\ \A b \in bkList : b.loc => b.c = ClosingOf(bkActive, b.d) /\ b.o = ClosingOf(bkActive, b.d - 1)

(* "entries deleted locally [...] never reappear in the detail view": at     *)
(* rest no entry deleted from this screen is shown, whatever the server      *)
(* still has; unless two edits of one book overlapped, a list that had read  *)
(* the log before the deletion was shown after it, the entry was deleted     *)
(* from the server's book of a day that has got a local one since, or        *)
(* another entry of a server's book that is not in memory was edited, after  *)
(* which the server's entries are shown unreconciled.                        *)
DeletedStaysGone ==
    bkEdits = {} /\ ~bkOverlap => \A x \in bkSel : \A e \in x.es : e.n \notin bkDeleted

(* The open book is of the active store, unless the store was switched while *)
(* a load, an edit or a sheet was under way (their answers are not guarded), *)
(* or has no books of its own while the server does not answer.              *)
OpenBookIsOfStore == ~bkCrossed => \A x \in bkSel : x.book.s = bkActive

(* The sheet of the store's last day closes where its day book does, if the  *)
(* book is up to date and the live balance has been read since the last      *)
(* change (of an earlier day it closes at today's balance).                  *)
SheetAgreesWithBook == ~bkBadSheet

(* What the day-book screen promises: the balances of consecutive books add  *)
(* up, what was deleted stays away, the open book is one of the active store *)
(* and its sheet agrees with it.                                             *)
BooksAreTrue == BooksAddUp /\ DeletedStaysGone /\ OpenBookIsOfStore /\ SheetAgreesWithBook
=============================================================================
