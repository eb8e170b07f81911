---------------------------- MODULE BalanceForms ----------------------------
(***************************************************************************)
(* The forms that work from a balance they read: the physical count, the    *)
(* return and the damage form, with the in-memory balance cache of          *)
(* tauriTransactionService between them and the database. One store and one *)
(* product. A command changes the database when it runs and the cache is    *)
(* cleared when its answer arrives. A cached quantity is modelled like a    *)
(* read whose answer is known when it is asked for.                         *)
(***************************************************************************)
EXTENDS Integers, FiniteSets

CONSTANTS MaxQty,      \* bound: quantity in a bucket
          CountLines,  \* lines of the count grid
          MaxOthers,   \* bound: movements made on other screens
          MaxPicks,    \* bound: buckets chosen in a form
          MaxSubmits   \* bound: submissions of a form

ASSUME BalanceAssumption ==
    /\ MaxQty \in Nat \ {0} /\ MaxOthers \in Nat /\ MaxPicks \in Nat /\ MaxSubmits \in Nat
    /\ IsFiniteSet(CountLines)
    /\ CountLines \cap {"from", "to", "list", "prime"} = {}   \* the other readers of a balance

VARIABLES
    balanceView,   \* the view that is mounted
    stockHeld,     \* stock_balances, per bucket
    balanceCache,  \* _stockBalanceCache, per bucket
    reads,         \* balance reads under way: [who, bucket, qty, hit, late, next, ends]
    countLine,     \* per line: [phase, counted, sys]
    countEntries,  \* the lines on the count sheet
    viewQty,       \* storeQtyCache of the count view
    chosen,        \* the buckets chosen: slots "from" and "to" (Return uses "from")
    shownQty,      \* per slot, [bucket, qty] on display, or NoQty
    submit,        \* handleSubmit: "idle", "ran", "refused" or "reload"
    submitFor,     \* the buckets handleSubmit was called with
    sessionUser,   \* sessionUserId: "" until loadSession ends
    otherCmd,      \* a command of another screen: "idle" or "ran"
    others, picks, submits,
    suspect,       \* history: buckets whose entry outlived a change of the balance
    confused,      \* history: slots for which two reads were under way at once
    applied,       \* history: per line, what its adjustment added
    anonymous      \* history: a movement was recorded without a user

balanceVars == <<balanceView, stockHeld, balanceCache, reads, countLine, countEntries, viewQty,
                 chosen, shownQty, submit, submitFor, sessionUser, otherCmd, others, picks, submits,
                 suspect, confused, applied, anonymous>>
dbVars == <<stockHeld, balanceCache, suspect>>
countVars == <<countLine, countEntries, viewQty, applied>>
formVars == <<chosen, shownQty, submit, submitFor, confused, picks, submits>>

Buckets == {"AVAILABLE", "DAMAGED"}
Slots == {"from", "to"}
NoQty == [bucket |-> "none", qty |-> 0]
Absent == -1
Quantities == 0 .. MaxQty
-----------------------------------------------------------------------------
(* The cache.                                                                *)
\* mutant: a mutation that keeps the cache
keepBalanceCache == UNCHANGED <<balanceCache, suspect>>
invalidateStockBalanceCache ==
    /\ balanceCache' = [b \in Buckets |-> Absent]
    /\ suspect' = {}
_readBalanceCache(b) == balanceCache[b]
_writeBalanceCache(b, q) == balanceCache' = [balanceCache EXCEPT ![b] = q]

(* The 30 seconds of an entry are over.                                      *)
EntryExpires(b) ==
    /\ balanceCache[b] # Absent
    /\ balanceCache' = [balanceCache EXCEPT ![b] = Absent]
    /\ suspect' = suspect \ {b}
    /\ UNCHANGED <<balanceView, stockHeld, reads, sessionUser, otherCmd, others, anonymous,
                   countVars, formVars>>

(* getStockBalance and getStockBalanceForBucket: from the cache, or asked of *)
(* the database.                                                             *)
getStockBalanceForBucket(who, b, next, ends) ==
    [who |-> who, bucket |-> b, qty |-> _readBalanceCache(b),
     hit |-> _readBalanceCache(b) # Absent, late |-> FALSE, next |-> next, ends |-> ends]
getStockBalance(who) == getStockBalanceForBucket(who, "AVAILABLE", "none", FALSE)

ReadRuns(r) ==
    /\ r.qty = Absent
    /\ reads' = (reads \ {r}) \cup {[r EXCEPT !.qty = stockHeld[r.bucket]]}
    /\ UNCHANGED <<balanceView, sessionUser, otherCmd, others, anonymous, dbVars, countVars,
                   formVars>>

(* What a changed balance does to the reads that have run already.           *)
Overtaken(bs) ==
    {IF r.bucket \in bs /\ r.qty # Absent THEN [r EXCEPT !.late = TRUE] ELSE r : r \in reads}

(* The answer of a read goes into the cache.                                 *)
CacheAnswer(r) ==
    IF r.hit THEN UNCHANGED <<balanceCache, suspect>>
    ELSE /\ _writeBalanceCache(r.bucket, r.qty)
         /\ suspect' = IF r.late THEN suspect \cup {r.bucket} ELSE suspect \ {r.bucket}
-----------------------------------------------------------------------------
(* A command changes the balances, or is refused when one would be negative. *)
Possible(d) == \A b \in Buckets : stockHeld[b] + d[b] \in Quantities
Changed(d) == {b \in Buckets : d[b] # 0}
Delta(b, n) == [x \in Buckets |-> IF x = b THEN n ELSE 0]
RunCommand(d) ==
    /\ Possible(d)
    /\ stockHeld' = [b \in Buckets |-> stockHeld[b] + d[b]]
    /\ reads' = Overtaken(Changed(d))

(* loadSession: the id of the user, or of the local one.                     *)
loadSession ==
    /\ sessionUser = "" /\ sessionUser' = "user"
    /\ UNCHANGED <<balanceView, reads, otherCmd, others, anonymous, dbVars, countVars, formVars>>
ReturnLoadSession == balanceView = "return" /\ loadSession
DamageLoadSession == balanceView = "damage" /\ loadSession
CountLoadSession == balanceView = "count" /\ loadSession

\* mutant: the id as it is
AttributedRaw == sessionUser
Attributed == IF sessionUser = "" THEN "USER-LOCAL" ELSE sessionUser

(* Commands of the other screens, and a pull: they clear the cache when they *)
(* are answered.                                                             *)
OtherRuns(n) ==
    /\ otherCmd = "idle" /\ others < MaxOthers
    /\ RunCommand(Delta("AVAILABLE", n))
    /\ otherCmd' = "ran" /\ others' = others + 1
    /\ UNCHANGED <<balanceView, balanceCache, suspect, sessionUser, anonymous, countVars, formVars>>
receiveStock == OtherRuns(1)
sellStock == OtherRuns(-1)
updateTransaction == OtherRuns(1) \/ OtherRuns(-1)
deleteTransaction == OtherRuns(1) \/ OtherRuns(-1)

OtherAnswers ==
    /\ otherCmd = "ran" /\ otherCmd' = "idle"
    /\ invalidateStockBalanceCache
    /\ UNCHANGED <<balanceView, stockHeld, reads, sessionUser, others, anonymous, countVars,
                   formVars>>

(* The commands of tauriTransferService leave the cache alone.               *)
TransferRuns(n) ==
    /\ others < MaxOthers /\ others' = others + 1
    /\ RunCommand(Delta("AVAILABLE", n))
    /\ suspect' = IF balanceCache["AVAILABLE"] # Absent THEN suspect \cup {"AVAILABLE"} ELSE suspect
    /\ UNCHANGED <<balanceView, balanceCache, sessionUser, otherCmd, anonymous, countVars, formVars>>
dispatchTransfer == TransferRuns(-1)
receiveTransfer == TransferRuns(1)
cancelTransfer == TransferRuns(1)

(* The search over every view and the day books read all balances of the     *)
(* store from the database, and the cache is primed with them.               *)
getStockBalancesForStore ==
    /\ others < MaxOthers /\ others' = others + 1
    /\ reads' = reads \cup {[who |-> "prime", bucket |-> "AVAILABLE", qty |-> Absent, hit |-> FALSE,
                             late |-> FALSE, next |-> "none", ends |-> FALSE]}
    /\ UNCHANGED <<balanceView, sessionUser, otherCmd, anonymous, dbVars, countVars, formVars>>
Primed(r) ==
    /\ r.who = "prime" /\ r.qty # Absent
    /\ reads' = reads \ {r} /\ CacheAnswer(r)
    /\ UNCHANGED <<balanceView, stockHeld, sessionUser, otherCmd, others, anonymous, countVars,
                   formVars>>
-----------------------------------------------------------------------------
(* The count view loads the balances of its list when it opens; a balance it *)
(* cannot read is shown as 0.                                                *)
CountListLoaded(r, ok) ==
    /\ r.who = "list" /\ r.qty # Absent
    /\ viewQty' = IF ok THEN r.qty ELSE 0
    /\ reads' = reads \ {r}
    /\ IF ok THEN CacheAnswer(r) ELSE UNCHANGED <<balanceCache, suspect>>
    /\ UNCHANGED <<balanceView, stockHeld, countLine, countEntries, applied, sessionUser,
                   otherCmd, others, anonymous, formVars>>

(* The count: the system quantity is read when the line is committed, the    *)
(* variance is sent as an adjustment.                                        *)
handleCountCommit(l, n) ==
    /\ balanceView = "count" /\ countLine[l].phase = "open" /\ viewQty # Absent
    /\ countLine' = [countLine EXCEPT ![l].phase = "reading", ![l].counted = n]
    /\ reads' = reads \cup {getStockBalance(l)}
    /\ UNCHANGED <<balanceView, sessionUser, otherCmd, others, anonymous, dbVars, countEntries,
                   viewQty, applied, formVars>>

(* The balance is there; should the read fail, the quantity of the list is   *)
(* used. A line without a variance goes straight to the sheet.               *)
CountRead(r, ok) ==
    /\ r.who \in CountLines /\ r.qty # Absent
    /\ reads' = reads \ {r}
    /\ LET sys == IF ok THEN r.qty ELSE viewQty
           even == sys = countLine[r.who].counted
       IN  /\ countLine' = [countLine EXCEPT ![r.who].sys = sys,
                                            ![r.who].phase = IF even THEN "done" ELSE "sent"]
           /\ countEntries' = IF even THEN countEntries \cup {r.who} ELSE countEntries
    /\ IF ok THEN CacheAnswer(r) ELSE UNCHANGED <<balanceCache, suspect>>
    /\ UNCHANGED <<balanceView, stockHeld, viewQty, applied, sessionUser, otherCmd, others,
                   anonymous, formVars>>

variance(l) == countLine[l].counted - countLine[l].sys
AdjustRuns(l) ==
    /\ countLine[l].phase = "sent"
    /\ \/ /\ RunCommand(Delta("AVAILABLE", variance(l)))
          /\ countLine' = [countLine EXCEPT ![l].phase = "ran"]
          /\ applied' = [applied EXCEPT ![l] = variance(l)]
          /\ anonymous' = (anonymous \/ Attributed = "")
       \/ /\ countLine' = [countLine EXCEPT ![l].phase = "refused"]
          /\ UNCHANGED <<stockHeld, reads, applied, anonymous>>
    /\ UNCHANGED <<balanceView, balanceCache, suspect, sessionUser, otherCmd, others,
                   countEntries, viewQty, formVars>>

(* adjustStock answers: the list shows the counted quantity and the line     *)
(* joins the sheet; an error is shown and the line does not.                 *)
adjustStock(l) ==
    /\ \/ countLine[l].phase = "ran" /\ invalidateStockBalanceCache
                                     /\ viewQty' = countLine[l].counted
       \/ countLine[l].phase = "refused" /\ UNCHANGED <<balanceCache, suspect, viewQty>>
    /\ countLine' = [countLine EXCEPT ![l].phase = IF @ = "ran" THEN "done" ELSE "failed"]
    /\ UNCHANGED <<balanceView, stockHeld, reads, applied, sessionUser, otherCmd, others,
                   anonymous, formVars>>
\* mutant: the line joins the sheet whatever the answer
CountAnswersAlways(l) == adjustStock(l) /\ countEntries' = countEntries \cup {l}
CountAnswers(l) ==
    /\ adjustStock(l)
    /\ countEntries' = IF countLine[l].phase = "ran" THEN countEntries \cup {l} ELSE countEntries

(* The sheet below the grid: a line can be removed, or all of them; the      *)
(* adjustments stay.                                                         *)
VoidOffered(l) == l \in countEntries
ResetOffered == countEntries # {}
handleVoidCount(l) ==
    /\ VoidOffered(l) /\ countEntries' = countEntries \ {l}
    /\ UNCHANGED <<balanceView, reads, sessionUser, otherCmd, others, anonymous, dbVars,
                   countLine, viewQty, applied, formVars>>
handleReset ==
    /\ ResetOffered /\ countEntries' = {}
    /\ UNCHANGED <<balanceView, reads, sessionUser, otherCmd, others, anonymous, dbVars,
                   countLine, viewQty, applied, formVars>>
-----------------------------------------------------------------------------
(* The return form shows the balance of one bucket, the damage form those of *)
(* the source and then the destination.                                      *)
SlotsOf(v) == IF v = "return" THEN {"from"} ELSE Slots
Loading(s) == {r \in reads : r.who = s \/ (s = "to" /\ r.next # "none")}

loadBucketQuantity(b, ends) == {getStockBalanceForBucket("from", b, "none", ends)}
loadBucketBalances(b, to, ends) == {getStockBalanceForBucket("from", b, to, ends)}
StartLoad(c, ends) ==
    IF balanceView = "return" THEN loadBucketQuantity(c["from"], ends)
    ELSE loadBucketBalances(c["from"], c["to"], ends)

\* mutant: the effect does not depend on the bucket
ReloadNever(c) == {}
ReloadOnChoice(c) == StartLoad(c, FALSE)

(* A bucket is chosen; the damage form is closed while it submits.           *)
ReturnBucketOffered == balanceView = "return"
DamageBucketOffered == balanceView = "damage" /\ submit = "idle"
ChooseBucket(s, b) ==
    /\ ReturnBucketOffered \/ DamageBucketOffered
    /\ s \in SlotsOf(balanceView) /\ chosen[s] # b /\ picks < MaxPicks
    /\ chosen' = [chosen EXCEPT ![s] = b] /\ picks' = picks + 1
    /\ reads' = reads \cup ReloadOnChoice(chosen')
    /\ confused' = (confused \/ Loading("from") \cup Loading("to") # {} \/ submit # "idle")
    /\ UNCHANGED <<balanceView, shownQty, submit, submitFor, submits, sessionUser, otherCmd, others,
                   anonymous, dbVars, countVars>>

(* A balance arrives, or null when it cannot be read.                        *)
ThenLoad(r) ==
    IF r.next = "none" THEN reads \ {r}
    ELSE (reads \ {r}) \cup {getStockBalanceForBucket("to", r.next, "none", r.ends)}
ShowBalance(r, ok) ==
    /\ r.who \in Slots /\ r.qty # Absent
    /\ shownQty' = [shownQty EXCEPT ![r.who] =
                       IF ok THEN [bucket |-> r.bucket, qty |-> r.qty] ELSE NoQty]
    /\ reads' = ThenLoad(r)
    /\ submit' = IF r.ends /\ r.next = "none" THEN "idle" ELSE submit
    /\ IF ok THEN CacheAnswer(r) ELSE UNCHANGED <<balanceCache, suspect>>
    /\ UNCHANGED <<balanceView, stockHeld, chosen, submitFor, confused, picks, submits,
                   sessionUser, otherCmd, others, anonymous, countVars>>

ReturnDelta(out) == Delta(chosen["from"], IF out THEN -1 ELSE 1)
DamageDelta == [b \in Buckets |-> IF b = chosen["from"] THEN -1 ELSE 1]
handleReturnSubmit(out) ==
    /\ balanceView = "return" /\ RunCommand(ReturnDelta(out))
handleDamageSubmit ==
    /\ balanceView = "damage" /\ chosen["from"] # chosen["to"] /\ RunCommand(DamageDelta)

(* handleSubmit: the command runs or is refused; the submit button is        *)
(* disabled until the balances have been loaded again.                       *)
SubmitRuns ==
    /\ submit = "idle" /\ submits < MaxSubmits /\ submits' = submits + 1
    /\ submitFor' = chosen
    /\ \/ /\ (\E out \in BOOLEAN : handleReturnSubmit(out)) \/ handleDamageSubmit
          /\ submit' = "ran" /\ anonymous' = (anonymous \/ Attributed = "")
       \/ /\ balanceView # "count" /\ submit' = "refused"
          /\ UNCHANGED <<stockHeld, reads, anonymous>>
    /\ UNCHANGED <<balanceView, balanceCache, suspect, chosen, shownQty, confused, picks,
                   sessionUser, otherCmd, others, countVars>>

(* returnStock and moveStockBucket answer; handleSubmit loads the balances   *)
(* of the buckets it was submitted with.                                     *)
ReloadAfter ==
    /\ submit' = "reload" /\ reads' = reads \cup StartLoad(submitFor, TRUE)
    /\ confused' = (confused \/ Loading("from") \cup Loading("to") # {})
returnStock == balanceView = "return" /\ submit = "ran" /\ invalidateStockBalanceCache
moveStockBucket == balanceView = "damage" /\ submit = "ran" /\ invalidateStockBalanceCache
SubmitAnswers ==
    /\ \/ /\ returnStock \/ moveStockBucket
          /\ ReloadAfter
       \/ /\ submit = "refused" /\ submit' = "idle"
          /\ UNCHANGED <<balanceCache, suspect, reads, confused>>
    /\ UNCHANGED <<balanceView, stockHeld, chosen, shownQty, submitFor, picks, submits,
                   sessionUser, otherCmd, others, anonymous, countVars>>
-----------------------------------------------------------------------------
BalanceInit ==
    /\ balanceView \in {"count", "return", "damage"}
    /\ stockHeld = [b \in Buckets |-> 1] /\ balanceCache = [b \in Buckets |-> Absent]
    /\ countLine = [l \in CountLines |-> [phase |-> "open", counted |-> 0, sys |-> 0]]
    /\ countEntries = {} /\ viewQty = Absent
    /\ chosen = [s \in Slots |-> IF s = "from" THEN "AVAILABLE" ELSE "DAMAGED"]
    /\ submitFor = chosen
    /\ reads = IF balanceView = "count" THEN {getStockBalance("list")} ELSE StartLoad(chosen, FALSE)
    /\ shownQty = [s \in Slots |-> NoQty] /\ submit = "idle" /\ sessionUser = ""
    /\ otherCmd = "idle" /\ others = 0 /\ picks = 0 /\ submits = 0
    /\ suspect = {} /\ confused = FALSE /\ applied = [l \in CountLines |-> 0] /\ anonymous = FALSE

BalanceNext ==
    \/ \E b \in Buckets : EntryExpires(b)
    \/ \E r \in reads : ReadRuns(r)
    \/ \E r \in reads, ok \in BOOLEAN : CountRead(r, ok) \/ ShowBalance(r, ok)
                                       \/ CountListLoaded(r, ok)
    \/ \E r \in reads : Primed(r)
    \/ ReturnLoadSession \/ DamageLoadSession \/ CountLoadSession
    \/ receiveStock \/ sellStock \/ updateTransaction \/ deleteTransaction \/ OtherAnswers
    \/ dispatchTransfer \/ receiveTransfer \/ cancelTransfer \/ getStockBalancesForStore
    \/ \E l \in CountLines : \/ \E n \in Quantities : handleCountCommit(l, n)
                             \/ AdjustRuns(l) \/ CountAnswers(l) \/ handleVoidCount(l)
    \/ handleReset
    \/ \E s \in Slots, b \in Buckets : ChooseBucket(s, b)
    \/ SubmitRuns \/ SubmitAnswers

BalanceTypeOK ==
    /\ stockHeld \in [Buckets -> Quantities]
    /\ balanceCache \in [Buckets -> Quantities \cup {Absent}]
    /\ \A l \in CountLines : countLine[l].phase \in
          {"open", "reading", "sent", "ran", "refused", "done", "failed"}
    /\ countEntries \subseteq CountLines /\ chosen \in [Slots -> Buckets]
    /\ submit \in {"idle", "ran", "refused", "reload"}

Unanswered == otherCmd = "ran" \/ submit = "ran" \/ \E l \in CountLines : countLine[l].phase = "ran"

(* A cached balance is the balance of the database, whatever reads and       *)
(* commands overlap: "Invalidated wholesale on every local stock mutation".  *)
(* The exceptions the code leaves: a command not answered yet, a transfer    *)
(* command, and a read that was under way when the balance changed.          *)
CacheIsCurrent ==
    \A b \in Buckets : \/ balanceCache[b] \in {Absent, stockHeld[b]}
                       \/ b \in suspect \/ Unanswered

(* Every line on the count sheet ("All adjustments saved to stock & day      *)
(* book") was adjusted by exactly its variance, and a line that is finished  *)
(* and not on the sheet was voided or adjusted nothing.                      *)
SheetIsApplied ==
    \A l \in CountLines :
        /\ l \in countEntries => applied[l] = variance(l)
        /\ countLine[l].phase = "failed" => applied[l] = 0 /\ l \notin countEntries

(* Once nothing is being read, a form shows the balances of the buckets it   *)
(* has chosen, unless two loads overlapped or a bucket was changed while the *)
(* form submitted.                                                           *)
ShownIsOfBucket ==
    (reads = {} /\ ~confused)
        => \A s \in SlotsOf(balanceView) : shownQty[s].bucket \in {"none", chosen[s]}

(* A movement of these forms always names a user, also when it is submitted  *)
(* before the session was loaded.                                            *)
MovementsAreAttributed == ~anonymous

(* What the balance forms promise: a cached balance is the current one, a    *)
(* counted line leaves what was counted, a form shows the quantity of the    *)
(* bucket it is about, and every movement has its user.                      *)
FormsAreTrue == CacheIsCurrent /\ SheetIsApplied /\ ShownIsOfBucket /\ MovementsAreAttributed
=============================================================================
