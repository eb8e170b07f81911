------------------------------ MODULE SyncPull ------------------------------
(***************************************************************************)
(* How a device refreshes its copy of the server's tables at the end of a  *)
(* sync run: POST /sync/pull (sync.py _paginated_pull), the client's page  *)
(* loop (_httpPullAll), apply_sync_pull and the cursor of the next pull.   *)
(*                                                                         *)
(* A pull asks for the rows changed since the cursor, products, stores and *)
(* stock balances in one stream cut in pages; the server counts and        *)
(* selects each section with a statement of its own.  The rows of a        *)
(* section are numbered in their sort order.  Time is logical: it advances *)
(* when a row is stamped, and two changes never have the same stamp.       *)
(*                                                                         *)
(* The push half of the run, OutboxSync in detail, delivers the movements  *)
(* it found queued.  Runs do not overlap here.                             *)
(***************************************************************************)
EXTENDS Integers, FiniteSets

CONSTANTS Products, Stores, Balances,         \* rows, numbered in sort order
          Limit,                              \* PULL_PAGE_SIZE
          MaxRecords, MaxOthers, MaxPullFaults, MaxPullCrashes, MaxSkew   \* bounds

ASSUME PullAssumption ==
    /\ Products \cup Stores \cup Balances \subseteq Nat
    /\ IsFiniteSet(Products) /\ IsFiniteSet(Stores) /\ IsFiniteSet(Balances)
    /\ Products \cap Stores = {} /\ Products \cap Balances = {} /\ Stores \cap Balances = {}
    /\ Limit \in Nat \ {0}
    /\ {MaxRecords, MaxOthers, MaxPullFaults, MaxPullCrashes, MaxSkew} \subseteq Nat

VARIABLES
    clock,
    stamp,       \* server: updated_at of each row, 0 before its first change
    quantity,    \* server: the stock balances
    listed,      \* server: the rows the pull filters let through
    session,     \* server: changes stamped and not yet committed
    local,       \* device: its stock_balances
    queued,      \* device: movements per balance not yet on the server
    applied,     \* device: stamp of the version of each row it last applied
    cursor,      \* device: last_sync_at
    pullPc, runBatch, since, time,   \* the run: its movements, its cursor, server_time
    offset, counted, totals, selected,   \* the page: sections counted, selected
    merged,      \* the version the pages so far have of each row
    risky,       \* history: rows a failed or raced pull may have passed over
    records, others, pullFaults, pullCrashes

server == <<clock, stamp, quantity, listed, session>>
device == <<local, queued, applied, cursor>>
page == <<offset, counted, totals, selected>>
run == <<runBatch, since, time, page, merged>>
counters == <<records, others, pullFaults, pullCrashes>>
pullVars == <<server, device, pullPc, run, risky, counters>>

Rows == Products \cup Stores \cup Balances
Sections == <<Products, Stores, Balances>>
None == [row |-> 0]
Changes == [row : Rows, delta : Int, stamp : Nat, listed : BOOLEAN]
Versions == [stamp : Nat, quantity : Int]
NotPulled == [stamp |-> 0, quantity |-> 0]
NoTotals == [k \in 1..3 |-> 0]

PullTypeOK ==
    /\ clock \in Nat
    /\ stamp \in [Rows -> 0..clock]
    /\ quantity \in [Balances -> Int]
    /\ listed \subseteq Rows
    /\ session \in [{"device", "others"} -> Changes \cup {None}]
    /\ local \in [Balances -> Int]
    /\ queued \in [Balances -> Int]
    /\ applied \in [Rows -> 0..clock]
    /\ cursor \in 0..(clock + MaxSkew)
    /\ pullPc \in {"idle", "push", "count", "select", "apply", "advance"}
    /\ runBatch \subseteq Balances
    /\ since \in 0..(clock + MaxSkew)
    /\ time \in 0..(clock + MaxSkew)
    /\ offset \in 0..Cardinality(Rows)
    /\ counted \in 0..3
    /\ totals \in [1..3 -> Nat] /\ \A k \in 1..3 : totals[k] <= Cardinality(Sections[k])
    /\ selected \in 0..3
    /\ pullPc \notin {"count", "select"} => offset = 0 /\ counted = 0 /\ totals = NoTotals /\ selected = 0
    /\ merged \in [Rows -> Versions]
    /\ risky \subseteq Rows
    /\ <<records, others, pullFaults, pullCrashes>> \in
           (0..MaxRecords) \X (0..MaxOthers) \X (0..MaxPullFaults) \X (0..MaxPullCrashes)

PullInit ==
    /\ clock = 0
    /\ stamp = [r \in Rows |-> 0]
    /\ quantity = [b \in Balances |-> 0]
    /\ listed = Rows
    /\ session = [w \in {"device", "others"} |-> None]
    /\ local = [b \in Balances |-> 0]
    /\ queued = [b \in Balances |-> 0]
    /\ applied = [r \in Rows |-> 0]
    /\ cursor = 0
    /\ pullPc = "idle"
    /\ runBatch = {}
    /\ since = 0 /\ time = 0 /\ merged = [r \in Rows |-> NotPulled]
    /\ offset = 0 /\ counted = 0 /\ totals = NoTotals /\ selected = 0
    /\ risky = {}
    /\ records = 0 /\ others = 0 /\ pullFaults = 0 /\ pullCrashes = 0

-----------------------------------------------------------------------------
(* The pull as the server answers it. *)

(* The rows of section k that the filters let through, the place of one     *)
(* among them in the sort order, and the rows of the first n sections.       *)
Stream(k) == {r \in Sections[k] \cap listed : stamp[r] > since}
Rank(k, r) == Cardinality({x \in Stream(k) : x < r})
Total(n) == (IF n > 0 THEN totals[1] ELSE 0) + (IF n > 1 THEN totals[2] ELSE 0)
            + (IF n > 2 THEN totals[3] ELSE 0)
Least(a, b) == IF a < b THEN a ELSE b
Greatest(a, b) == IF a < b THEN b ELSE a

PageEndCut == Least(offset + Limit, Greatest(0, Total(3) - 1))   \* mutant: off by one
PageEnd == Least(offset + Limit, Total(3))

(* _section_slice: the part of section k on the page, with OFFSET and LIMIT  *)
(* from the counts and the rows from the table as it is now.                 *)
SectionSlice(k) ==
    {r \in Stream(k) : /\ offset <= Total(k - 1) + Rank(k, r)
                       /\ Total(k - 1) + Rank(k, r) < Least(PageEnd, Total(k))}
Version(r) == [stamp |-> stamp[r], quantity |-> IF r \in Balances THEN quantity[r] ELSE 0]

(* The answer's server_time is read before the first count; the client keeps *)
(* that of the first page.                                                   *)
ServerTimeOfLastPage == clock   \* mutant: every page moves the cursor
ServerTime == IF offset = 0 THEN clock ELSE time

CountSection ==
    /\ pullPc = "count"
    /\ time' = IF counted = 0 THEN ServerTime ELSE time
    /\ counted' = counted + 1
    /\ totals' = [totals EXCEPT ![counted + 1] = Cardinality(Stream(counted + 1))]
    /\ pullPc' = IF counted' = 3 THEN "select" ELSE "count"
    /\ UNCHANGED <<server, device, runBatch, since, offset, selected, merged, risky, counters>>

SelectSection ==
    /\ pullPc = "select"
    /\ selected < 3
    /\ selected' = selected + 1
    /\ merged' = [r \in Rows |-> IF r \in SectionSlice(selected + 1) THEN Version(r) ELSE merged[r]]
    /\ UNCHANGED <<server, device, pullPc, runBatch, since, time, offset, counted, totals, risky, counters>>

(* The answer arrives: another page or, has_more being false, the apply.     *)
PageArrives ==
    /\ pullPc = "select"
    /\ selected = 3
    /\ counted' = 0 /\ totals' = NoTotals /\ selected' = 0
    /\ IF PageEnd < Total(3)
       THEN pullPc' = "count" /\ offset' = PageEnd
       ELSE pullPc' = "apply" /\ offset' = 0
    /\ UNCHANGED <<server, device, runBatch, since, time, merged, risky, counters>>

-----------------------------------------------------------------------------
(* Changes on the server. *)

Commits(w) ==
    LET c == session[w]
    IN  /\ c # None
        /\ session' = [session EXCEPT ![w] = None]
        /\ stamp' = [stamp EXCEPT ![c.row] = c.stamp]
        /\ quantity' = IF c.row \in Balances
                       THEN [quantity EXCEPT ![c.row] = @ + c.delta] ELSE quantity
        /\ listed' = IF c.listed THEN listed \cup {c.row} ELSE listed \ {c.row}
        /\ UNCHANGED clock

Stamps(w, r, d, shown) ==
    /\ session[w] = None
    /\ clock' = clock + 1
    /\ session' = [session EXCEPT ![w] = [row |-> r, delta |-> d, stamp |-> clock + 1, listed |-> shown]]
    /\ UNCHANGED <<stamp, quantity, listed>>

(* Rows the device does not have in their present version.                   *)
Exposed == {r \in listed : stamp[r] # applied[r]}

(* A commit endangers rows: itself, when it was stamped before the cursor    *)
(* the device has or is about to have; the rows of the stream, when its row  *)
(* leaves a stream in use (hidden, or its stamp set back by a transaction    *)
(* that read the time earlier) or joins one between count and select.        *)
IsLate(c) == c.stamp <= cursor \/ c.stamp <= time
Leaves(c, k) == c.row \in Stream(k) /\ ~(c.listed /\ c.stamp > since)
Joins(c, k) == c.row \in Sections[k] \ Stream(k) /\ c.listed /\ c.stamp > since
Displaces(c) ==
    /\ pullPc \in {"count", "select"}
    /\ \E k \in 1..3 : Leaves(c, k) \/ (Joins(c, k) /\ k <= counted /\ selected < k)

Endangers(c) ==
    risky' = (risky \ {c.row})
             \cup (IF IsLate(c) THEN {c.row} ELSE {})
             \cup (IF Displaces(c) THEN Exposed \ {c.row} ELSE {})

(* Another device's movement, or an edit of the catalogue or of a store.     *)
OtherChange(r, d) ==
    /\ others < MaxOthers
    /\ others' = others + 1
    /\ \E shown \in (IF r \in Stores THEN BOOLEAN ELSE {TRUE}) : Stamps("others", r, d, shown)
    /\ UNCHANGED <<device, pullPc, run, risky, records, pullFaults, pullCrashes>>

OtherCommit ==
    /\ Commits("others")
    /\ Endangers(session["others"])
    /\ UNCHANGED <<device, pullPc, run, counters>>

-----------------------------------------------------------------------------
(* The device. *)

(* A stock command: the balance and the outbox event.                        *)
RecordMovement(b, d) ==
    /\ records < MaxRecords
    /\ records' = records + 1
    /\ local' = [local EXCEPT ![b] = @ + d]
    /\ queued' = [queued EXCEPT ![b] = @ + d]
    /\ UNCHANGED <<server, applied, cursor, pullPc, run, risky, others, pullFaults, pullCrashes>>

(* triggerSync: the movements queued now are the ones this run pushes.       *)
StartSync ==
    /\ pullPc = "idle"
    /\ pullPc' = "push"
    /\ runBatch' = {b \in Balances : queued[b] # 0}
    /\ UNCHANGED <<server, device, since, time, page, merged, risky, counters>>

PushMovement(b) ==
    /\ pullPc = "push"
    /\ b \in runBatch
    /\ Stamps("device", b, queued[b], TRUE)
    /\ UNCHANGED <<device, pullPc, run, risky, counters>>

(* The device's own movement commits and is acknowledged.                    *)
PushCommit ==
    LET c == session["device"]
    IN  /\ pullPc = "push"
        /\ Commits("device")
        /\ queued' = [queued EXCEPT ![c.row] = @ - c.delta]
        /\ runBatch' = runBatch \ {c.row}
        /\ Endangers(c)
        /\ UNCHANGED <<local, applied, cursor, pullPc, since, time, page, merged, counters>>

(* _httpPullAll: the cursor is read once, the pages follow.                  *)
StartPull ==
    /\ pullPc = "push"
    /\ runBatch = {}
    /\ pullPc' = "count"
    /\ since' = cursor
    /\ UNCHANGED <<server, device, runBatch, time, page, merged, risky, counters>>

(* apply_sync_pull: one transaction, a version per row, the last one wins.   *)
Pulled == {r \in Rows : merged[r].stamp # 0}

ApplySyncPull ==
    /\ pullPc = "apply"
    /\ pullPc' = "advance"
    /\ local' = [b \in Balances |-> IF b \in Pulled THEN merged[b].quantity ELSE local[b]]
    /\ applied' = [r \in Rows |-> IF r \in Pulled THEN merged[r].stamp ELSE applied[r]]
    /\ UNCHANGED <<server, queued, cursor, run, risky, counters>>

(* The cursor is written last: a crash before it repeats the pull.           *)
SetLastSyncTimestamp ==
    /\ pullPc = "advance"
    /\ pullPc' = "idle"
    /\ cursor' = time
    /\ since' = 0 /\ time' = 0 /\ merged' = [r \in Rows |-> NotPulled]
    /\ UNCHANGED <<server, local, queued, applied, runBatch, page, risky, counters>>

PageKept == UNCHANGED page   \* mutant: the next pull goes on from there
PageCleared == offset' = 0 /\ counted' = 0 /\ totals' = NoTotals /\ selected' = 0

(* A page request fails: the run goes on to write the time of the device's   *)
(* own clock.                                                                *)
PullFails ==
    /\ pullPc \in {"count", "select"}
    /\ pullFaults < MaxPullFaults
    /\ pullFaults' = pullFaults + 1
    /\ pullPc' = "advance"
    /\ \E skew \in -MaxSkew..MaxSkew : time' = Greatest(0, clock + skew)
    /\ merged' = [r \in Rows |-> NotPulled]
    /\ PageCleared
    /\ risky' = risky \cup Exposed
    /\ UNCHANGED <<server, device, runBatch, since, records, others, pullCrashes>>

(* apply_sync_pull rolls back: the error is logged and the cursor advances.  *)
ApplyFails ==
    /\ pullPc = "apply"
    /\ pullFaults < MaxPullFaults
    /\ pullFaults' = pullFaults + 1
    /\ pullPc' = "advance"
    /\ risky' = risky \cup Exposed
    /\ UNCHANGED <<server, device, run, records, others, pullCrashes>>

(* A push that fails for good ends the run without a pull.                   *)
PushHalfFails ==
    /\ pullPc = "push"
    /\ runBatch # {}
    /\ session["device"] = None
    /\ pullFaults < MaxPullFaults
    /\ pullFaults' = pullFaults + 1
    /\ pullPc' = "idle"
    /\ runBatch' = {}
    /\ UNCHANGED <<server, device, since, time, page, merged, risky,
                   records, others, pullCrashes>>

(* The application ends in the middle of a pull.                             *)
PullCrash ==
    /\ pullPc \in {"count", "select", "apply", "advance"}
    /\ pullCrashes < MaxPullCrashes
    /\ pullCrashes' = pullCrashes + 1
    /\ pullPc' = "idle"
    /\ since' = 0 /\ time' = 0 /\ merged' = [r \in Rows |-> NotPulled]
    /\ PageCleared
    /\ UNCHANGED <<server, device, runBatch, risky, records, others, pullFaults>>

-----------------------------------------------------------------------------
PullRunStep ==
    \/ \E b \in Balances : PushMovement(b)
    \/ PushCommit \/ StartPull
    \/ CountSection \/ SelectSection \/ PageArrives
    \/ ApplySyncPull \/ SetLastSyncTimestamp

PullNext ==
    \/ \E b \in Balances : RecordMovement(b, 1)
    \/ \E r \in Rows : OtherChange(r, IF r \in Balances THEN 1 ELSE 0)
    \/ OtherCommit
    \/ StartSync \/ PullRunStep
    \/ PullFails \/ ApplyFails \/ PushHalfFails \/ PullCrash

PullFairness ==
    /\ WF_pullVars(OtherCommit)
    /\ WF_pullVars(StartSync)
    /\ WF_pullVars(PullRunStep)

PullSpec == PullInit /\ [][PullNext]_pullVars /\ PullFairness
-----------------------------------------------------------------------------
(* Properties. *)

(* Unless a pull failed or a change was raced, the cursor never passes a     *)
(* version of a row that the device has not applied: paging by offset over   *)
(* tables that change between the pages skips nothing, and a crash between   *)
(* the apply and the cursor repeats rather than skips.                       *)
NothingSkipped ==
    \A r \in Exposed : stamp[r] <= cursor => r \in risky

(* Although the pull overwrites balances that have unpushed movements, the   *)
(* device ends up with the server's balances, and with nothing queued, once  *)
(* nobody makes changes any more, except for the rows passed over.           *)
Converges ==
    <>[](\A b \in Balances : queued[b] = 0 /\ (b \in risky \/ local[b] = quantity[b]))

(* The non-negotiable rule: a balance of the device is the sum of movements, *)
(* the accepted ones and its own that are still queued.  (When no one else   *)
(* changes the balances, it knows all the accepted ones.)                    *)
LocalIsProjection ==
    \A b \in Balances : local[b] = quantity[b] + queued[b]
=============================================================================
