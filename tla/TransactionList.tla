-------------------------- MODULE TransactionList --------------------------
(***************************************************************************)
(* TransactionsView: the ledger of the active store. A load reads the       *)
(* transactions of this device, asks the server for a page, and shows the   *)
(* page together with what only the device has; when the server cannot be   *)
(* reached it falls back to the device, and from an empty device to the     *)
(* last list it kept in localStorage. The database and the server's route   *)
(* are external. Transactions are numbered by occurred_at, and a page has   *)
(* one of them (LIMIT is 100 in the code). While the view is open the       *)
(* device records nothing; it pushes, and other devices push too.           *)
(***************************************************************************)
EXTENDS Integers, Sequences, FiniteSets
LedgerSets == INSTANCE FiniteSetsExt
LedgerMaps == INSTANCE Functions

CONSTANTS LedgerStores,
          MaxLedger,       \* bound: transactions there are
          MaxLedgerSteps,  \* bound: switches, refreshes and page turns
          MaxArrivals,     \* bound: transactions that reach the server meanwhile
          MaxLedgerLoads   \* bound: loads under way at once

ASSUME LedgerAssumption == MaxLedger \in Nat /\ MaxLedgerSteps \in Nat /\ MaxArrivals \in Nat
                           /\ MaxLedgerLoads \in Nat

VARIABLES
    storeOf,      \* the store of each transaction
    lgLocal,      \* inventory_transactions of the device
    lgServer,     \* the ledger of the server
    lgActive,     \* activeStoreId
    lgOffset,     \* offset
    lgShown,      \* transactions
    lgLoading,    \* loading
    lgOffline,    \* isOffline, and with it error
    lgCache,      \* the list in localStorage, as a set of at most one
    lgLoads,      \* loadTransactions under way: [no, s, o, step, loc]
    lgSteps, lgArrivals,
    lgAnswered,   \* history: the newest load of this busy stretch that has ended
    lgCrossed,    \* history: a load ended after a newer one
    lgBlind,      \* history: the local transactions could not be read
    lgAstray      \* history: a page was turned on a list that was not the active store's own

ledgerVars == <<storeOf, lgLocal, lgServer, lgActive, lgOffset, lgShown, lgLoading, lgOffline, lgCache,
                lgLoads, lgSteps, lgArrivals, lgAnswered, lgCrossed, lgBlind, lgAstray>>

Movements == 1 .. MaxLedger
LIMIT == 1

(* The movements f[x] of the places x of K, newest first (ORDER BY, sort).   *)
TimeOrder(f, K) ==
    CHOOSE p \in LedgerMaps!Bijection(1 .. Cardinality(K), K) :
        \A i, j \in 1 .. Cardinality(K) : i < j => f[p[i]] >= f[p[j]]
NewestFirst(f, K) ==
    LET order == TimeOrder(f, K) IN [i \in 1 .. Cardinality(K) |-> f[order[i]]]
ListOf(S) == NewestFirst([t \in S |-> t], S)
ServerPage(s, o) ==
    LET all == ListOf({t \in lgServer : storeOf[t] = s})
    IN  SubSeq(all, o + 1, IF o + LIMIT < Len(all) THEN o + LIMIT ELSE Len(all))
lgTotal == Len(lgShown)   \* setTotal(merged.length)
-----------------------------------------------------------------------------
(* The loads of a busy stretch are numbered from 1.                          *)
NextLedgerNo == LedgerSets!Max({l.no : l \in lgLoads} \cup {lgAnswered}) + 1

StartLedgerLoad(s, o) ==
    /\ Cardinality(lgLoads) < MaxLedgerLoads
    /\ lgLoading' = TRUE /\ lgOffline' = FALSE
    /\ lgLoads' = lgLoads \cup {[no |-> NextLedgerNo, s |-> s, o |-> o, step |-> "local", loc |-> <<>>]}
    /\ lgCrossed' = (lgCrossed /\ lgLoads # {}) /\ lgBlind' = (lgBlind /\ lgLoads # {})
    /\ UNCHANGED <<storeOf, lgLocal, lgServer, lgShown, lgCache, lgArrivals, lgAnswered>>

SwitchLedgerStore(s) ==
    /\ s # lgActive /\ lgSteps < MaxLedgerSteps /\ lgSteps' = lgSteps + 1
    /\ lgActive' = s /\ lgOffset' = 0 /\ lgAstray' = FALSE
    /\ StartLedgerLoad(s, 0)

(* The buttons. Those of the pager are not there while the list is empty.    *)
Turn(o) ==
    /\ ~lgLoading /\ lgSteps < MaxLedgerSteps /\ lgSteps' = lgSteps + 1
    /\ lgOffset' = o /\ UNCHANGED lgActive
    /\ StartLedgerLoad(lgActive, o)
RefreshLedger == Turn(lgOffset) /\ UNCHANGED lgAstray
PreviousPage ==
    /\ lgShown # <<>> /\ lgOffset > 0
    /\ Turn(IF lgOffset > LIMIT THEN lgOffset - LIMIT ELSE 0) /\ UNCHANGED lgAstray
\* mutant: there is always a next page
AlwaysNext == TRUE
HasNext == lgOffset + LIMIT < lgTotal
NextPage ==
    /\ lgShown # <<>> /\ HasNext /\ Turn(lgOffset + LIMIT)
    /\ lgAstray' = (lgAstray \/ lgOffline \/ lgCrossed \/ lgLoads # {})
-----------------------------------------------------------------------------
\* mutant: the transactions of all stores
LocalOfAll(s) == ListOf(lgLocal)
LocalOf(s) == ListOf({t \in lgLocal : storeOf[t] = s})
ReplaceLoad(l, m) == lgLoads' = (lgLoads \ {l}) \cup {m}

(* getLocalTransactions, whose failure counts as an empty list.              *)
LocalRead(l, ok) ==
    /\ l.step = "local"
    /\ ReplaceLoad(l, [l EXCEPT !.step = "server", !.loc = IF ok THEN LocalOf(l.s) ELSE <<>>])
    /\ lgBlind' = (lgBlind \/ ~ok)
    /\ UNCHANGED <<storeOf, lgLocal, lgServer, lgActive, lgOffset, lgShown, lgLoading, lgOffline, lgCache,
                   lgSteps, lgArrivals, lgAnswered, lgCrossed, lgAstray>>

EndLoad(l, list) ==
    /\ lgShown' = list /\ lgLoading' = FALSE /\ lgLoads' = lgLoads \ {l}
    /\ lgAnswered' = IF lgLoads = {l} THEN 0 ELSE LedgerSets!Max({l.no, lgAnswered})
    /\ lgCrossed' = (lgCrossed \/ l.no < lgAnswered)
    /\ UNCHANGED <<storeOf, lgLocal, lgServer, lgActive, lgOffset, lgSteps, lgArrivals, lgAstray>>

\* mutants: the two lists one after the other; only the page, unless it is empty
Appended(page, loc) == NewestFirst(page \o loc, DOMAIN (page \o loc))
PageOrLocal(page, loc) == IF page = <<>> THEN loc ELSE page
(* What the server has, and of the device's own what is not on the page, in  *)
(* the order of time.                                                        *)
OnPage(page, t) == \E i \in DOMAIN page : page[i] = t   \* serverIds
Merged(page, loc) ==
    LET both == page \o loc
    IN  NewestFirst(both, {i \in DOMAIN both : i <= Len(page) \/ ~OnPage(page, both[i])})

(* The page may have been read at the server at any moment of the request;   *)
(* the last one is as good as any, since it only grows.                      *)
PageAnswers(l) ==
    LET merged == Merged(ServerPage(l.s, l.o), l.loc) IN
    /\ l.step = "server"
    /\ EndLoad(l, merged) /\ lgCache' = {merged}
    /\ UNCHANGED <<lgOffline, lgBlind>>
ServerFails(l) ==
    /\ l.step = "server" /\ lgOffline' = TRUE
    /\ ReplaceLoad(l, [l EXCEPT !.step = "fallback"])
    /\ UNCHANGED <<storeOf, lgLocal, lgServer, lgActive, lgOffset, lgShown, lgLoading, lgCache,
                   lgSteps, lgArrivals, lgAnswered, lgCrossed, lgBlind, lgAstray>>

(* The device's own transactions, of all its stores; if there are none, the  *)
(* list that was kept; if there is none either, the list stays as it is.     *)
Fallback(ok) ==
    IF ok /\ lgLocal # {} THEN ListOf(lgLocal)
    ELSE IF lgCache # {} THEN CHOOSE c \in lgCache : TRUE ELSE lgShown
FallbackRead(l, ok) ==
    /\ l.step = "fallback"
    /\ EndLoad(l, Fallback(ok)) /\ lgBlind' = (lgBlind \/ ~ok)
    /\ UNCHANGED <<lgOffline, lgCache>>

(* A push of this device, or of another one, reaches the server.             *)
Arrives(t) ==
    /\ t \notin lgServer /\ lgArrivals < MaxArrivals /\ lgArrivals' = lgArrivals + 1
    /\ lgServer' = lgServer \cup {t}
    /\ UNCHANGED <<storeOf, lgLocal, lgActive, lgOffset, lgShown, lgLoading, lgOffline, lgCache, lgLoads,
                   lgSteps, lgAnswered, lgCrossed, lgBlind, lgAstray>>
-----------------------------------------------------------------------------
LedgerInit ==
    /\ storeOf \in [Movements -> LedgerStores]
    /\ lgLocal \in SUBSET Movements /\ lgServer \in SUBSET Movements
    /\ lgActive \in LedgerStores /\ lgOffset = 0 /\ lgShown = <<>>
    /\ lgLoading = TRUE /\ lgOffline = FALSE /\ lgCache = {}
    /\ lgLoads = {[no |-> 1, s |-> lgActive, o |-> 0, step |-> "local", loc |-> <<>>]}
    /\ lgSteps = 0 /\ lgArrivals = 0 /\ lgAnswered = 0 /\ lgCrossed = FALSE /\ lgBlind = FALSE
    /\ lgAstray = FALSE

LedgerNext ==
    \/ \E s \in LedgerStores : SwitchLedgerStore(s)
    \/ RefreshLedger \/ PreviousPage \/ NextPage
    \/ \E l \in lgLoads : \/ PageAnswers(l) \/ ServerFails(l)
                          \/ \E ok \in BOOLEAN : LocalRead(l, ok) \/ FallbackRead(l, ok)
    \/ \E t \in Movements : Arrives(t)

LedgerSpec == LedgerInit /\ [][LedgerNext]_ledgerVars

LedgerTypeOK ==
    /\ lgLocal \subseteq Movements /\ lgServer \subseteq Movements /\ lgActive \in LedgerStores
    /\ lgOffset \in Nat /\ \A i \in DOMAIN lgShown : lgShown[i] \in Movements
    /\ lgLoading \in BOOLEAN /\ lgOffline \in BOOLEAN /\ Cardinality(lgCache) <= 1
    /\ \A l \in lgLoads : l.step \in {"local", "server", "fallback"} /\ l.s \in LedgerStores

LedgerRests == lgLoads = {} /\ ~lgCrossed

(* Whatever was recorded on this device for the active store is in the list  *)
(* of every page once the load has ended, whether the server has it, does    *)
(* not have it, receives it meanwhile or does not answer; unless the         *)
(* database could not be read.                                               *)
RecordedIsListed ==
    LedgerRests /\ ~lgBlind =>
        {t \in lgLocal : storeOf[t] = lgActive} \subseteq {lgShown[i] : i \in DOMAIN lgShown}

(* No list has a transaction twice or out of the order of time, although     *)
(* page and device overlap and loads answer in any order (serverIds, sort).  *)
ListedOnce == \A i, j \in DOMAIN lgShown : i < j => lgShown[i] > lgShown[j]

(* "prevent cross-store leak": the list is of the active store, unless a     *)
(* load of the store before it ended later, or the list is the fallback,     *)
(* which is not filtered.                                                    *)
LedgerIsOfStore ==
    LedgerRests /\ ~lgOffline => \A i \in DOMAIN lgShown : storeOf[lgShown[i]] = lgActive

(* Turning pages never ends on an empty one, where the pager is gone, unless *)
(* a page was turned on the unfiltered fallback or on a list that a load of  *)
(* the store before it had left.                                             *)
PagerStrandsNobody ==
    LedgerRests /\ ~lgBlind /\ ~lgAstray /\ lgShown = <<>> => lgOffset = 0

(* What the transaction list promises: all of the store's movements of this  *)
(* device, each once, of no other store, and a way back from every page.     *)
LedgerIsTrue == RecordedIsListed /\ ListedOnce /\ LedgerIsOfStore /\ PagerStrandsNobody
=============================================================================
