---------------------------- MODULE ScreenProofs ----------------------------
(***************************************************************************)
(* The screens that work on stock tell the truth, for any set of stores,   *)
(* rows, lines, transfers and products and any number of entries, reads    *)
(* and edits: the product search, the grid of receiving and selling, the   *)
(* forms of count, return and damage, and the transfer screen; and so does *)
(* the dashboard, for any queries, clicks, runs and loads.  So do the      *)
(* catalogue screens, for any files, imports, products and queries: the    *)
(* import (ProductImport) and the table (ProductList); and the ledger      *)
(* (TransactionList) and the day books (DayBooks), for any movements,      *)
(* pages, loads and edits.                                                 *)
(***************************************************************************)
EXTENDS ProductSearch, EntryGrid, BalanceForms, TransferScreen, Dashboard,
        ProductImport, ProductList, TransactionList, DayBooks,
        FiniteSetTheorems, SequenceTheorems, SumTheorems, TLAPS

(* Unless loads went astray, the list is of the active store or its load is  *)
(* the only one under way; in the views that load on the event of a switch,  *)
(* once that event has come, and the event that is due names the store.      *)
LoadInv ==
    /\ searchView \in SearchViews /\ crossed \in BOOLEAN
    /\ ~crossed /\ searchView # "damage" =>
        /\ eventDue \in {Nowhere, place}
        /\ searchView = "count" \/ eventDue = Nowhere =>
              loads = {place} \/ (loads = {} /\ listed = place)

loadVars == <<searchView, place, eventDue, loads, listed, crossed>>

(* Every step keeps it: a switch is followed by its event, the event by the  *)
(* load of the store it names, and whatever goes astray is noted.            *)
LEMMA LoadKeeps == LoadInv /\ [SearchNext]_searchVars => LoadInv'
<1> SUFFICES ASSUME LoadInv, [SearchNext]_searchVars PROVE LoadInv'
  OBVIOUS
<1> USE SearchAssumption
<1>1. ASSUME NEW s \in Places, SwitchStore(s) \/ ActiveStoreReplaced(s) PROVE LoadInv'
  <2>1. /\ eventDue = Nowhere /\ place' = s /\ UNCHANGED <<searchView, listed>> /\ crossed' \in BOOLEAN
        /\ \/ eventDue' = s
           \/ eventDue' = Nowhere /\ (searchView = "count" \/ crossed')
        /\ searchView = "count" => loads' = loads \cup {loadTarget(s)} /\ (~crossed' => loads = {} /\ ~crossed)
        /\ searchView # "count" => crossed' \/ UNCHANGED <<loads, crossed>>
    BY <1>1, Zenon DEF SwitchStore, ActiveStoreReplaced, loadProductsWithQty, BeginLoad, LoadInv
  <2>2. loadTarget(s) = s
    BY DEF loadTarget
  <2> QED
    BY <2>1, <2>2 DEF LoadInv
<1>2. ASSUME NEW s \in Places, NEW ok \in BOOLEAN, getProductsByStore(s, ok) PROVE LoadInv'
  <2>1. /\ s \in loads /\ loads' = loads \ {s} /\ UNCHANGED <<searchView, place, eventDue>>
        /\ crossed' \in BOOLEAN /\ (~crossed' => ~crossed /\ listed' = s)
    BY <1>2, Zenon DEF getProductsByStore
  <2> QED
    BY <2>1 DEF LoadInv
<1>3. CASE StoresUpdated
  <2>1. /\ eventDue # Nowhere /\ eventDue' = Nowhere /\ UNCHANGED <<searchView, place, listed>>
        /\ \/ /\ searchView # "count" /\ loads' = loads \cup {loadTarget(eventDue)}
              /\ crossed' \in BOOLEAN /\ (~crossed' => ~crossed /\ loads = {})
           \/ /\ searchView \notin {"receive", "sale", "return", "transfer"}
              /\ UNCHANGED <<loads, crossed>>
    <3>1. /\ eventDue # Nowhere /\ eventDue' = Nowhere /\ UNCHANGED <<searchView, place, listed>>
          /\ CASE searchView = "receive" -> loadAllProducts(eventDue)
               [] searchView = "sale" -> SaleLoadAllProducts(eventDue)
               [] searchView = "return" -> loadStoreProducts(eventDue)
               [] searchView = "transfer" -> fetchData(eventDue)
               [] OTHER -> UNCHANGED <<loads, found, crossed>>
      BY <1>3, Zenon DEF StoresUpdated
    <3>2. \/ searchView # "count" /\ BeginLoad(eventDue)
          \/ /\ searchView \notin {"receive", "sale", "return", "transfer"}
             /\ UNCHANGED <<loads, crossed>>
      BY <3>1 DEF loadAllProducts, SaleLoadAllProducts, loadStoreProducts, fetchData
    <3> QED
      BY <3>1, <3>2, Zenon DEF BeginLoad
  <2>2. loadTarget(eventDue) = eventDue
    BY <2>1 DEF loadTarget
  <2> QED
    BY <2>1, <2>2 DEF LoadInv, SearchViews, GridViews
<1>4. CASE UNCHANGED loadVars
  BY <1>4 DEF loadVars, LoadInv
<1>5. (\E q \in Queries : TypeQuery(q)) \/ DebounceFires \/ (\E t \in searches : SearchAnswers(t))
        \/ (\E p \in Items : Pick(p)) \/ clearProduct \/ DamageClearProduct \/ UNCHANGED searchVars
      => UNCHANGED loadVars
  BY Zenon DEF TypeQuery, DebounceFires, SearchAnswers, Pick, clearProduct, DamageClearProduct,
               ClearSelection, searchVars, loadVars
<1> QED
  BY <1>1, <1>2, <1>3, <1>4, <1>5, Zenon DEF SearchNext

(* With no event due and no load under way the list is of the active store,  *)
(* for any number of stores, switches and loads, unless a load failed, two   *)
(* overlapped or the store was replaced without an event (loadAllProducts).  *)
THEOREM ListOfActiveStore == SearchInit /\ [][SearchNext]_searchVars => []ListIsOfActiveStore
<1>1. SearchInit => LoadInv
  <2> SUFFICES ASSUME SearchInit PROVE LoadInv
    OBVIOUS
  <2>1. /\ searchView \in SearchViews /\ eventDue = Nowhere /\ crossed = FALSE
        /\ searchView # "damage" => loads = {place}
    BY Zenon DEF SearchInit
  <2> QED
    BY <2>1, Zenon DEF LoadInv
<1>2. LoadInv => ListIsOfActiveStore
  BY DEF LoadInv, ListIsOfActiveStore
<1> QED
  BY <1>1, <1>2, LoadKeeps, PTL
-----------------------------------------------------------------------------
Asked == [q : Queries, live : BOOLEAN, scoped : BOOLEAN]

(* A search whose answer would be taken asks for the last query: by its      *)
(* number in the grids, by the query in the input in Transfer, and in Return *)
(* and Damage while their searches do not overlap.                           *)
AnswersInv ==
    /\ searchView \in SearchViews /\ searchOverlapped \in BOOLEAN
    /\ searches \subseteq Asked /\ typed \in Queries /\ due \in Queries \cup {Off}
    /\ searchView \in GridViews \cup {"transfer"} => \A t \in searches : t.live => t.q = lastRun
    /\ searchView = "transfer" =>
          /\ due \in {Off, typed}
          /\ \A t \in searches : t.live => t.q = typed
    /\ searchView \in {"return", "damage"} /\ ~searchOverlapped => \A t \in searches : t.q = lastRun

askVars == <<searchView, typed, due, lastRun, searches, searchOverlapped>>

(* The queries that are about, and that a match in the list is one of the    *)
(* index too.                                                                *)
LEMMA QueryFacts ==
    /\ Blank \in Queries
    /\ \A p \in Items : <<p, "name">> \in Queries
    /\ \A q : localMatches(q) \subseteq searchProducts(q)
<1>1. \A p : <<p, "name">> # <<>> /\ <<p, "name">>[1] = p
  OBVIOUS
<1>2. \A q : localMatches(q) \subseteq searchProducts(q)
  BY <1>1 DEF localMatches, searchProducts, searchProductsFts5, Blank
<1> QED
  BY <1>2 DEF Queries, Blank

(* A search that was dropped is no longer live.                              *)
LEMMA DeadFacts ==
    ASSUME NEW ss \in SUBSET Asked
    PROVE  Dead(ss) \subseteq Asked /\ \A t \in Dead(ss) : ~t.live
  BY DEF Dead, Asked

(* A search is what was asked.                                               *)
LEMMA AskedFacts ==
    ASSUME NEW a \in Queries, NEW b \in BOOLEAN, NEW c \in BOOLEAN
    PROVE  /\ [q |-> a, live |-> b, scoped |-> c] \in Asked
           /\ [q |-> a, live |-> b, scoped |-> c].q = a
  BY DEF Asked

(* handleProductSearch outdates every earlier search.                        *)
LEMMA GridSearchFacts ==
    ASSUME NEW q \in Queries, handleProductSearch(q), searches \subseteq Asked
    PROVE  /\ searches' \subseteq Asked
           /\ \A t \in searches' : t.live => t.q = q
           /\ found' = localMatches(q)
<1> DEFINE new == [q |-> q, live |-> TRUE, scoped |-> listed # Nowhere]
<1>1. new \in Asked /\ new.q = q
  BY AskedFacts
<1>2. \A t \in searches' : t \in Dead(searches) \/ t = new
  BY DEF handleProductSearch
<1> HIDE DEF new
<1>3. found' = localMatches(q)
  BY DEF handleProductSearch
<1> QED
  BY <1>1, <1>2, <1>3, DeadFacts

(* The searches of the forms: the one that is begun is for the query.        *)
LEMMA FormSearchFacts ==
    ASSUME NEW q \in Queries, ReturnSearch(q) \/ DamageSearch(q) \/ TransferSearch(q), searches \subseteq Asked
    PROVE  /\ searches' \subseteq Asked
           /\ \A t \in searches' : t \in searches \/ t.q = q
           /\ found' = found \/ found' = {}
<1> DEFINE new(b) == [q |-> q, live |-> TRUE, scoped |-> b]
<1>1. \A b \in BOOLEAN : new(b) \in Asked /\ new(b).q = q
  BY AskedFacts
<1>2. \/ searches' = searches
      \/ searches' = searches \cup {new(listed # Nowhere)}
      \/ searches' = searches \cup {new(TRUE)}
  BY Zenon DEF ReturnSearch, DamageSearch, TransferSearch
<1> HIDE DEF new
<1>3. found' = found \/ found' = {}
  BY DEF ReturnSearch, DamageSearch, TransferSearch
<1> QED
  BY <1>1, <1>2, <1>3

(* Every step keeps it: the grids and Transfer drop what is outdated before  *)
(* they ask again, the others note an overlap.                               *)
LEMMA AnswersKeeps == AnswersInv /\ [SearchNext]_searchVars => AnswersInv'
<1> SUFFICES ASSUME AnswersInv, [SearchNext]_searchVars PROVE AnswersInv'
  OBVIOUS
<1>0. searches \subseteq Asked /\ typed \in Queries
  BY DEF AnswersInv
<1>1. ASSUME NEW s \in Places, SwitchStore(s) \/ ActiveStoreReplaced(s) PROVE AnswersInv'
  <2>1. /\ UNCHANGED <<searchView, typed, lastRun, searches, searchOverlapped>>
        /\ due' = due \/ (searchView = "damage" /\ due' = typed)
    BY <1>1, Zenon DEF SwitchStore, ActiveStoreReplaced
  <2> QED
    BY <2>1 DEF AnswersInv
<1>2. ASSUME NEW s \in Places, NEW ok \in BOOLEAN, getProductsByStore(s, ok) PROVE AnswersInv'
  <2>1. /\ UNCHANGED <<searchView, typed, lastRun, searchOverlapped>>
        /\ searches' = searches \/ (searches' = Dead(searches) /\ searchView = "transfer")
        /\ due' \in {due, typed, Off}
    BY <1>2 DEF getProductsByStore
  <2>2. searches' \subseteq Asked /\ \A t \in searches' : t \in searches \/ (~t.live /\ searchView = "transfer")
    BY <1>0, <2>1, DeadFacts
  <2> QED
    BY <1>0, <2>1, <2>2 DEF AnswersInv
<1>3. ASSUME NEW q \in Queries, TypeQuery(q) PROVE AnswersInv'
  <2>1. /\ UNCHANGED <<searchView, lastRun, searchOverlapped>> /\ typed' = q
        /\ \/ searchView # "transfer" /\ searches' = searches /\ due' \in {Off, q}
           \/ searchView = "transfer" /\ searches' = Dead(searches) /\ due' \in {Off, q}
    <3>1. /\ UNCHANGED <<searchView, lastRun, searchOverlapped>> /\ typed' = q
          /\ \/ searchView \in GridViews /\ GridTypes(q)
             \/ searchView = "transfer" /\ TransferTypes(q)
             \/ searchView = "return" /\ ReturnTypes(q)
             \/ searchView = "damage" /\ DamageTypes(q)
      BY <1>3, Zenon DEF TypeQuery
    <3> QED
      BY <3>1 DEF GridTypes, TransferTypes, ReturnTypes, DamageTypes, GridViews
  <2>2. searches' \subseteq Asked /\ \A t \in searches' : t \in searches \/ ~t.live
    BY <1>0, <2>1, DeadFacts
  <2>3. searchView = "transfer" => \A t \in searches' : ~t.live
    BY <1>0, <2>1, DeadFacts
  <2> QED
    BY <2>1, <2>2, <2>3 DEF AnswersInv, GridViews
<1>4. CASE DebounceFires
  <2>1. /\ due # Off /\ due' = Off /\ lastRun' = due /\ UNCHANGED <<searchView, typed>>
        /\ searchOverlapped' \in BOOLEAN /\ (~searchOverlapped' => searches = {})
        /\ due \in Queries
    BY <1>4, Zenon DEF DebounceFires, AnswersInv
  <2>2. \/ searchView \in GridViews /\ handleProductSearch(due)
        \/ searchView \in {"return", "damage"} /\ (ReturnSearch(due) \/ DamageSearch(due))
        \/ searchView = "transfer" /\ TransferSearch(due)
    BY <1>4 DEF DebounceFires, SaleProductSearch, CountHandleSearch, AnswersInv, SearchViews, GridViews
  <2>3. CASE searchView \in GridViews /\ handleProductSearch(due)
    BY <1>0, <2>1, <2>3, GridSearchFacts DEF AnswersInv, GridViews
  <2>4. CASE searchView \in {"return", "damage"} /\ (ReturnSearch(due) \/ DamageSearch(due))
    <3>1. searches' \subseteq Asked /\ \A t \in searches' : t \in searches \/ t.q = due
      BY <1>0, <2>1, <2>4, FormSearchFacts
    <3> QED
      BY <1>0, <2>1, <2>4, <3>1 DEF AnswersInv, GridViews
  <2>5. CASE searchView = "transfer" /\ TransferSearch(due)
    <3>1. searches' \subseteq Asked /\ \A t \in searches' : t \in searches \/ t.q = due
      BY <1>0, <2>1, <2>5, FormSearchFacts
    <3>2. due = typed
      BY <2>1, <2>5 DEF AnswersInv
    <3> QED
      BY <1>0, <2>1, <2>5, <3>1, <3>2 DEF AnswersInv
  <2> QED
    BY <2>2, <2>3, <2>4, <2>5
<1>5. ASSUME NEW t \in searches, SearchAnswers(t) PROVE AnswersInv'
  <2>1. searches' = searches \ {t} /\ UNCHANGED <<searchView, typed, due, lastRun, searchOverlapped>>
    BY <1>5, Zenon DEF SearchAnswers
  <2> QED
    BY <2>1 DEF AnswersInv
<1>6. ASSUME NEW p \in Items, Pick(p) PROVE AnswersInv'
  <2>1. UNCHANGED <<searchView, searchOverlapped>>
    BY <1>6, Zenon DEF Pick
  <2>2. \/ searchView \in GridViews /\ handleSearchSelect
        \/ searchView \in {"return", "damage"} /\ ReturnSelect(p)
        \/ searchView = "transfer" /\ handleSelectProduct(p)
    BY <1>6 DEF Pick, DamageSelect, AnswersInv, SearchViews, GridViews
  <2>3. CASE searchView \in GridViews /\ handleSearchSelect
    <3>1. typed' = Blank /\ due' = Off /\ lastRun' = Blank /\ handleProductSearch(Blank)
      BY <2>3, Zenon DEF handleSearchSelect
    <3> QED
      BY <1>0, <2>1, <2>3, <3>1, GridSearchFacts, QueryFacts DEF AnswersInv, GridViews
  <2>4. CASE searchView \in {"return", "damage"} /\ ReturnSelect(p)
    <3>1. typed' \in Queries /\ due' = typed' /\ UNCHANGED <<lastRun, searches>>
      BY <2>4, QueryFacts, Zenon DEF ReturnSelect
    <3> QED
      BY <2>1, <2>4, <3>1 DEF AnswersInv, GridViews
  <2>5. CASE searchView = "transfer" /\ handleSelectProduct(p)
    <3>1. /\ typed' \in Queries /\ due' = typed' /\ lastRun' = lastRun
          /\ (searches' = searches /\ typed' = typed) \/ searches' = Dead(searches)
      BY <2>5, QueryFacts, Zenon DEF handleSelectProduct
    <3>2. /\ searches' \subseteq Asked
          /\ (typed' = typed /\ searches' = searches) \/ \A t \in searches' : ~t.live
      BY <1>0, <3>1, DeadFacts
    <3> QED
      BY <2>1, <2>5, <3>1, <3>2 DEF AnswersInv
  <2> QED
    BY <2>2, <2>3, <2>4, <2>5
<1>7. CASE clearProduct \/ DamageClearProduct
  <2>1. /\ searchView \in {"return", "damage"} /\ typed' = Blank /\ due' = Blank
        /\ UNCHANGED <<searchView, lastRun, searches, searchOverlapped>>
    BY <1>7, Zenon DEF clearProduct, DamageClearProduct, ClearSelection
  <2> QED
    BY <2>1, QueryFacts DEF AnswersInv, GridViews
<1>8. CASE UNCHANGED askVars
  BY <1>8 DEF askVars, AnswersInv
<1>9. StoresUpdated \/ UNCHANGED searchVars => UNCHANGED askVars
  BY Zenon DEF StoresUpdated, searchVars, askVars
<1> QED
  BY <1>1, <1>2, <1>3, <1>4, <1>5, <1>6, <1>7, <1>8, <1>9, Zenon DEF SearchNext

(* The steps that change the pane: a load or a selection that empties it,    *)
(* the timer, and an answer that is accepted.                                *)
LEMMA PaneFollows ==
    ASSUME AnswersInv, [SearchNext]_searchVars,
           searchView \notin {"return", "damage"} \/ ~searchOverlapped'
    PROVE  found' # found => found' \subseteq searchProducts(lastRun')
<1> SUFFICES ASSUME found' # found PROVE found' \subseteq searchProducts(lastRun')
  OBVIOUS
<1>0. searches \subseteq Asked
  BY DEF AnswersInv
<1>1. CASE \/ \E s \in Places : SwitchStore(s) \/ ActiveStoreReplaced(s)
           \/ \E s \in Places, ok \in BOOLEAN : getProductsByStore(s, ok)
           \/ \E q \in Queries : TypeQuery(q)
           \/ clearProduct \/ DamageClearProduct
  <2>1. found' = found \/ found' = {}
    BY <1>1, Zenon DEF SwitchStore, ActiveStoreReplaced, loadProductsWithQty, getProductsByStore,
           TypeQuery,
                       GridTypes, TransferTypes, ReturnTypes, DamageTypes, clearProduct, DamageClearProduct,
                       ClearSelection
  <2> QED
    BY <2>1
<1>2. CASE StoresUpdated
  <2>1. found' = found \/ found' = {}
    BY <1>2, Zenon DEF StoresUpdated, loadAllProducts, SaleLoadAllProducts, loadStoreProducts, fetchData
  <2> QED
    BY <2>1
<1>3. CASE DebounceFires
  <2>1. due \in Queries /\ lastRun' = due
    BY <1>3, Zenon DEF DebounceFires, AnswersInv
  <2>2. handleProductSearch(due) \/ ReturnSearch(due) \/ DamageSearch(due) \/ TransferSearch(due)
    BY <1>3 DEF DebounceFires, SaleProductSearch, CountHandleSearch, AnswersInv, SearchViews, GridViews
  <2>3. found' \in {{}, localMatches(due)}
    BY <1>0, <2>1, <2>2, GridSearchFacts, FormSearchFacts
  <2> QED
    BY <2>1, <2>3, QueryFacts
<1>4. ASSUME NEW t \in searches, SearchAnswers(t) PROVE found' \subseteq searchProducts(lastRun')
  <2>1. /\ t.live \/ searchView \in {"return", "damage"}
        /\ found' \subseteq searchProducts(t.q) /\ UNCHANGED <<lastRun, searchView, searchOverlapped>>
    BY <1>4 DEF SearchAnswers, Accepts
  <2>2. t.q = lastRun
    BY <2>1 DEF AnswersInv, SearchViews
  <2> QED
    BY <2>1, <2>2
<1>5. ASSUME NEW p \in Items, Pick(p) PROVE found' \subseteq searchProducts(lastRun')
  <2>1. handleSearchSelect \/ ReturnSelect(p) \/ handleSelectProduct(p)
    BY <1>5 DEF Pick, DamageSelect, AnswersInv, SearchViews, GridViews
  <2>2. found' = {} \/ (found' = localMatches(Blank) /\ lastRun' = Blank)
    BY <2>1, Zenon DEF handleSearchSelect, handleProductSearch, ReturnSelect, handleSelectProduct
  <2> QED
    BY <2>2, QueryFacts
<1>6. ~UNCHANGED searchVars
  BY Zenon DEF searchVars
<1> QED
  BY <1>1, <1>2, <1>3, <1>4, <1>5, <1>6, Zenon DEF SearchNext

(* No answer that comes late ever overwrites a fresher one: whatever fills   *)
(* the pane answers the last query (searchSeqRef, isMounted), in Return and  *)
(* Damage while their searches do not overlap.                               *)
THEOREM PaneAnswers == SearchInit /\ [][SearchNext]_searchVars => PaneAnswersLastQuery
<1>1. SearchInit => AnswersInv
  <2> SUFFICES ASSUME SearchInit PROVE AnswersInv
    OBVIOUS
  <2>1. /\ searchView \in SearchViews /\ searchOverlapped = FALSE /\ searches = {}
        /\ typed = Blank /\ due = Off
    BY Zenon DEF SearchInit
  <2> QED
    BY <2>1, QueryFacts, Zenon DEF AnswersInv
<1>2. AnswersInv /\ [SearchNext]_searchVars =>
        ((searchView \notin {"return", "damage"} \/ ~searchOverlapped')
           => (found' # found => found' \subseteq searchProducts(lastRun')))
  BY PaneFollows, Zenon
<1> QED
  BY <1>1, <1>2, AnswersKeeps, PTL DEF PaneAnswersLastQuery
-----------------------------------------------------------------------------
Names == {"", "unknown", "a", "b"}
GridRows == [product : Names, qty : Nat, ref : BOOLEAN, committed : BOOLEAN]
PostedRows == [made : Nat, live : BOOLEAN, product : Names, qty : Nat]

(* What the rows, the log and the recorded movements hold.                   *)
RowTypes ==
    /\ rows \in [RowIds -> GridRows] /\ posted \in [RowIds -> PostedRows]
    /\ entryLog \in [RowIds -> Nat] /\ txnIds \in [RowIds -> {"none", "pending", "known"}]
    /\ editing \in [row : Nat, qty : Nat, ref : BOOLEAN]
    /\ \A c \in calls : c.row \in RowIds => c.qty \in Nat /\ c.ref \in BOOLEAN /\ c.product \in Names

(* A row is recorded at most once, and then it is committed and neither      *)
(* refused nor open; a refused row never had a transaction.                  *)
RecordInv(r) ==
    /\ posted[r].made \in {0, 1} /\ (posted[r].live => posted[r].made = 1)
    /\ posted[r].made = 1 => rows[r].committed
    /\ r \in refused => rows[r].committed /\ posted[r].made = 0
    /\ txnIds[r] # "none" => rows[r].committed /\ r \notin refused
    /\ rows[r].committed /\ r \notin refused => Committing(r) \/ posted[r].made = 1

(* The commit under way of a row is the only one: of a committed row that is *)
(* not recorded yet, with the values the row and the log show.               *)
CommitInv(r) ==
    /\ \A c \in calls : c.op = "commit" /\ c.row = r =>
          /\ rows[r].committed /\ posted[r].made = 0 /\ r \notin refused
          /\ c.qty > 0 /\ entryLog[r] = c.qty
          /\ r \notin misled => rows[r].qty = c.qty /\ rows[r].product = c.product
    /\ \A c, d \in calls : c.op = "commit" /\ c.row = r /\ d.op = "commit" /\ d.row = r => c = d

(* A quantity of zero is in open and in refused rows only: no edit sends it. *)
ZeroInv(r) ==
    /\ rows[r].committed /\ rows[r].qty = 0 => r \in refused
    /\ editing.row = r /\ editing.qty = 0 => r \in refused
    /\ \A c \in calls : c.op = "edit" /\ c.row = r => c.qty > 0

(* The grid and the log show what is recorded.                               *)
ShownInv(r) ==
    /\ posted[r].live /\ r \notin misled
           => rows[r].qty = posted[r].qty /\ rows[r].product = posted[r].product
    /\ ~Committing(r) => /\ posted[r].live <=> entryLog[r] > 0
                         /\ entryView = "receive" /\ posted[r].live => entryLog[r] = posted[r].qty

GridInv ==
    /\ RowTypes
    /\ \A r \in RowIds : RecordInv(r) /\ CommitInv(r) /\ ZeroInv(r) /\ ShownInv(r)
-----------------------------------------------------------------------------
gridVars == <<rows, posted, entryLog, calls, refused, misled, editing, txnIds, entryView>>

(* The types, one by one.                                                    *)
LEMMA RowsFact == GridInv => rows \in [RowIds -> GridRows]
  BY Zenon DEF GridInv, RowTypes

(* What is posted for the rows.                                              *)
LEMMA PostedFact == GridInv => posted \in [RowIds -> PostedRows]
  BY Zenon DEF GridInv, RowTypes

(* The log has a number per row.                                             *)
LEMMA LogFact == GridInv => entryLog \in [RowIds -> Nat]
  BY Zenon DEF GridInv, RowTypes

(* What the editor of a row holds.                                           *)
LEMMA EditingFact == GridInv => editing \in [row : Nat, qty : Nat, ref : BOOLEAN]
  BY Zenon DEF GridInv, RowTypes

(* What is known of the movement of a row.                                   *)
LEMMA TxnsFact == GridInv => txnIds \in [RowIds -> {"none", "pending", "known"}]
  BY Zenon DEF GridInv, RowTypes

(* An empty grid satisfies the invariant.                                    *)
LEMMA GridStarts == EntryInit => GridInv
<1> SUFFICES ASSUME EntryInit PROVE GridInv
  OBVIOUS
<1>a. /\ rows = [r \in RowIds |-> EmptyRow] /\ posted = [r \in RowIds |-> NotPosted]
      /\ entryLog = [r \in RowIds |-> 0] /\ calls = {} /\ refused = {} /\ misled = {}
      /\ editing = NoEdit /\ txnIds = [r \in RowIds |-> "none"]
  BY Zenon DEF EntryInit
<1>1. RowTypes
  BY <1>a DEF RowTypes, GridRows, PostedRows, Names, EmptyRow, NotPosted, NoEdit
<1>2. ASSUME NEW r \in RowIds PROVE RecordInv(r) /\ CommitInv(r) /\ ZeroInv(r) /\ ShownInv(r)
  <2>1. /\ ~rows[r].committed /\ posted[r].made = 0 /\ ~posted[r].live /\ entryLog[r] = 0
        /\ editing.qty = 1 /\ txnIds[r] = "none"
    BY <1>a DEF EmptyRow, NotPosted, NoEdit
  <2> QED
    BY <1>a, <2>1 DEF RecordInv, CommitInv, ZeroInv, ShownInv, Committing
<1> QED
  BY <1>1, <1>2, Zenon DEF GridInv

(* Steps of the focus and of the dialogs.                                    *)
LEMMA FocusKeeps == ASSUME GridInv, UNCHANGED gridVars PROVE GridInv'
  BY DEF GridInv, gridVars, RowTypes, RecordInv, CommitInv, ZeroInv, ShownInv, Committing

(* The edit mode: it opens with the values of a committed row.               *)
LEMMA EditModeKeeps ==
    ASSUME GridInv,
           (\E r \in RowIds : startEditing(r)) \/ (\E q \in 1 .. 2, f \in BOOLEAN : EditCell(q, f)) \/ cancelEdit
    PROVE  GridInv'
<1>a. UNCHANGED <<rows, posted, entryLog, calls, refused, misled, txnIds, entryView>>
  BY Zenon DEF startEditing, EditCell, cancelEdit
<1>b. \/ \E r \in RowIds : rows[r].committed /\ editing' = [row |-> r, qty |-> rows[r].qty, ref |-> rows[r].ref]
      \/ \E q \in 1 .. 2, f \in BOOLEAN : editing' = [editing EXCEPT !.qty = q, !.ref = f]
      \/ editing' = NoEdit
  BY Zenon DEF startEditing, EditCell, cancelEdit, EditOffered
<1>d. NoEdit \in [row : Nat, qty : Nat, ref : BOOLEAN] /\ NoEdit.qty = 1
  BY DEF NoEdit
<1>c. /\ editing' \in [row : Nat, qty : Nat, ref : BOOLEAN]
      /\ \A r \in RowIds : editing'.row = r /\ editing'.qty = 0 => r \in refused
  <2>1. ASSUME NEW r \in RowIds, rows[r].committed, editing' = [row |-> r, qty |-> rows[r].qty, ref |-> rows[r].ref]
        PROVE  <1>c!1 /\ <1>c!2
    <3>1. rows[r].qty = 0 => r \in refused
      BY <2>1 DEF GridInv, ZeroInv
    <3> QED
      BY <2>1, <3>1, RowsFact, EntryAssumption DEF GridRows, RowIds
  <2>2. ASSUME NEW q \in 1 .. 2, NEW f \in BOOLEAN, editing' = [editing EXCEPT !.qty = q, !.ref = f]
        PROVE  <1>c!1 /\ <1>c!2
    <3>1. /\ editing' \in [row : Nat, qty : Nat, ref : BOOLEAN] /\ editing'.qty = q
      <4>1. \A e \in [row : Nat, qty : Nat, ref : BOOLEAN], n \in Nat, b \in BOOLEAN :
                LET new == [e EXCEPT !.qty = n, !.ref = b]
                IN  new \in [row : Nat, qty : Nat, ref : BOOLEAN] /\ new.qty = n
        OBVIOUS
      <4>2. q \in Nat
        OBVIOUS
      <4> QED
        BY <2>2, <4>1, <4>2, EditingFact, Zenon
    <3> QED
      BY <3>1
  <2>3. ASSUME editing' = NoEdit PROVE <1>c!1 /\ <1>c!2
    BY <1>d, <2>3
  <2> QED
    BY <1>b, <2>1, <2>2, <2>3, Zenon
<1>1. RowTypes'
  BY <1>a, <1>c DEF GridInv, RowTypes
<1>2. ASSUME NEW r \in RowIds PROVE (RecordInv(r) /\ CommitInv(r) /\ ShownInv(r))'
  BY <1>a DEF GridInv, RecordInv, CommitInv, ShownInv, Committing
<1>3. ASSUME NEW r \in RowIds PROVE ZeroInv(r)'
  BY <1>a, <1>c DEF GridInv, ZeroInv
<1> QED
  BY <1>1, <1>2, <1>3, Zenon DEF GridInv

(* The cells of an open row change: it is neither recorded nor under way.    *)
LEMMA OpenRowKeeps ==
    ASSUME GridInv, (\E v \in Cells : handleFieldChange(v)) \/ clearRow
    PROVE  GridInv'
<1>a. /\ UNCHANGED <<posted, entryLog, calls, refused, misled, editing, txnIds, entryView>>
      /\ ~rows[activeRow].committed
  BY Zenon DEF handleFieldChange, clearRow
<1>b. \/ \E v \in Cells : rows' = [rows EXCEPT ![activeRow].product = v.product, ![activeRow].qty = v.qty,
                                               ![activeRow].ref = v.ref]
      \/ rows' = [rows EXCEPT ![activeRow] = EmptyRow]
  BY Zenon DEF handleFieldChange, clearRow
<1>c. ASSUME NEW v \in Cells PROVE v \in [product : Names, qty : Nat, ref : BOOLEAN]
  <2>1. \A p \in Names, q \in Nat, f \in BOOLEAN :
            [product |-> p, qty |-> q, ref |-> f] \in [product : Names, qty : Nat, ref : BOOLEAN]
    OBVIOUS
  <2>2. "unknown" \in Names /\ "a" \in Names /\ 0 \in Nat /\ 1 \in Nat
    BY DEF Names
  <2> QED
    BY <2>1, <2>2, Zenon DEF Cells
<1>d. /\ rows' \in [RowIds -> GridRows]
      /\ \A r \in RowIds : /\ rows'[r].committed = rows[r].committed
                           /\ rows[r].committed => rows'[r] = rows[r]
  <2>1. ASSUME NEW v \in Cells, rows' = [rows EXCEPT ![activeRow].product = v.product,
                                                    ![activeRow].qty = v.qty, ![activeRow].ref = v.ref]
        PROVE  <1>d!1 /\ <1>d!2
    BY <1>a, <1>c, <2>1, RowsFact DEF GridRows
  <2>2. ASSUME rows' = [rows EXCEPT ![activeRow] = EmptyRow] PROVE <1>d!1 /\ <1>d!2
    BY <1>a, <2>2, RowsFact DEF GridRows, EmptyRow, Names
  <2> QED
    BY <1>b, <2>1, <2>2, Zenon
<1>1. RowTypes'
  BY <1>a, <1>d DEF GridInv, RowTypes
<1>2. ASSUME NEW r \in RowIds PROVE (RecordInv(r) /\ CommitInv(r) /\ ZeroInv(r) /\ ShownInv(r))'
  <2>1. posted[r].live => rows[r].committed
    BY DEF GridInv, RecordInv
  <2>2. RecordInv(r)'
    BY <1>a, <1>d DEF GridInv, RecordInv, Committing
  <2>3. CommitInv(r)'
    BY <1>a, <1>d DEF GridInv, CommitInv
  <2>4. ZeroInv(r)'
    BY <1>a, <1>d DEF GridInv, ZeroInv
  <2>5. ShownInv(r)'
    BY <1>a, <1>d, <2>1 DEF GridInv, ShownInv, Committing
  <2> QED
    BY <2>2, <2>3, <2>4, <2>5, Zenon
<1> QED
  BY <1>1, <1>2, Zenon DEF GridInv

(* A product of the pane: a committed row that receives one is misled.       *)
LEMMA PaneKeeps == ASSUME GridInv, handleSearchPanelSelect PROVE GridInv'
<1>a. /\ UNCHANGED <<posted, entryLog, calls, refused, editing, txnIds, entryView>>
      /\ rows' = [rows EXCEPT ![activeRow].product = "b"]
      /\ misled \subseteq misled' /\ (rows[activeRow].committed => activeRow \in misled')
  BY Zenon DEF handleSearchPanelSelect
<1>b. /\ rows' \in [RowIds -> GridRows]
      /\ \A r \in RowIds : /\ rows'[r].committed = rows[r].committed /\ rows'[r].qty = rows[r].qty
                           /\ rows[r].committed => (rows'[r] = rows[r] \/ r \in misled')
  BY <1>a, RowsFact DEF GridRows, Names
<1>1. RowTypes'
  BY <1>a, <1>b DEF GridInv, RowTypes
<1>2. ASSUME NEW r \in RowIds PROVE (RecordInv(r) /\ CommitInv(r) /\ ZeroInv(r) /\ ShownInv(r))'
  <2>1. posted[r].live => rows[r].committed
    BY DEF GridInv, RecordInv
  <2>2. RecordInv(r)'
    BY <1>a, <1>b DEF GridInv, RecordInv, Committing
  <2>3. CommitInv(r)'
    BY <1>a, <1>b DEF GridInv, CommitInv
  <2>4. ZeroInv(r)'
    BY <1>a, <1>b DEF GridInv, ZeroInv
  <2>5. ShownInv(r)'
    BY <1>a, <1>b, <2>1 DEF GridInv, ShownInv, Committing
  <2> QED
    BY <2>2, <2>3, <2>4, <2>5, Zenon
<1> QED
  BY <1>1, <1>2, Zenon DEF GridInv

(* A row is marked: its command is sent, or its values are refused.          *)
LEMMA CommitRowKeeps == ASSUME GridInv, NEW a, commitRow(a) PROVE GridInv'
<1> DEFINE sentCall == [op |-> "commit", row |-> a, qty |-> rows[a].qty, ref |-> rows[a].ref,
                        product |-> rows[a].product, txn |-> "none"]
<1>a. /\ UNCHANGED <<posted, misled, editing, entryView>>
      /\ ~rows[a].committed /\ rows' = [rows EXCEPT ![a].committed = TRUE]
  BY Zenon DEF commitRow, CanCommit
<1>b. /\ rows' \in [RowIds -> GridRows] /\ (a \in RowIds => rows'[a].committed)
      /\ \A r \in RowIds : /\ rows'[r].qty = rows[r].qty /\ rows'[r].product = rows[r].product
                           /\ r # a => rows'[r] = rows[r]
  BY <1>a, RowsFact DEF GridRows
<1>c. ASSUME a \in RowIds
      PROVE  /\ posted[a].made = 0 /\ ~posted[a].live /\ a \notin refused /\ ~Committing(a)
  <2>1. ~Committing(a)
    BY <1>a, <1>c DEF GridInv, CommitInv, Committing
  <2> QED
    BY <1>a, <1>c, <2>1 DEF GridInv, RecordInv
<1>1. CASE Accepted(rows[a])
  <2>a. /\ calls' = calls \cup {sentCall} /\ txnIds' = [txnIds EXCEPT ![a] = "pending"]
        /\ entryLog' = [entryLog EXCEPT ![a] = rows[a].qty] /\ refused' = refused
    BY <1>1, Zenon DEF commitRow
  <2>b. rows[a].qty > 0
    BY <1>1, Zenon DEF Accepted, ReceiveAccepts, SaleAccepts
  <2>c. /\ sentCall.op = "commit" /\ sentCall.row = a /\ sentCall.qty = rows[a].qty
        /\ sentCall.product = rows[a].product
    OBVIOUS
  <2>d. a \in RowIds => sentCall.qty \in Nat /\ sentCall.ref \in BOOLEAN /\ sentCall.product \in Names
    BY DEF GridInv, RowTypes, GridRows
  <2> HIDE DEF sentCall
  <2>1. RowTypes'
    BY <1>a, <1>b, <2>a, <2>c, <2>d DEF GridInv, RowTypes, GridRows
  <2>2. ASSUME NEW r \in RowIds PROVE (RecordInv(r) /\ CommitInv(r) /\ ZeroInv(r) /\ ShownInv(r))'
    <3>a. entryLog'[r] = (IF r = a THEN rows[a].qty ELSE entryLog[r]) /\ (r # a => txnIds'[r] = txnIds[r])
      BY <2>a DEF GridInv, RowTypes
    <3>1. CASE r = a
      <4>1. Committing(r)'
        BY <2>a, <2>c, <3>1 DEF Committing
      <4>2. RecordInv(r)'
        BY <1>a, <1>b, <1>c, <2>a, <3>1, <4>1 DEF GridInv, RecordInv
      <4>3. CommitInv(r)'
        BY <1>a, <1>b, <1>c, <2>a, <2>b, <2>c, <3>a, <3>1 DEF CommitInv, Committing
      <4>4. ZeroInv(r)'
        BY <1>a, <1>b, <2>a, <2>b, <2>c, <3>1 DEF GridInv, ZeroInv
      <4>5. ShownInv(r)'
        BY <1>a, <1>c, <3>1, <4>1 DEF ShownInv
      <4> QED
        BY <4>2, <4>3, <4>4, <4>5, Zenon
    <3>2. CASE r # a
      <4>1. Committing(r)' <=> Committing(r)
        BY <2>a, <2>c, <3>2 DEF Committing
      <4>2. RecordInv(r)'
        BY <1>a, <1>b, <2>a, <3>a, <3>2, <4>1 DEF GridInv, RecordInv
      <4>3. CommitInv(r)'
        BY <1>a, <1>b, <2>a, <2>c, <3>a, <3>2 DEF GridInv, CommitInv
      <4>4. ZeroInv(r)'
        BY <1>a, <1>b, <2>a, <2>c, <3>2 DEF GridInv, ZeroInv
      <4>5. ShownInv(r)'
        BY <1>a, <1>b, <3>a, <3>2, <4>1 DEF GridInv, ShownInv
      <4> QED
        BY <4>2, <4>3, <4>4, <4>5, Zenon
    <3> QED
      BY <3>1, <3>2
  <2> QED
    BY <2>1, <2>2, Zenon DEF GridInv
<1>2. CASE ~Accepted(rows[a])
  <2>a. /\ UNCHANGED <<calls, txnIds, entryLog>> /\ refused' = refused \cup {a}
    BY <1>2, Zenon DEF commitRow
  <2>1. RowTypes'
    BY <1>a, <1>b, <2>a DEF GridInv, RowTypes
  <2>2. ASSUME NEW r \in RowIds PROVE (RecordInv(r) /\ CommitInv(r) /\ ZeroInv(r) /\ ShownInv(r))'
    <3>1. Committing(r)' <=> Committing(r)
      BY <2>a DEF Committing
    <3>2. RecordInv(r)'
      BY <1>a, <1>b, <1>c, <2>a, <3>1 DEF GridInv, RecordInv
    <3>3. CommitInv(r)'
      BY <1>a, <1>b, <1>c, <2>a DEF GridInv, CommitInv, Committing
    <3>4. ZeroInv(r)'
      BY <1>a, <1>b, <2>a DEF GridInv, ZeroInv
    <3>5. ShownInv(r)'
      BY <1>a, <1>b, <2>a, <3>1 DEF GridInv, ShownInv
    <3> QED
      BY <3>2, <3>3, <3>4, <3>5, Zenon
  <2> QED
    BY <2>1, <2>2, Zenon DEF GridInv
<1> QED
  BY <1>1, <1>2
(* A command is answered: the row is recorded, or given back.                *)
LEMMA CommitAnswersKeeps ==
    ASSUME GridInv, NEW c \in calls, NEW ok \in BOOLEAN, CommitAnswers(c, ok) PROVE GridInv'
<1>a. /\ UNCHANGED <<refused, misled, editing, entryView>> /\ calls' = calls \ {c} /\ c.op = "commit"
  BY Zenon DEF CommitAnswers
<1>b. ReceiveCommitAnswers(c, ok)
  BY Zenon DEF CommitAnswers, SaleCommitAnswers
<1>c. ASSUME c.row \in RowIds
      PROVE  /\ rows[c.row].committed /\ posted[c.row].made = 0 /\ c.row \notin refused
             /\ c.qty > 0 /\ entryLog[c.row] = c.qty
             /\ c.row \notin misled => rows[c.row].qty = c.qty /\ rows[c.row].product = c.product
             /\ \A d \in calls' : ~(d.op = "commit" /\ d.row = c.row)
             /\ c.qty \in Nat /\ c.product \in Names
  <2>1. CommitInv(c.row)
    BY <1>c DEF GridInv
  <2>2. c.qty \in Nat /\ c.product \in Names
    BY <1>c, Zenon DEF GridInv, RowTypes
  <2> QED
    BY <1>a, <2>1, <2>2 DEF CommitInv
<1>d. \A r \in RowIds : r # c.row => (Committing(r)' <=> Committing(r))
  BY <1>a DEF Committing
<1>e. c.row \in RowIds => ~Committing(c.row)'
  BY <1>c DEF Committing
<1>f. \A d \in calls' : d \in calls
  BY <1>a
<1>1. CASE ok
  <2>a. /\ posted' = [posted EXCEPT ![c.row] = [made |-> posted[c.row].made + 1, live |-> TRUE,
                                                product |-> c.product, qty |-> c.qty]]
        /\ txnIds' = [txnIds EXCEPT ![c.row] = "known"] /\ UNCHANGED <<rows, entryLog>>
    BY <1>1, <1>b DEF ReceiveCommitAnswers
  <2>b. ASSUME c.row \in RowIds
        PROVE  /\ posted'[c.row].made = 1 /\ posted'[c.row].live /\ posted'[c.row].qty = c.qty
               /\ posted'[c.row].product = c.product
    BY <1>c, <2>a, <2>b, PostedFact
  <2>c. \A r \in RowIds : r # c.row => posted'[r] = posted[r] /\ txnIds'[r] = txnIds[r]
    BY <2>a, PostedFact, TxnsFact
  <2>d. posted' \in [RowIds -> PostedRows]
    <3>1. \A m \in Nat, b \in BOOLEAN, p \in Names, q \in Nat :
              [made |-> m, live |-> b, product |-> p, qty |-> q] \in PostedRows
      BY DEF PostedRows
    <3>2. c.row \in RowIds => posted[c.row].made + 1 \in Nat
      BY <1>c
    <3>3. c.row \in RowIds => [made |-> posted[c.row].made + 1, live |-> TRUE, product |-> c.product,
                               qty |-> c.qty] \in PostedRows
      BY <1>c, <3>1, <3>2, Zenon
    <3> QED
      BY <2>a, <3>3, PostedFact
  <2>1. RowTypes'
    <3>1. txnIds' \in [RowIds -> {"none", "pending", "known"}]
      BY <2>a, TxnsFact
    <3> QED
      BY <1>a, <1>f, <2>a, <2>d, <3>1, Zenon DEF GridInv, RowTypes
  <2>2. ASSUME NEW r \in RowIds PROVE (RecordInv(r) /\ CommitInv(r) /\ ZeroInv(r) /\ ShownInv(r))'
    <3>1. RecordInv(r)'
      BY <1>a, <1>c, <1>d, <1>e, <2>a, <2>b, <2>c DEF GridInv, RecordInv
    <3>2. CommitInv(r)'
      BY <1>a, <1>c, <1>f, <2>a, <2>c DEF GridInv, CommitInv
    <3>3. ZeroInv(r)'
      BY <1>a, <1>f, <2>a DEF GridInv, ZeroInv
    <3>4. ShownInv(r)'
      BY <1>a, <1>c, <1>d, <1>e, <2>a, <2>b, <2>c DEF GridInv, ShownInv
    <3> QED
      BY <3>1, <3>2, <3>3, <3>4, Zenon
  <2> QED
    BY <2>1, <2>2, Zenon DEF GridInv
<1>2. CASE ~ok
  <2>a. /\ rows' = [rows EXCEPT ![c.row].committed = FALSE] /\ entryLog' = [entryLog EXCEPT ![c.row] = 0]
        /\ txnIds' = [txnIds EXCEPT ![c.row] = "none"] /\ UNCHANGED posted
    BY <1>2, <1>b DEF ReceiveCommitAnswers, RollBack
  <2>b. /\ rows' \in [RowIds -> GridRows] /\ (c.row \in RowIds => ~rows'[c.row].committed)
        /\ \A r \in RowIds : r # c.row => rows'[r] = rows[r]
    BY <2>a, RowsFact DEF GridRows
  <2>c. /\ entryLog' \in [RowIds -> Nat] /\ txnIds' \in [RowIds -> {"none", "pending", "known"}]
        /\ c.row \in RowIds => entryLog'[c.row] = 0 /\ txnIds'[c.row] = "none"
        /\ \A r \in RowIds : r # c.row => entryLog'[r] = entryLog[r] /\ txnIds'[r] = txnIds[r]
    BY <2>a, LogFact, TxnsFact
  <2>d. c.row \in RowIds => ~posted[c.row].live
    BY <1>c DEF GridInv, RecordInv
  <2>1. RowTypes'
    BY <1>a, <1>f, <2>a, <2>b, <2>c, Zenon DEF GridInv, RowTypes
  <2>2. ASSUME NEW r \in RowIds PROVE (RecordInv(r) /\ CommitInv(r) /\ ZeroInv(r) /\ ShownInv(r))'
    <3>1. RecordInv(r)'
      BY <1>a, <1>c, <1>d, <1>e, <2>a, <2>b, <2>c, <2>d DEF GridInv, RecordInv
    <3>2. CommitInv(r)'
      BY <1>a, <1>c, <1>f, <2>a, <2>b, <2>c DEF GridInv, CommitInv
    <3>3. ZeroInv(r)'
      BY <1>a, <1>f, <2>a, <2>b DEF GridInv, ZeroInv
    <3>4. ShownInv(r)'
      BY <1>a, <1>d, <1>e, <2>a, <2>b, <2>c, <2>d DEF GridInv, ShownInv
    <3> QED
      BY <3>1, <3>2, <3>3, <3>4, Zenon
  <2> QED
    BY <2>1, <2>2, Zenon DEF GridInv
<1> QED
  BY <1>1, <1>2

(* commitEdit: nothing is saved and the row is misled, or the edit is sent.  *)
LEMMA CommitEditKeeps == ASSUME GridInv, commitEdit PROVE GridInv'
<1>a. UNCHANGED <<posted, entryLog, txnIds, refused, entryView>>
  BY Zenon DEF commitEdit
<1>1. CASE RefusesEdit(editing)
  <2>a. /\ rows' = [rows EXCEPT ![editing.row].qty = editing.qty, ![editing.row].ref = editing.ref]
        /\ misled' = misled \cup {editing.row} /\ editing' = NoEdit /\ calls' = calls
    BY <1>1, Zenon DEF commitEdit, patchRowValues
  <2>b. editing.qty \in Nat /\ editing.ref \in BOOLEAN
    BY EditingFact
  <2>c. /\ rows' \in [RowIds -> GridRows]
        /\ \A r \in RowIds : /\ rows'[r].committed = rows[r].committed
                             /\ rows'[r] = rows[r] \/ (r = editing.row /\ rows'[r].qty = editing.qty)
    BY <2>a, <2>b, RowsFact DEF GridRows
  <2>d. editing'.qty = 1 /\ editing' \in [row : Nat, qty : Nat, ref : BOOLEAN]
    BY <2>a DEF NoEdit
  <2>e. \A r \in RowIds : r \notin misled' => r \notin misled /\ rows'[r] = rows[r]
    BY <2>a, <2>c
  <2>1. RowTypes'
    BY <1>a, <2>a, <2>c, <2>d, Zenon DEF GridInv, RowTypes
  <2>2. ASSUME NEW r \in RowIds PROVE (RecordInv(r) /\ CommitInv(r) /\ ZeroInv(r) /\ ShownInv(r))'
    <3>1. RecordInv(r)'
      BY <1>a, <2>a, <2>c DEF GridInv, RecordInv, Committing
    <3>2. CommitInv(r)'
      BY <1>a, <2>a, <2>c, <2>e DEF GridInv, CommitInv
    <3>3. ZeroInv(r)'
      BY <1>a, <2>a, <2>c, <2>d DEF GridInv, ZeroInv
    <3>4. ShownInv(r)'
      BY <1>a, <2>a, <2>e DEF GridInv, ShownInv, Committing
    <3> QED
      BY <3>1, <3>2, <3>3, <3>4, Zenon
  <2> QED
    BY <2>1, <2>2, Zenon DEF GridInv
<1>2. CASE ~RefusesEdit(editing)
  <2> DEFINE edit == [op |-> "edit", row |-> editing.row, qty |-> editing.qty, ref |-> editing.ref,
                      product |-> "", txn |-> txnIds[editing.row]]
  <2>a. calls' = calls \cup {edit} /\ UNCHANGED <<rows, misled, editing>>
    BY <1>2, Zenon DEF commitEdit
  <2>b. txnIds[editing.row] # "none"
    BY <1>2, Zenon DEF RefusesEdit, ReceiveRefusesEdit, SaleRefusesEdit
  <2>c. /\ edit.op = "edit" /\ edit.row = editing.row /\ edit.qty = editing.qty /\ edit.qty \in Nat
        /\ edit.ref \in BOOLEAN /\ edit.product \in Names
    BY EditingFact DEF Names
  <2> HIDE DEF edit
  <2>1. RowTypes'
    BY <1>a, <2>a, <2>c DEF GridInv, RowTypes
  <2>2. ASSUME NEW r \in RowIds PROVE (RecordInv(r) /\ CommitInv(r) /\ ZeroInv(r) /\ ShownInv(r))'
    <3>a. Committing(r)' <=> Committing(r)
      BY <2>a, <2>c DEF Committing
    <3>1. RecordInv(r)'
      BY <1>a, <2>a, <3>a DEF GridInv, RecordInv
    <3>2. CommitInv(r)'
      BY <1>a, <2>a, <2>c DEF GridInv, CommitInv
    <3>3. ZeroInv(r)'
      <4>1. editing.row = r => editing.qty # 0
        BY <2>b DEF GridInv, ZeroInv, RecordInv
      <4> QED
        BY <1>a, <2>a, <2>c, <4>1 DEF GridInv, ZeroInv
    <3>4. ShownInv(r)'
      BY <1>a, <2>a, <3>a DEF GridInv, ShownInv
    <3> QED
      BY <3>1, <3>2, <3>3, <3>4, Zenon
  <2> QED
    BY <2>1, <2>2, Zenon DEF GridInv
<1> QED
  BY <1>1, <1>2
(* The answer to an edit: of a live movement and its row, or of nothing.     *)
LEMMA EditAnswersKeeps ==
    ASSUME GridInv, NEW c \in calls, NEW ok \in BOOLEAN, EditAnswers(c, ok) PROVE GridInv'
<1>a. /\ UNCHANGED <<txnIds, refused, entryView>> /\ calls' = calls \ {c} /\ c.op = "edit"
      /\ editing' = NoEdit /\ (ok => posted[c.row].live)
      /\ rows' = [rows EXCEPT ![c.row].qty = c.qty, ![c.row].ref = c.ref]
      /\ misled \subseteq misled' /\ misled' \subseteq misled \cup {c.row}
      /\ ~ok => c.row \in misled'
  BY Zenon DEF EditAnswers, patchRowValues
<1>b. /\ posted' = IF ok THEN [posted EXCEPT ![c.row].qty = c.qty] ELSE posted
      /\ \/ entryLog' = entryLog
         \/ ok /\ entryLog[c.row] > 0 /\ entryLog' = [entryLog EXCEPT ![c.row] = c.qty]
      /\ entryView = "receive" => entryLog' = IF ok /\ entryLog[c.row] > 0
                                             THEN [entryLog EXCEPT ![c.row] = c.qty] ELSE entryLog
  BY Zenon DEF EditAnswers, ReceiveEditAnswers, SaleEditAnswers
<1>c. c.row \in RowIds => c.qty > 0 /\ c.qty \in Nat /\ c.ref \in BOOLEAN
  BY <1>a DEF GridInv, ZeroInv, RowTypes
<1>d. /\ rows' \in [RowIds -> GridRows]
      /\ \A r \in RowIds : /\ rows'[r].committed = rows[r].committed /\ rows'[r].product = rows[r].product
                           /\ rows'[r].qty = IF r = c.row THEN c.qty ELSE rows[r].qty
  BY <1>a, <1>c, RowsFact DEF GridRows
<1>e. editing'.qty = 1 /\ editing' \in [row : Nat, qty : Nat, ref : BOOLEAN]
  BY <1>a DEF NoEdit
<1>f. \A d \in calls' : d \in calls
  BY <1>a
<1>g. \A r \in RowIds : Committing(r)' <=> Committing(r)
  BY <1>a DEF Committing
<1>h. /\ posted' \in [RowIds -> PostedRows]
      /\ \A r \in RowIds : /\ posted'[r].made = posted[r].made /\ posted'[r].live = posted[r].live
                           /\ posted'[r].product = posted[r].product
                           /\ posted'[r].qty = IF ok /\ r = c.row THEN c.qty ELSE posted[r].qty
  BY <1>b, <1>c, PostedFact DEF PostedRows
<1>i. /\ entryLog' \in [RowIds -> Nat]
      /\ \A r \in RowIds : /\ entryLog'[r] = entryLog[r] \/ (ok /\ r = c.row /\ entryLog[r] > 0 /\ entryLog'[r] = c.qty)
                           /\ entryView = "receive" /\ r # c.row => entryLog'[r] = entryLog[r]
                           /\ entryView = "receive" /\ ~ok => entryLog'[r] = entryLog[r]
                           /\ entryView = "receive" /\ r = c.row /\ ok /\ entryLog[r] > 0 => entryLog'[r] = c.qty
  BY <1>b, <1>c, LogFact
<1>1. RowTypes'
  BY <1>a, <1>d, <1>e, <1>f, <1>h, <1>i, Zenon DEF GridInv, RowTypes
<1>2. ASSUME NEW r \in RowIds PROVE (RecordInv(r) /\ CommitInv(r) /\ ZeroInv(r) /\ ShownInv(r))'
  <2>a. r # c.row \/ ok \/ r \in misled'
    BY <1>a
  <2>b. /\ r = c.row /\ ok => posted[r].live /\ posted[r].made = 1
        /\ Committing(r) => ~posted[r].live /\ posted[r].made = 0
    BY <1>a DEF GridInv, RecordInv, CommitInv, Committing
  <2>1. RecordInv(r)'
    BY <1>a, <1>d, <1>g, <1>h DEF GridInv, RecordInv
  <2>2. CommitInv(r)'
    <3>1. ASSUME NEW d \in calls', d.op = "commit", d.row = r
          PROVE  /\ rows'[r].committed /\ posted'[r].made = 0 /\ r \notin refused'
                 /\ d.qty > 0 /\ entryLog'[r] = d.qty
                 /\ r \notin misled' => rows'[r].qty = d.qty /\ rows'[r].product = d.product
      <4>1. /\ rows[r].committed /\ posted[r].made = 0 /\ r \notin refused /\ d.qty > 0 /\ entryLog[r] = d.qty
            /\ r \notin misled => rows[r].qty = d.qty /\ rows[r].product = d.product
        BY <1>f, <3>1 DEF GridInv, CommitInv
      <4>2. ~(r = c.row /\ ok)
        BY <2>b, <4>1
      <4>3. r \notin misled' => r # c.row /\ r \notin misled
        BY <1>a, <2>a, <4>2
      <4> QED
        BY <1>a, <1>d, <1>h, <1>i, <4>1, <4>2, <4>3
    <3>2. \A d, e \in calls' : d.op = "commit" /\ d.row = r /\ e.op = "commit" /\ e.row = r => d = e
      BY <1>f DEF GridInv, CommitInv
    <3> QED
      BY <3>1, <3>2, Zenon DEF CommitInv
  <2>3. ZeroInv(r)'
    BY <1>a, <1>c, <1>d, <1>e, <1>f DEF GridInv, ZeroInv
  <2>4. ShownInv(r)'
    <3>1. posted'[r].live /\ r \notin misled'
              => rows'[r].qty = posted'[r].qty /\ rows'[r].product = posted'[r].product
      BY <1>a, <1>d, <1>h, <2>a DEF GridInv, ShownInv
    <3>2. ~Committing(r)' => (posted'[r].live <=> entryLog'[r] > 0)
      BY <1>c, <1>g, <1>h, <1>i DEF GridInv, ShownInv
    <3>3. ~Committing(r)' /\ entryView' = "receive" /\ posted'[r].live => entryLog'[r] = posted'[r].qty
      BY <1>a, <1>g, <1>h, <1>i DEF GridInv, ShownInv
    <3> QED
      BY <3>1, <3>2, <3>3, Zenon DEF ShownInv
  <2> QED
    BY <2>1, <2>2, <2>3, <2>4, Zenon
<1> QED
  BY <1>1, <1>2, Zenon DEF GridInv

(* A deletion is sent.                                                       *)
LEMMA ConfirmDeleteKeeps == ASSUME GridInv, confirmDelete PROVE GridInv'
<1> DEFINE deletion == [op |-> "delete", row |-> confirming, qty |-> 0, ref |-> FALSE, product |-> "",
                        txn |-> txnIds[confirming]]
<1>a. /\ UNCHANGED <<rows, posted, entryLog, refused, misled, editing, txnIds, entryView>>
      /\ calls' = calls \/ calls' = calls \cup {deletion}
  BY Zenon DEF confirmDelete
<1>b. deletion.op = "delete" /\ deletion.qty \in Nat /\ deletion.product \in Names
  BY DEF Names
<1>c. deletion.ref \in BOOLEAN
  BY Zenon
<1> HIDE DEF deletion
<1>1. RowTypes'
  BY <1>a, <1>b, <1>c, Zenon DEF GridInv, RowTypes
<1>2. ASSUME NEW r \in RowIds PROVE (RecordInv(r) /\ CommitInv(r) /\ ZeroInv(r) /\ ShownInv(r))'
  <2>a. Committing(r)' <=> Committing(r)
    BY <1>a, <1>b DEF Committing
  <2>1. RecordInv(r)'
    BY <1>a, <2>a DEF GridInv, RecordInv
  <2>2. CommitInv(r)'
    BY <1>a, <1>b DEF GridInv, CommitInv
  <2>3. ZeroInv(r)'
    BY <1>a, <1>b DEF GridInv, ZeroInv
  <2>4. ShownInv(r)'
    BY <1>a, <2>a DEF GridInv, ShownInv
  <2> QED
    BY <2>1, <2>2, <2>3, <2>4, Zenon
<1> QED
  BY <1>1, <1>2, Zenon DEF GridInv

(* A deletion is answered: the movement, its entry and its id go together.   *)
LEMMA DeleteAnswersKeeps ==
    ASSUME GridInv, NEW c \in calls, NEW ok \in BOOLEAN, DeleteAnswers(c, ok) PROVE GridInv'
<1>a. /\ UNCHANGED <<rows, refused, misled, editing, entryView>> /\ calls' = calls \ {c}
      /\ c.op = "delete" /\ (ok => posted[c.row].live)
  BY Zenon DEF DeleteAnswers
<1>b. \/ UNCHANGED <<posted, entryLog, txnIds>>
      \/ /\ ok /\ posted' = [posted EXCEPT ![c.row].live = FALSE]
         /\ entryLog' = [entryLog EXCEPT ![c.row] = 0] /\ txnIds' = [txnIds EXCEPT ![c.row] = "none"]
  BY Zenon DEF DeleteAnswers, ReceiveDeleteAnswers, SaleDeleteAnswers
<1>c. /\ posted' \in [RowIds -> PostedRows]
      /\ \A r \in RowIds : /\ posted'[r].made = posted[r].made /\ posted'[r].qty = posted[r].qty
                           /\ posted'[r].product = posted[r].product
                           /\ posted'[r].live => posted[r].live
  <2>1. ASSUME NEW b \in BOOLEAN, posted' = [posted EXCEPT ![c.row].live = b], ~b
        PROVE  <1>c!1 /\ <1>c!2
    BY <2>1, PostedFact DEF PostedRows
  <2>2. CASE posted' = [posted EXCEPT ![c.row].live = FALSE]
    BY <2>1, <2>2, Zenon
  <2> QED
    BY <1>b, <2>2, PostedFact, Zenon
<1>d. entryLog' \in [RowIds -> Nat] /\ txnIds' \in [RowIds -> {"none", "pending", "known"}]
  BY <1>b, LogFact, TxnsFact
<1>e. \A r \in RowIds : \/ posted'[r] = posted[r] /\ entryLog'[r] = entryLog[r] /\ txnIds'[r] = txnIds[r]
                        \/ posted[r].live /\ ~posted'[r].live /\ entryLog'[r] = 0 /\ txnIds'[r] = "none"
  BY <1>a, <1>b, PostedFact, LogFact, TxnsFact DEF PostedRows
<1>f. \A d \in calls' : d \in calls
  BY <1>a
<1>1. RowTypes'
  BY <1>a, <1>c, <1>d, <1>f, Zenon DEF GridInv, RowTypes
<1>2. ASSUME NEW r \in RowIds PROVE (RecordInv(r) /\ CommitInv(r) /\ ZeroInv(r) /\ ShownInv(r))'
  <2>a. Committing(r)' <=> Committing(r)
    BY <1>a DEF Committing
  <2>b. Committing(r) => ~posted[r].live
    BY DEF GridInv, RecordInv, CommitInv, Committing
  <2>1. RecordInv(r)'
    BY <1>a, <1>c, <1>e, <2>a DEF GridInv, RecordInv
  <2>2. CommitInv(r)'
    BY <1>a, <1>c, <1>e, <1>f, <2>b DEF GridInv, CommitInv, Committing
  <2>3. ZeroInv(r)'
    BY <1>a, <1>f DEF GridInv, ZeroInv
  <2>4. ShownInv(r)'
    BY <1>a, <1>c, <1>e, <2>a, <2>b DEF GridInv, ShownInv
  <2> QED
    BY <2>1, <2>2, <2>3, <2>4, Zenon
<1> QED
  BY <1>1, <1>2, Zenon DEF GridInv

(* A switch of store forgets the ids.                                        *)
LEMMA ForgetKeeps == ASSUME GridInv, forgetTxnIds PROVE GridInv'
<1>a. /\ UNCHANGED <<rows, posted, entryLog, calls, refused, misled, editing, entryView>>
      /\ txnIds' = [r \in RowIds |-> "none"]
  BY Zenon DEF forgetTxnIds
<1>1. RowTypes'
  <2>1. txnIds' \in [RowIds -> {"none", "pending", "known"}]
    BY <1>a
  <2> QED
    BY <1>a, <2>1, Zenon DEF GridInv, RowTypes
<1>2. ASSUME NEW r \in RowIds PROVE (RecordInv(r) /\ CommitInv(r) /\ ZeroInv(r) /\ ShownInv(r))'
  BY <1>a DEF GridInv, RecordInv, CommitInv, ZeroInv, ShownInv, Committing
<1> QED
  BY <1>1, <1>2, Zenon DEF GridInv

(* Every step of the grid keeps its invariant.                               *)
LEMMA EntryKeeps == GridInv /\ [EntryNext]_entryVars => GridInv'
<1> SUFFICES ASSUME GridInv, [EntryNext]_entryVars PROVE GridInv'
  OBVIOUS
<1>1. CASE UNCHANGED entryVars
  <2>1. UNCHANGED gridVars
    BY <1>1, Zenon DEF entryVars, gridVars
  <2> QED
    BY <2>1, FocusKeeps
<1>2. CASE \E r \in RowIds, i \in Fields : handleFieldFocus(r, i)
  <2>1. UNCHANGED gridVars
    BY <1>2, Zenon DEF handleFieldFocus, gridVars
  <2> QED
    BY <2>1, FocusKeeps
<1>3. CASE handleKeyDown
  <2>1. commitRow(activeRow) \/ UNCHANGED gridVars
    BY <1>3, Zenon DEF handleKeyDown, gridVars
  <2> QED
    BY <2>1, FocusKeeps, CommitRowKeeps, Zenon
<1>4. CASE (\E r \in RowIds : askDelete(r)) \/ cancelDelete
  <2>1. UNCHANGED gridVars
    BY <1>4, Zenon DEF askDelete, cancelDelete, gridVars
  <2> QED
    BY <2>1, FocusKeeps
<1>5. CASE \E c \in calls, ok \in BOOLEAN : CommitAnswers(c, ok) \/ EditAnswers(c, ok) \/ DeleteAnswers(c, ok)
  BY <1>5, CommitAnswersKeeps, EditAnswersKeeps, DeleteAnswersKeeps, Zenon
<1> QED
  BY <1>1, <1>2, <1>3, <1>4, <1>5, OpenRowKeeps, PaneKeeps, EditModeKeeps, CommitEditKeeps,
     ConfirmDeleteKeeps, ForgetKeeps, Zenon DEF EntryNext

(* Receipts and sales, for every number of rows, commands and keystrokes: a  *)
(* committed row is a recorded movement, recorded once, and the grid and the *)
(* entry log show what was recorded.                                         *)
THEOREM GridTrue == EntryInit /\ [][EntryNext]_entryVars => []GridIsRecorded
<1>1. GridInv => GridIsRecorded
  <2> SUFFICES ASSUME GridInv PROVE GridIsRecorded
    OBVIOUS
  <2>1. CommittedIsRecorded
    BY DEF GridInv, RecordInv, CommittedIsRecorded
  <2>2. RecordedOnce
    BY DEF GridInv, RecordInv, RecordedOnce
  <2>3. ShownIsRecorded
    BY DEF GridInv, ShownInv, ShownIsRecorded
  <2>4. LogIsRecorded
    <3>1. \A r \in RowIds : r \in LogShown <=> entryLog[r] > 0
      BY DEF LogShown, ReceiveLog, SaleLog
    <3> QED
      BY <3>1 DEF GridInv, ShownInv, LogIsRecorded
  <2> QED
    BY <2>1, <2>2, <2>3, <2>4, Zenon DEF GridIsRecorded
<1> QED
  BY <1>1, GridStarts, EntryKeeps, PTL
-----------------------------------------------------------------------------
Readers == CountLines \cup Slots \cup {"list", "prime"}
Reads == [who : Readers, bucket : Buckets, qty : Int, hit : BOOLEAN, late : BOOLEAN,
          next : Buckets \cup {"none"}, ends : BOOLEAN]
Phases == {"open", "reading", "sent", "ran", "refused", "done", "failed"}
Lines == [phase : Phases, counted : Int, sys : Int]

(* What the variables of the balance forms hold.                             *)
BalanceTypes ==
    /\ stockHeld \in [Buckets -> Int] /\ balanceCache \in [Buckets -> Int] /\ viewQty \in Int
    /\ reads \subseteq Reads
    /\ countLine \in [CountLines -> Lines] /\ applied \in [CountLines -> Int]
    /\ chosen \in [Slots -> Buckets] /\ submitFor \in [Slots -> Buckets]
    /\ DOMAIN shownQty = Slots /\ shownQty = [s \in Slots |-> shownQty[s]]

(* A read of the database that no change has overtaken has the balance.      *)
ReadsAreCurrent ==
    \A r \in reads : ~r.hit /\ ~r.late => r.qty \in {Absent, stockHeld[r.bucket]}

(* A line has a read under way exactly while it waits for it, the only one,  *)
(* and what was applied for it goes by its phase.                            *)
LineInv ==
    /\ \A r \in reads : r.who \in CountLines => countLine[r.who].phase = "reading"
    /\ \A r, t \in reads : r.who \in CountLines /\ r.who = t.who => r = t
    /\ \A l \in CountLines :
          /\ countLine[l].phase \in {"ran", "done"} => applied[l] = variance(l)
          /\ countLine[l].phase \notin {"ran", "done"} => applied[l] = 0
          /\ countLine[l].phase # "done" => l \notin countEntries

(* The reads of a form: the source first, then the destination. The load     *)
(* that ends handleSubmit is the only one, while handleSubmit waits for it.  *)
FollowUpInv ==
    /\ \A r \in reads : /\ r.who # "from" => r.next = "none"
                        /\ r.ends => submit = "reload"
    /\ \A r, t \in reads : r.ends /\ t.ends => r = t

(* The bucket a form reads after its source.                                 *)
Destination == IF balanceView = "return" THEN "none" ELSE chosen["to"]

(* Unless loads overlapped, every read of a form is about the buckets that   *)
(* are chosen, and a slot shows its bucket or is being read.                 *)
FormInv ==
    ~confused =>
        /\ submit # "idle" => submitFor = chosen
        /\ \A r \in reads : /\ r.who \in Slots => r.bucket = chosen[r.who]
                            /\ r.who = "from" => r.next = Destination
        /\ \A s \in SlotsOf(balanceView) : \/ shownQty[s].bucket \in {"none", chosen[s]}
                                           \/ Loading(s) # {}

BalanceInv ==
    /\ BalanceTypes /\ ReadsAreCurrent /\ CacheIsCurrent /\ LineInv /\ FollowUpInv /\ FormInv
    /\ MovementsAreAttributed
-----------------------------------------------------------------------------
(* The fields of a read that is asked for, that runs or that is overtaken.   *)
AskedFor(r, who, b, n, e) ==
    /\ r \in Reads /\ r.who = who /\ r.bucket = b /\ r.next = n /\ r.ends = e
    /\ ~r.hit => r.qty = Absent

(* A new read is for who asked, of the bucket asked for.                     *)
LEMMA NewRead ==
    ASSUME balanceCache \in [Buckets -> Int], NEW who \in Readers, NEW b \in Buckets, NEW n \in Buckets \cup {"none"},
           NEW e \in BOOLEAN
    PROVE  AskedFor(getStockBalanceForBucket(who, b, n, e), who, b, n, e)
<1>r. PICK r : r = getStockBalanceForBucket(who, b, n, e)
  OBVIOUS
<1>a. balanceCache[b] \in Int
  OBVIOUS
<1>b. r = [who |-> who, bucket |-> b, qty |-> balanceCache[b], hit |-> (balanceCache[b] # Absent),
           late |-> FALSE, next |-> n, ends |-> e]
  BY <1>r, Zenon DEF getStockBalanceForBucket, _readBalanceCache
<1>c. \A q \in Int, h, l \in BOOLEAN :
          [who |-> who, bucket |-> b, qty |-> q, hit |-> h, late |-> l, next |-> n, ends |-> e] \in Reads
  BY DEF Reads
<1>1. r \in Reads
  BY <1>a, <1>b, <1>c, Zenon
<1>2. r.who = who /\ r.bucket = b /\ r.next = n /\ r.qty = balanceCache[b]
  BY <1>b
<1>3. r.hit = (balanceCache[b] # Absent)
  <2>1. \A q \in Int, h, l \in BOOLEAN :
          [who |-> who, bucket |-> b, qty |-> q, hit |-> h, late |-> l, next |-> n, ends |-> e].hit = h
    OBVIOUS
  <2> QED
    BY <1>a, <1>b, <2>1, Zenon
<1>4. r.ends = e
  BY <1>b
<1>5. AskedFor(r, who, b, n, e)
  BY <1>1, <1>2, <1>3, <1>4, Zenon DEF AskedFor
<1> QED
  BY <1>r, <1>5

(* The fields of a read.                                                     *)
LEMMA ReadFields ==
    ASSUME NEW r \in Reads
    PROVE  /\ r.who \in Readers /\ r.bucket \in Buckets /\ r.qty \in Int
           /\ r.next \in Buckets \cup {"none"} /\ r.ends \in BOOLEAN
  BY DEF Reads

(* An answered read is the same read with a quantity.                        *)
LEMMA ReadAnswered ==
    ASSUME NEW r \in Reads, NEW q \in Int, NEW t, t = [r EXCEPT !.qty = q]
    PROVE  /\ t \in Reads /\ t.qty = q /\ t.who = r.who /\ t.bucket = r.bucket /\ t.next = r.next
           /\ t.ends = r.ends
  BY DEF Reads

(* An overtaken read is the same read, marked late.                          *)
LEMMA ReadOvertaken ==
    ASSUME NEW r \in Reads, NEW t, t = [r EXCEPT !.late = TRUE]
    PROVE  /\ t \in Reads /\ t.late /\ t.who = r.who /\ t.bucket = r.bucket /\ t.next = r.next
           /\ t.ends = r.ends
<1>1. ASSUME NEW b \in BOOLEAN, t = [r EXCEPT !.late = b], b
      PROVE  /\ t \in Reads /\ t.late /\ t.who = r.who /\ t.bucket = r.bucket /\ t.next = r.next
           /\ t.ends = r.ends
  BY <1>1 DEF Reads
<1> QED
  BY <1>1, Zenon

(* The reads of one state stand for those of another: the same readers ask   *)
(* for the same buckets.                                                     *)
SameRead(r, t) == t.who = r.who /\ t.bucket = r.bucket /\ t.next = r.next /\ t.ends = r.ends
Carried ==
    \E f \in [reads -> Reads] : /\ reads' = {f[r] : r \in reads}
                                /\ \A r \in reads : SameRead(r, f[r])

(* Carried reads are the reads there were, one for one.                      *)
LEMMA CarriedFacts ==
    ASSUME BalanceTypes, Carried
    PROVE  /\ reads' \subseteq Reads
           /\ \A t \in reads' : \E r \in reads : SameRead(r, t)
           /\ \A r \in reads : \E t \in reads' : SameRead(r, t)
           /\ LineInv => \A t, u \in reads' : t.who \in CountLines /\ t.who = u.who => t = u
           /\ FollowUpInv => \A t, u \in reads' : t.ends /\ u.ends => t = u
<1>1. PICK f \in [reads -> Reads] : /\ reads' = {f[r] : r \in reads}
                                    /\ \A r \in reads : SameRead(r, f[r])
  BY Zenon DEF Carried
<1>2. LineInv => \A t, u \in reads' : t.who \in CountLines /\ t.who = u.who => t = u
  <2> SUFFICES ASSUME LineInv, NEW t \in reads', NEW u \in reads', t.who \in CountLines, t.who = u.who
               PROVE  t = u
    OBVIOUS
  <2>1. PICK r \in reads : t = f[r]
    BY <1>1
  <2>2. PICK s \in reads : u = f[s]
    BY <1>1
  <2>3. r.who = t.who /\ s.who = u.who
    BY <1>1, <2>1, <2>2 DEF SameRead
  <2>4. r = s
    BY <2>3, Zenon DEF LineInv
  <2> QED
    BY <2>1, <2>2, <2>4
<1>3. FollowUpInv => \A t, u \in reads' : t.ends /\ u.ends => t = u
  <2> SUFFICES ASSUME FollowUpInv, NEW t \in reads', NEW u \in reads', t.ends, u.ends PROVE t = u
    OBVIOUS
  <2>1. PICK r \in reads : t = f[r]
    BY <1>1
  <2>2. PICK s \in reads : u = f[s]
    BY <1>1
  <2>3. r.ends /\ s.ends
    BY <1>1, <2>1, <2>2, Zenon DEF SameRead
  <2> QED
    BY <2>1, <2>2, <2>3, Zenon DEF FollowUpInv
<1> QED
  BY <1>1, <1>2, <1>3

(* A command carries the reads over; those it overtook are late.             *)
LEMMA CommandFacts ==
    ASSUME BalanceTypes, ReadsAreCurrent, NEW d \in [Buckets -> Int], RunCommand(d)
    PROVE  /\ stockHeld' \in [Buckets -> Int] /\ Carried /\ ReadsAreCurrent'
           /\ \A b \in Buckets : d[b] = 0 => stockHeld'[b] = stockHeld[b]
<1>a. stockHeld' = [b \in Buckets |-> stockHeld[b] + d[b]] /\ reads' = Overtaken({b \in Buckets : d[b] # 0})
  BY Zenon DEF RunCommand, Changed
<1> DEFINE bs == {b \in Buckets : d[b] # 0}
           over(r) == r.bucket \in bs /\ r.qty # Absent
           f == [r \in reads |-> IF over(r) THEN [r EXCEPT !.late = TRUE] ELSE r]
<1>b. /\ stockHeld' \in [Buckets -> Int]
      /\ \A b \in Buckets : d[b] = 0 => stockHeld'[b] = stockHeld[b]
  BY <1>a DEF BalanceTypes
<1>c. \A b \in Buckets : b \notin bs => stockHeld'[b] = stockHeld[b]
  BY <1>b
<1>d. reads' = {IF over(r) THEN [r EXCEPT !.late = TRUE] ELSE r : r \in reads}
  BY <1>a, Zenon DEF Overtaken
<1> HIDE DEF bs
<1>1. ASSUME NEW r \in reads
      PROVE  /\ f[r] \in Reads /\ SameRead(r, f[r])
             /\ f[r].late \/ (f[r] = r /\ ~over(r))
  <2>1. r \in Reads
    BY DEF BalanceTypes
  <2>2. CASE over(r)
    BY <2>1, <2>2, ReadOvertaken, Zenon DEF SameRead
  <2>3. CASE ~over(r)
    BY <2>1, <2>3, Zenon DEF SameRead
  <2> QED
    BY <2>2, <2>3
<1>2. reads' = {f[r] : r \in reads}
  BY <1>d
<1> HIDE DEF f
<1>3. Carried
  <2>1. f \in [reads -> Reads]
    BY <1>1 DEF f
  <2> QED
    BY <1>1, <1>2, <2>1, Zenon DEF Carried
<1>4. ReadsAreCurrent'
  <2> SUFFICES ASSUME NEW t \in reads', ~t.hit, ~t.late PROVE t.qty \in {Absent, stockHeld'[t.bucket]}
    BY Zenon DEF ReadsAreCurrent
  <2>1. PICK r \in reads : t = f[r]
    BY <1>2, Zenon
  <2>2. t = r /\ ~over(r)
    BY <1>1, <2>1, Zenon
  <2>3. r.qty \in {Absent, stockHeld[r.bucket]} /\ r.bucket \in Buckets
    <3>1. r.bucket \in Buckets
      BY ReadFields, Zenon DEF BalanceTypes
    <3> QED
      BY <2>2, <3>1, Zenon DEF ReadsAreCurrent
  <2> QED
    BY <1>c, <2>2, <2>3
<1> QED
  BY <1>b, <1>3, <1>4, Zenon
(* The answer of a read keeps the cache current, when it is taken at all.    *)
LEMMA AnswerKeepsCache ==
    ASSUME BalanceInv, NEW r \in reads, r.qty # Absent, stockHeld' = stockHeld,
           CacheAnswer(r) \/ UNCHANGED <<balanceCache, suspect>>, Unanswered => Unanswered'
    PROVE  balanceCache' \in [Buckets -> Int] /\ CacheIsCurrent'
<1>a. balanceCache \in [Buckets -> Int] /\ CacheIsCurrent
  BY Zenon DEF BalanceInv, BalanceTypes
<1>b. r.bucket \in Buckets /\ r.qty \in Int
  BY ReadFields, Zenon DEF BalanceInv, BalanceTypes
<1>1. CASE UNCHANGED <<balanceCache, suspect>>
  BY <1>a, <1>1 DEF CacheIsCurrent
<1>2. CASE CacheAnswer(r) /\ ~r.hit
  <2>a. /\ balanceCache' = [balanceCache EXCEPT ![r.bucket] = r.qty]
        /\ \A b \in Buckets : b # r.bucket /\ b \in suspect => b \in suspect'
        /\ r.late => r.bucket \in suspect'
    BY <1>2 DEF CacheAnswer, _writeBalanceCache
  <2>b. ~r.late => r.qty = stockHeld[r.bucket]
    BY <1>2 DEF BalanceInv, ReadsAreCurrent
  <2> QED
    BY <1>a, <1>b, <2>a, <2>b DEF CacheIsCurrent
<1>3. CASE CacheAnswer(r) /\ r.hit
  BY <1>1, <1>3, Zenon DEF CacheAnswer
<1> QED
  BY <1>1, <1>2, <1>3

(* A step of the cache alone.                                                *)
LEMMA CacheStepKeeps ==
    ASSUME BalanceInv, UNCHANGED <<balanceView, stockHeld, reads, anonymous, countVars, formVars>>,
           balanceCache' \in [Buckets -> Int], CacheIsCurrent'
    PROVE  BalanceInv'
<1>a. UNCHANGED <<chosen, shownQty, submit, submitFor, confused, countLine, countEntries, viewQty, applied>>
  BY Zenon DEF countVars, formVars
<1>1. BalanceTypes'
  BY <1>a, Zenon DEF BalanceInv, BalanceTypes
<1>2. ReadsAreCurrent' /\ FollowUpInv'
  BY <1>a, Zenon DEF BalanceInv, ReadsAreCurrent, FollowUpInv
<1>3. LineInv'
  BY <1>a DEF BalanceInv, LineInv, variance
<1>4. FormInv'
  BY <1>a DEF BalanceInv, FormInv, Loading, SlotsOf, Destination
<1>5. MovementsAreAttributed'
  BY Zenon DEF BalanceInv, MovementsAreAttributed
<1> QED
  BY <1>1, <1>2, <1>3, <1>4, <1>5, Zenon DEF BalanceInv

(* Reads that are carried over leave the forms as they are.                  *)
LEMMA CarriedKeepsForm ==
    ASSUME BalanceInv, Carried, UNCHANGED <<balanceView, chosen, shownQty, confused>>,
           submit = "reload" => submit' = "reload",
           submit' # "idle" => submitFor' = chosen \/ (submit # "idle" /\ submitFor' = submitFor)
    PROVE  FollowUpInv' /\ FormInv'
<1>a. /\ \A t \in reads' : \E r \in reads : SameRead(r, t)
      /\ \A r \in reads : \E t \in reads' : SameRead(r, t)
      /\ \A t, u \in reads' : t.ends /\ u.ends => t = u
  BY CarriedFacts, Zenon DEF BalanceInv
<1>1. FollowUpInv'
  <2>1. \A t \in reads' : (t.who # "from" => t.next = "none") /\ (t.ends => submit' = "reload")
    BY <1>a, Zenon DEF BalanceInv, FollowUpInv, SameRead
  <2> QED
    BY <1>a, <2>1, Zenon DEF FollowUpInv
<1>2. FormInv'
  <2> SUFFICES ASSUME ~confused'
               PROVE  /\ submit' # "idle" => submitFor' = chosen'
                      /\ \A t \in reads' :
                            /\ t.who \in Slots => t.bucket = chosen'[t.who]
                            /\ t.who = "from" => t.next = Destination'
                      /\ \A s \in SlotsOf(balanceView') :
                            shownQty'[s].bucket \in {"none", chosen'[s]} \/ Loading(s)' # {}
    BY Zenon DEF FormInv
  <2>1. /\ submit # "idle" => submitFor = chosen
        /\ \A r \in reads : /\ r.who \in Slots => r.bucket = chosen[r.who]
                            /\ r.who = "from" => r.next = Destination
        /\ \A s \in SlotsOf(balanceView) : shownQty[s].bucket \in {"none", chosen[s]} \/ Loading(s) # {}
    BY Zenon DEF BalanceInv, FormInv
  <2>2. \A s : Loading(s) # {} => Loading(s)' # {}
    BY <1>a DEF Loading, SameRead
  <2>3. \A t \in reads' : /\ t.who \in Slots => t.bucket = chosen'[t.who]
                          /\ t.who = "from" => t.next = Destination'
    BY <1>a, <2>1 DEF SameRead, Destination
  <2>4. submit' # "idle" => submitFor' = chosen'
    BY <2>1, Zenon
  <2> QED
    BY <2>1, <2>2, <2>3, <2>4, Zenon
<1> QED
  BY <1>1, <1>2

(* Reads that are only carried on leave the count lines alone.               *)
LEMMA CarriedKeepsLines ==
    ASSUME BalanceInv, Carried, UNCHANGED <<countLine, countEntries, applied>> PROVE LineInv'
<1>a. /\ \A t \in reads' : \E r \in reads : SameRead(r, t)
      /\ \A t, u \in reads' : t.who \in CountLines /\ t.who = u.who => t = u
  BY CarriedFacts, Zenon DEF BalanceInv
<1>b. \A t \in reads' : t.who \in CountLines => countLine'[t.who].phase = "reading"
  BY <1>a DEF BalanceInv, LineInv, SameRead
<1> QED
  BY <1>a, <1>b DEF BalanceInv, LineInv, variance

(* The database answers a read.                                              *)
LEMMA ReadRunsKeeps == ASSUME BalanceInv, NEW r \in reads, ReadRuns(r) PROVE BalanceInv'
<1>t. PICK t : t = [r EXCEPT !.qty = stockHeld[r.bucket]]
  OBVIOUS
<1> DEFINE f == [x \in reads |-> IF x = r THEN t ELSE x]
<1>a. /\ reads' = (reads \ {r}) \cup {t}
      /\ UNCHANGED <<balanceView, sessionUser, otherCmd, anonymous, stockHeld, balanceCache, suspect, countLine,
                     countEntries, viewQty, applied, chosen, shownQty, submit, submitFor, confused>>
  BY <1>t, Zenon DEF ReadRuns, dbVars, countVars, formVars
<1>b. r \in Reads /\ r.bucket \in Buckets
  BY ReadFields, Zenon DEF BalanceInv, BalanceTypes
<1>c. stockHeld[r.bucket] \in Int
  BY <1>b DEF BalanceInv, BalanceTypes
<1>d. /\ t \in Reads /\ t.qty = stockHeld[r.bucket] /\ SameRead(r, t)
  BY <1>b, <1>c, <1>t, ReadAnswered DEF SameRead
<1>e. Carried
  <2>1. \A x \in reads : x \in Reads
    BY DEF BalanceInv, BalanceTypes
  <2>2. f \in [reads -> Reads] /\ \A x \in reads : SameRead(x, f[x])
    BY <1>d, <2>1 DEF SameRead
  <2>3. reads' = {f[x] : x \in reads}
    BY <1>a
  <2> QED
    BY <2>2, <2>3, Zenon DEF Carried
<1>1. BalanceTypes'
  <2>1. reads' \subseteq Reads
    BY <1>e, CarriedFacts, Zenon DEF BalanceInv
  <2> QED
    BY <1>a, <2>1, Zenon DEF BalanceInv, BalanceTypes
<1>2. ReadsAreCurrent'
  BY <1>a, <1>d DEF BalanceInv, ReadsAreCurrent, SameRead
<1>3. CacheIsCurrent'
  BY <1>a DEF BalanceInv, CacheIsCurrent, Unanswered
<1>4. LineInv'
  BY <1>a, <1>e, CarriedKeepsLines, Zenon
<1>5. FollowUpInv' /\ FormInv'
  BY <1>a, <1>e, CarriedKeepsForm, Zenon
<1>6. MovementsAreAttributed'
  BY <1>a, Zenon DEF BalanceInv, MovementsAreAttributed
<1> QED
  BY <1>1, <1>2, <1>3, <1>4, <1>5, <1>6, Zenon DEF BalanceInv
(* Reads leave: the others are as they were.                                 *)
LEMMA FewerReads ==
    ASSUME BalanceInv, NEW r \in reads, reads' = reads \ {r}, stockHeld' = stockHeld, submit' = submit
    PROVE  reads' \subseteq Reads /\ ReadsAreCurrent' /\ FollowUpInv'
  BY Zenon DEF BalanceInv, BalanceTypes, ReadsAreCurrent, FollowUpInv

(* A read of no form leaves.                                                 *)
LEMMA FewerReadsForm ==
    ASSUME BalanceInv, NEW r \in reads, reads' = reads \ {r}, r.who \notin Slots,
           UNCHANGED <<balanceView, chosen, shownQty, submit, submitFor, confused>>
    PROVE  FormInv'
<1>1. \A s \in Slots : Loading(s)' = Loading(s)
  <2>1. r.next = "none"
    BY DEF BalanceInv, FollowUpInv, Slots
  <2> QED
    BY <2>1 DEF Loading
<1>2. \A s \in SlotsOf(balanceView) : s \in Slots
  BY DEF SlotsOf, Slots
<1> QED
  BY <1>1, <1>2, Zenon DEF BalanceInv, FormInv, SlotsOf, Destination

(* The list and the primed balances are read: no line and no form waits.     *)
LEMMA ListReadKeeps ==
    ASSUME BalanceInv, NEW r \in reads,
           Primed(r) \/ \E ok \in BOOLEAN : CountListLoaded(r, ok)
    PROVE  BalanceInv'
<1>a. /\ r.who \in {"prime", "list"} /\ r.qty # Absent /\ reads' = reads \ {r}
      /\ UNCHANGED <<balanceView, stockHeld, countLine, countEntries, applied, otherCmd, anonymous,
                     chosen, shownQty, submit, submitFor, confused>>
      /\ CacheAnswer(r) \/ UNCHANGED <<balanceCache, suspect>>
  BY Zenon DEF Primed, CountListLoaded, countVars, formVars
<1>b. r.qty \in Int
  BY ReadFields, Zenon DEF BalanceInv, BalanceTypes
<1>c. viewQty' \in Int
  <2>1. viewQty' \in {viewQty, r.qty, 0}
    BY Zenon DEF Primed, CountListLoaded, countVars
  <2> QED
    BY <1>b, <2>1 DEF BalanceInv, BalanceTypes
<1>d. r.who \notin CountLines /\ r.who \notin Slots
  BY <1>a, BalanceAssumption DEF Slots
<1>1. balanceCache' \in [Buckets -> Int] /\ CacheIsCurrent'
  <2>1. Unanswered' <=> Unanswered
    BY <1>a DEF Unanswered
  <2> QED
    BY <1>a, <2>1, AnswerKeepsCache, Zenon
<1>2. reads' \subseteq Reads /\ ReadsAreCurrent' /\ FollowUpInv'
  BY <1>a, FewerReads, Zenon
<1>3. BalanceTypes'
  BY <1>a, <1>c, <1>1, <1>2, Zenon DEF BalanceInv, BalanceTypes
<1>4. LineInv'
  BY <1>a DEF BalanceInv, LineInv, variance
<1>5. FormInv'
  BY <1>a, <1>d, FewerReadsForm, Zenon
<1>6. MovementsAreAttributed'
  BY <1>a, Zenon DEF BalanceInv, MovementsAreAttributed
<1> QED
  BY <1>1, <1>2, <1>3, <1>4, <1>5, <1>6, Zenon DEF BalanceInv

(* A line learns its system quantity.                                        *)
LEMMA CountReadKeeps ==
    ASSUME BalanceInv, NEW r \in reads, NEW ok \in BOOLEAN, CountRead(r, ok) PROVE BalanceInv'
<1> DEFINE sys == IF ok THEN r.qty ELSE viewQty
           even == sys = countLine[r.who].counted
<1>a. /\ r.who \in CountLines /\ r.qty # Absent /\ reads' = reads \ {r}
      /\ UNCHANGED <<balanceView, stockHeld, viewQty, applied, otherCmd, anonymous, chosen, shownQty,
                     submit, submitFor, confused>>
      /\ CacheAnswer(r) \/ UNCHANGED <<balanceCache, suspect>>
  BY Zenon DEF CountRead, formVars
<1>b. /\ countEntries' = IF even THEN countEntries \cup {r.who} ELSE countEntries
      /\ countLine' = [countLine EXCEPT ![r.who].sys = sys, ![r.who].phase = IF even THEN "done" ELSE "sent"]
  BY DEF CountRead
<1>c. sys \in Int
  <2>1. r.qty \in Int /\ viewQty \in Int
    BY ReadFields, Zenon DEF BalanceInv, BalanceTypes
  <2> QED
    BY <2>1
<1>d. countLine \in [CountLines -> Lines] /\ applied \in [CountLines -> Int]
  BY Zenon DEF BalanceInv, BalanceTypes
<1> HIDE DEF sys
<1>e. /\ countLine' \in [CountLines -> Lines]
      /\ \A l \in CountLines : l # r.who => countLine'[l] = countLine[l]
      /\ countLine'[r.who].phase = (IF even THEN "done" ELSE "sent") /\ countLine'[r.who].sys = sys
      /\ countLine'[r.who].counted = countLine[r.who].counted
  <2>1. PICK p \in Phases : p = IF even THEN "done" ELSE "sent"
    BY DEF Phases
  <2>2. countLine' = [countLine EXCEPT ![r.who].sys = sys, ![r.who].phase = p]
    BY <1>b, <2>1, Zenon
  <2> QED
    BY <1>a, <1>c, <1>d, <2>1, <2>2 DEF Lines
<1>1. balanceCache' \in [Buckets -> Int] /\ CacheIsCurrent'
  <2>1. countLine[r.who].phase = "reading"
    BY <1>a DEF BalanceInv, LineInv
  <2>2. Unanswered => Unanswered'
    BY <1>a, <1>e, <2>1 DEF Unanswered
  <2> QED
    BY <1>a, <2>2, AnswerKeepsCache, Zenon
<1>2. reads' \subseteq Reads /\ ReadsAreCurrent' /\ FollowUpInv'
  BY <1>a, FewerReads, Zenon
<1>3. BalanceTypes'
  BY <1>a, <1>e, <1>1, <1>2, Zenon DEF BalanceInv, BalanceTypes
<1>4. LineInv'
  <2>1. \A t \in reads' : t.who \in CountLines => t.who # r.who /\ countLine'[t.who].phase = "reading"
    BY <1>a, <1>e DEF BalanceInv, LineInv
  <2>2. \A t, u \in reads' : t.who \in CountLines /\ t.who = u.who => t = u
    BY <1>a DEF BalanceInv, LineInv
  <2>3. ASSUME NEW l \in CountLines
        PROVE  /\ countLine'[l].phase \in {"ran", "done"} => applied'[l] = variance(l)'
               /\ countLine'[l].phase \notin {"ran", "done"} => applied'[l] = 0
               /\ countLine'[l].phase # "done" => l \notin countEntries'
    <3>1. CASE l = r.who
      <4>1. applied[l] = 0 /\ l \notin countEntries /\ countLine[l].counted \in Int
        BY <1>a, <1>d, <3>1 DEF BalanceInv, LineInv, Lines
      <4> QED
        BY <1>a, <1>b, <1>c, <1>e, <3>1, <4>1 DEF variance
    <3>2. CASE l # r.who
      BY <1>a, <1>b, <1>e, <3>2 DEF BalanceInv, LineInv, variance
    <3> QED
      BY <3>1, <3>2
  <2> QED
    BY <2>1, <2>2, <2>3, Zenon DEF LineInv
<1>5. FormInv'
  <2>1. r.who \notin Slots
    BY <1>a, BalanceAssumption DEF Slots
  <2> QED
    BY <1>a, <2>1, FewerReadsForm, Zenon
<1>6. MovementsAreAttributed'
  BY <1>a, Zenon DEF BalanceInv, MovementsAreAttributed
<1> QED
  BY <1>1, <1>2, <1>3, <1>4, <1>5, <1>6, Zenon DEF BalanceInv
(* A balance arrives at a form.                                              *)
LEMMA ShowBalanceKeeps ==
    ASSUME BalanceInv, NEW r \in reads, NEW ok \in BOOLEAN, ShowBalance(r, ok) PROVE BalanceInv'
<1>a. /\ r.who \in Slots /\ r.qty # Absent /\ reads' = ThenLoad(r)
      /\ UNCHANGED <<balanceView, stockHeld, chosen, submitFor, confused, otherCmd, anonymous,
                     countLine, countEntries, viewQty, applied>>
      /\ CacheAnswer(r) \/ UNCHANGED <<balanceCache, suspect>>
      /\ submit' = IF r.ends /\ r.next = "none" THEN "idle" ELSE submit
      /\ shownQty' = [shownQty EXCEPT ![r.who] =
                         IF ok THEN [bucket |-> r.bucket, qty |-> r.qty] ELSE NoQty]
  BY Zenon DEF ShowBalance, countVars
<1>b. BalanceTypes /\ FollowUpInv /\ LineInv /\ FormInv
  BY Zenon DEF BalanceInv
<1>c. r \in Reads /\ r.bucket \in Buckets /\ r.next \in Buckets \cup {"none"} /\ r.ends \in BOOLEAN
  BY <1>b, ReadFields, Zenon DEF BalanceTypes
<1>t. PICK t : t = getStockBalanceForBucket("to", r.next, "none", r.ends)
  OBVIOUS
<1>d. (r.next = "none" /\ reads' = reads \ {r}) \/ (r.next # "none" /\ reads' = (reads \ {r}) \cup {t})
  BY <1>a, <1>t, Zenon DEF ThenLoad
<1>e. r.next # "none" => /\ t \in Reads /\ t.who = "to" /\ t.bucket = r.next /\ t.next = "none"
                         /\ t.ends = r.ends /\ (~t.hit => t.qty = Absent)
  <2>1. "to" \in Readers /\ "none" \in Buckets \cup {"none"}
    BY DEF Readers, Slots
  <2>2. r.next # "none" => r.next \in Buckets
    BY <1>c
  <2>3. r.next # "none" => AskedFor(t, "to", r.next, "none", r.ends)
    BY <1>b, <1>c, <1>t, <2>1, <2>2, NewRead, Zenon DEF BalanceTypes
  <2> QED
    BY <2>3, Zenon DEF AskedFor
<1>f. "to" \notin CountLines /\ r.who \notin CountLines
  BY <1>a, BalanceAssumption DEF Slots
<1>g. /\ DOMAIN shownQty' = Slots /\ shownQty' = [s \in Slots |-> shownQty'[s]]
      /\ shownQty'[r.who].bucket \in {"none", r.bucket}
      /\ \A s \in Slots : s # r.who => shownQty'[s] = shownQty[s]
  BY <1>a, <1>b DEF BalanceTypes, NoQty
<1>1. balanceCache' \in [Buckets -> Int] /\ CacheIsCurrent'
  <2>1. submit' = submit \/ submit = "reload"
    BY <1>a, <1>b, Zenon DEF FollowUpInv
  <2>2. Unanswered => Unanswered'
    BY <1>a, <2>1 DEF Unanswered
  <2> QED
    BY <1>a, <2>2, AnswerKeepsCache, Zenon
<1>2. /\ reads' \subseteq Reads /\ ReadsAreCurrent' /\ FollowUpInv'
  <2>1. reads' \subseteq Reads
    BY <1>b, <1>d, <1>e DEF BalanceTypes
  <2>2. ReadsAreCurrent'
    BY <1>a, <1>d, <1>e DEF BalanceInv, ReadsAreCurrent
  <2>3. FollowUpInv'
    <3>1. \A x \in reads' : x.who # "from" => x.next = "none"
      BY <1>b, <1>d, <1>e DEF FollowUpInv
    <3>2. \A x, y \in reads' : x.ends /\ y.ends => x = y
      BY <1>b, <1>d, <1>e, Zenon DEF FollowUpInv
    <3>3. \A x \in reads' : x.ends => submit' = "reload"
      <4>1. CASE r.ends /\ r.next = "none"
        BY <1>b, <1>d, <4>1, Zenon DEF FollowUpInv
      <4>2. CASE ~(r.ends /\ r.next = "none")
        BY <1>a, <1>b, <1>d, <1>e, <4>2, Zenon DEF FollowUpInv
      <4> QED
        BY <4>1, <4>2
    <3> QED
      BY <3>1, <3>2, <3>3, Zenon DEF FollowUpInv
  <2> QED
    BY <2>1, <2>2, <2>3
<1>3. BalanceTypes'
  BY <1>a, <1>b, <1>g, <1>1, <1>2, Zenon DEF BalanceTypes
<1>4. LineInv'
  BY <1>a, <1>b, <1>d, <1>e, <1>f DEF LineInv, variance
<1>5. FormInv'
  <2> SUFFICES ASSUME ~confused'
               PROVE  /\ submit' # "idle" => submitFor' = chosen'
                      /\ \A x \in reads' : /\ x.who \in Slots => x.bucket = chosen'[x.who]
                                           /\ x.who = "from" => x.next = Destination'
                      /\ \A s \in SlotsOf(balanceView') :
                            shownQty'[s].bucket \in {"none", chosen'[s]} \/ Loading(s)' # {}
    BY Zenon DEF FormInv
  <2>1. /\ submit # "idle" => submitFor = chosen
        /\ \A x \in reads : /\ x.who \in Slots => x.bucket = chosen[x.who]
                            /\ x.who = "from" => x.next = Destination
        /\ \A s \in SlotsOf(balanceView) : shownQty[s].bucket \in {"none", chosen[s]} \/ Loading(s) # {}
    BY <1>a, <1>b, Zenon DEF FormInv
  <2>2. submit' # "idle" => submitFor' = chosen'
    BY <1>a, <2>1, Zenon
  <2>3. r.next # "none" => r.who = "from" /\ r.next = chosen["to"]
    BY <1>b, <2>1 DEF FollowUpInv, Destination
  <2>4. \A x \in reads' : /\ x.who \in Slots => x.bucket = chosen'[x.who]
                          /\ x.who = "from" => x.next = Destination'
    BY <1>a, <1>d, <1>e, <2>1, <2>3 DEF Destination
  <2>5. ASSUME NEW s \in SlotsOf(balanceView')
        PROVE  shownQty'[s].bucket \in {"none", chosen'[s]} \/ Loading(s)' # {}
    <3>a. s \in Slots /\ s \in SlotsOf(balanceView)
      BY <1>a DEF SlotsOf, Slots
    <3>1. CASE s = r.who
      BY <1>a, <1>g, <2>1, <3>a, <3>1
    <3>2. CASE s # r.who /\ shownQty[s].bucket \in {"none", chosen[s]}
      BY <1>a, <1>g, <3>a, <3>2
    <3>3. CASE s # r.who /\ s = "from" /\ Loading(s) # {}
      <4>1. \A x \in Loading(s) : x \in reads /\ x # r /\ x.who = "from"
        BY <3>3 DEF Loading
      <4> QED
        BY <1>d, <3>3, <4>1 DEF Loading
    <3>4. CASE s # r.who /\ s = "to"
      <4>1. r.who = "from" /\ balanceView # "return"
        BY <1>a, <3>a, <3>4 DEF Slots, SlotsOf
      <4>2. r.next = chosen["to"] /\ chosen["to"] \in Buckets
        BY <1>b, <2>1, <4>1 DEF Destination, BalanceTypes, Slots
      <4>3. r.next # "none"
        BY <4>2 DEF Buckets
      <4> QED
        BY <1>d, <1>e, <3>4, <4>3 DEF Loading
    <3> QED
      BY <2>1, <3>a, <3>1, <3>2, <3>3, <3>4, Zenon DEF Slots
  <2> QED
    BY <2>2, <2>4, <2>5, Zenon
<1>6. MovementsAreAttributed'
  BY <1>a, Zenon DEF BalanceInv, MovementsAreAttributed
<1> QED
  BY <1>1, <1>2, <1>3, <1>4, <1>5, <1>6, Zenon DEF BalanceInv
(* A read is asked for that is of no form.                                   *)
LEMMA AskKeeps ==
    ASSUME BalanceInv, NEW t \in Reads, reads' = reads \cup {t}, t.who \notin Slots, t.next = "none",
           ~t.ends, ~t.hit => t.qty = Absent,
           UNCHANGED <<balanceView, stockHeld, chosen, shownQty, submit, submitFor, confused>>
    PROVE  reads' \subseteq Reads /\ ReadsAreCurrent' /\ FollowUpInv' /\ FormInv'
<1>1. reads' \subseteq Reads
  BY DEF BalanceInv, BalanceTypes
<1>2. ReadsAreCurrent'
  BY Zenon DEF BalanceInv, ReadsAreCurrent
<1>3. FollowUpInv'
  BY Zenon DEF BalanceInv, FollowUpInv
<1>4. FormInv'
  <2>1. \A s : Loading(s) # {} => Loading(s)' # {}
    BY DEF Loading
  <2>2. t.who # "from"
    BY DEF Slots
  <2> QED
    BY <2>1, <2>2, Zenon DEF BalanceInv, FormInv, Destination
<1> QED
  BY <1>1, <1>2, <1>3, <1>4

(* All balances of the store are read, to prime the cache.                   *)
LEMMA PrimeKeeps == ASSUME BalanceInv, getStockBalancesForStore PROVE BalanceInv'
<1>t. PICK t : t = [who |-> "prime", bucket |-> "AVAILABLE", qty |-> Absent, hit |-> FALSE,
                    late |-> FALSE, next |-> "none", ends |-> FALSE]
  OBVIOUS
<1>a. /\ reads' = reads \cup {t}
      /\ UNCHANGED <<balanceView, otherCmd, anonymous, stockHeld, balanceCache, suspect, countLine,
                     countEntries, viewQty, applied, chosen, shownQty, submit, submitFor, confused>>
  BY <1>t, Zenon DEF getStockBalancesForStore, dbVars, countVars, formVars
<1>b. t \in Reads /\ t.who = "prime" /\ t.next = "none" /\ t.qty = Absent /\ ~t.ends
  <2>1. \A h, l, e \in BOOLEAN :
            LET x == [who |-> "prime", bucket |-> "AVAILABLE", qty |-> Absent, hit |-> h, late |-> l,
                      next |-> "none", ends |-> e]
            IN  x \in Reads /\ x.who = "prime" /\ x.next = "none" /\ x.qty = Absent /\ x.ends = e
    BY DEF Reads, Readers, Buckets, Absent
  <2> QED
    BY <1>t, <2>1, Zenon
<1>c. "prime" \notin Slots /\ "prime" \notin CountLines
  BY BalanceAssumption DEF Slots
<1>1. reads' \subseteq Reads /\ ReadsAreCurrent' /\ FollowUpInv' /\ FormInv'
  BY <1>a, <1>b, <1>c, AskKeeps, Zenon
<1>2. BalanceTypes'
  BY <1>a, <1>1, Zenon DEF BalanceInv, BalanceTypes
<1>3. CacheIsCurrent'
  BY <1>a DEF BalanceInv, CacheIsCurrent, Unanswered
<1>4. LineInv'
  BY <1>a, <1>b, <1>c DEF BalanceInv, LineInv, variance
<1>5. MovementsAreAttributed'
  BY <1>a, Zenon DEF BalanceInv, MovementsAreAttributed
<1> QED
  BY <1>1, <1>2, <1>3, <1>4, <1>5, Zenon DEF BalanceInv

(* A line is committed: it was open, so that no read of it is under way.     *)
LEMMA CountCommitKeeps ==
    ASSUME BalanceInv, NEW l \in CountLines, NEW n \in Quantities, handleCountCommit(l, n) PROVE BalanceInv'
<1>t. PICK t : t = getStockBalanceForBucket(l, "AVAILABLE", "none", FALSE)
  OBVIOUS
<1>a. /\ reads' = reads \cup {t} /\ countLine[l].phase = "open"
      /\ countLine' = [countLine EXCEPT ![l].phase = "reading", ![l].counted = n]
      /\ UNCHANGED <<balanceView, otherCmd, anonymous, stockHeld, balanceCache, suspect,
                     countEntries, viewQty, applied, chosen, shownQty, submit, submitFor, confused>>
  BY <1>t, Zenon DEF handleCountCommit, getStockBalance, dbVars, formVars
<1>b. t \in Reads /\ t.who = l /\ t.next = "none" /\ ~t.ends /\ (~t.hit => t.qty = Absent)
  <2>1. l \in Readers /\ "AVAILABLE" \in Buckets /\ "none" \in Buckets \cup {"none"}
    BY DEF Readers, Buckets
  <2>2. BalanceTypes
    BY Zenon DEF BalanceInv
  <2>3. AskedFor(t, l, "AVAILABLE", "none", FALSE)
    BY <1>t, <2>1, <2>2, NewRead, Zenon DEF BalanceTypes
  <2> QED
    BY <2>3, Zenon DEF AskedFor
<1>c. /\ countLine' \in [CountLines -> Lines] /\ countLine'[l].phase = "reading"
      /\ \A k \in CountLines : k # l => countLine'[k] = countLine[k]
  <2>1. countLine \in [CountLines -> Lines]
    BY Zenon DEF BalanceInv, BalanceTypes
  <2>2. n \in Int
    BY BalanceAssumption DEF Quantities
  <2> QED
    BY <1>a, <2>1, <2>2 DEF Lines, Phases
<1>d. l \notin Slots
  BY BalanceAssumption DEF Slots
<1>1. reads' \subseteq Reads /\ ReadsAreCurrent' /\ FollowUpInv' /\ FormInv'
  BY <1>a, <1>b, <1>d, AskKeeps, Zenon
<1>2. BalanceTypes'
  BY <1>a, <1>c, <1>1, Zenon DEF BalanceInv, BalanceTypes
<1>3. CacheIsCurrent'
  <2>1. Unanswered => Unanswered'
    BY <1>a, <1>c DEF Unanswered
  <2> QED
    BY <1>a, <2>1 DEF BalanceInv, CacheIsCurrent
<1>4. LineInv'
  BY <1>a, <1>b, <1>c DEF BalanceInv, LineInv, variance
<1>5. MovementsAreAttributed'
  BY <1>a, Zenon DEF BalanceInv, MovementsAreAttributed
<1> QED
  BY <1>1, <1>2, <1>3, <1>4, <1>5, Zenon DEF BalanceInv

(* A change of what is available leaves the damaged stock alone.             *)
LEMMA DeltaFacts ==
    ASSUME NEW n \in Int PROVE Delta("AVAILABLE", n) \in [Buckets -> Int] /\ Delta("AVAILABLE", n)["DAMAGED"] = 0
  BY DEF Delta, Buckets

(* A command of another screen runs; a transfer command leaves the cache.    *)
LEMMA OthersRunKeeps ==
    ASSUME BalanceInv, NEW n \in Int, OtherRuns(n) \/ TransferRuns(n) PROVE BalanceInv'
<1>a. /\ RunCommand(Delta("AVAILABLE", n))
      /\ UNCHANGED <<balanceView, balanceCache, anonymous, countLine, countEntries, viewQty, applied, chosen,
                     shownQty, submit, submitFor, confused>>
      /\ \/ otherCmd' = "ran"
         \/ /\ otherCmd' = otherCmd
            /\ suspect' = IF balanceCache["AVAILABLE"] # Absent THEN suspect \cup {"AVAILABLE"} ELSE suspect
  BY Zenon DEF OtherRuns, TransferRuns, countVars, formVars
<1>b. /\ stockHeld' \in [Buckets -> Int] /\ Carried /\ ReadsAreCurrent'
      /\ stockHeld'["DAMAGED"] = stockHeld["DAMAGED"]
  <2>1. BalanceTypes /\ ReadsAreCurrent /\ "DAMAGED" \in Buckets
    BY DEF BalanceInv, Buckets
  <2> QED
    BY <1>a, <2>1, CommandFacts, DeltaFacts, Zenon
<1>1. BalanceTypes'
  <2>1. reads' \subseteq Reads
    BY <1>b, CarriedFacts, Zenon DEF BalanceInv
  <2> QED
    BY <1>a, <1>b, <2>1, Zenon DEF BalanceInv, BalanceTypes
<1>2. CacheIsCurrent'
  BY <1>a, <1>b DEF BalanceInv, CacheIsCurrent, Unanswered, Buckets
<1>3. LineInv'
  BY <1>a, <1>b, CarriedKeepsLines, Zenon
<1>4. FollowUpInv' /\ FormInv'
  BY <1>a, <1>b, CarriedKeepsForm, Zenon
<1>5. MovementsAreAttributed'
  BY <1>a, Zenon DEF BalanceInv, MovementsAreAttributed
<1> QED
  BY <1>b, <1>1, <1>2, <1>3, <1>4, <1>5, Zenon DEF BalanceInv

(* An invalidated cache holds nothing.                                       *)
LEMMA InvalidateFacts ==
    invalidateStockBalanceCache
        => balanceCache' \in [Buckets -> Int] /\ \A b \in Buckets : balanceCache'[b] = Absent
  BY DEF invalidateStockBalanceCache, Absent

(* Steps of the cache and of the session.                                    *)
LEMMA CacheStepsKeep ==
    ASSUME BalanceInv, (\E b \in Buckets : EntryExpires(b)) \/ OtherAnswers \/ loadSession PROVE BalanceInv'
<1>a. UNCHANGED <<balanceView, stockHeld, reads, anonymous, countVars, formVars>>
  BY Zenon DEF EntryExpires, OtherAnswers, loadSession, dbVars
<1>b. balanceCache \in [Buckets -> Int]
  BY Zenon DEF BalanceInv, BalanceTypes
<1>1. CASE \E b \in Buckets : EntryExpires(b)
  <2>1. PICK b \in Buckets : EntryExpires(b)
    BY <1>1
  <2>2. /\ balanceCache' = [balanceCache EXCEPT ![b] = Absent] /\ suspect' = suspect \ {b} /\ stockHeld' = stockHeld
        /\ UNCHANGED <<otherCmd, submit, countLine>>
    BY <2>1, Zenon DEF EntryExpires, countVars, formVars
  <2>3. balanceCache' \in [Buckets -> Int]
    BY <1>b, <2>2 DEF Absent
  <2>4. CacheIsCurrent'
    BY <1>b, <2>2 DEF BalanceInv, CacheIsCurrent, Unanswered
  <2> QED
    BY <1>a, <2>3, <2>4, CacheStepKeeps, Zenon
<1>2. CASE OtherAnswers
  <2>1. balanceCache' \in [Buckets -> Int] /\ \A b \in Buckets : balanceCache'[b] = Absent
    BY <1>2, InvalidateFacts, Zenon DEF OtherAnswers
  <2>2. CacheIsCurrent'
    BY <2>1 DEF CacheIsCurrent
  <2> QED
    BY <1>a, <2>1, <2>2, CacheStepKeeps, Zenon
<1>3. CASE loadSession
  <2>1. UNCHANGED <<balanceCache, suspect, otherCmd>>
    BY <1>3, Zenon DEF loadSession, dbVars
  <2>2. UNCHANGED <<submit, countLine, stockHeld>>
    BY <1>a, Zenon DEF countVars, formVars
  <2>3. CacheIsCurrent'
    BY <2>1, <2>2 DEF BalanceInv, CacheIsCurrent, Unanswered
  <2> QED
    BY <1>a, <1>b, <2>1, <2>3, CacheStepKeeps, Zenon
<1> QED
  BY <1>1, <1>2, <1>3

(* Unchanged reads are carried on.                                           *)
LEMMA SameReadsCarried == BalanceTypes /\ UNCHANGED reads => Carried
<1> SUFFICES ASSUME BalanceTypes, UNCHANGED reads PROVE Carried
  OBVIOUS
<1> DEFINE f == [r \in reads |-> r]
<1>1. f \in [reads -> Reads] /\ reads' = {f[r] : r \in reads} /\ \A r \in reads : SameRead(r, f[r])
  BY DEF BalanceTypes, SameRead
<1> QED
  BY <1>1, Zenon DEF Carried

(* Attributed movements have a name.                                         *)
LEMMA AttributedFacts == Attributed # ""
  BY DEF Attributed

(* The adjustment of a line runs, or is refused.                             *)
LEMMA AdjustRunsKeeps ==
    ASSUME BalanceInv, NEW l \in CountLines, AdjustRuns(l) PROVE BalanceInv'
<1>a. /\ countLine[l].phase = "sent"
      /\ UNCHANGED <<balanceView, balanceCache, suspect, otherCmd, countEntries, viewQty, chosen, shownQty,
                     submit, submitFor, confused>>
  BY Zenon DEF AdjustRuns, formVars
<1>b. BalanceTypes /\ LineInv /\ ReadsAreCurrent /\ CacheIsCurrent /\ MovementsAreAttributed
  BY Zenon DEF BalanceInv
<1>c. /\ countLine \in [CountLines -> Lines] /\ applied \in [CountLines -> Int] /\ countLine[l] \in Lines
      /\ variance(l) \in Int
  <2>1. countLine \in [CountLines -> Lines] /\ applied \in [CountLines -> Int] /\ countLine[l] \in Lines
    BY <1>b DEF BalanceTypes
  <2> QED
    BY <2>1 DEF variance, Lines
<1>1. CASE /\ RunCommand(Delta("AVAILABLE", variance(l)))
           /\ countLine' = [countLine EXCEPT ![l].phase = "ran"]
           /\ applied' = [applied EXCEPT ![l] = variance(l)]
           /\ anonymous' = (anonymous \/ Attributed = "")
  <2>a. stockHeld' \in [Buckets -> Int] /\ Carried /\ ReadsAreCurrent'
    BY <1>b, <1>c, <1>1, CommandFacts, DeltaFacts, Zenon
  <2>b. /\ countLine' \in [CountLines -> Lines] /\ countLine'[l].phase = "ran"
        /\ countLine'[l].counted = countLine[l].counted /\ countLine'[l].sys = countLine[l].sys
        /\ \A k \in CountLines : k # l => countLine'[k] = countLine[k]
    BY <1>c, <1>1 DEF Lines, Phases
  <2>c. /\ applied' \in [CountLines -> Int] /\ applied'[l] = variance(l)
        /\ \A k \in CountLines : k # l => applied'[k] = applied[k]
    BY <1>c, <1>1
  <2>1. BalanceTypes'
    <3>1. reads' \subseteq Reads
      BY <1>b, <2>a, CarriedFacts, Zenon
    <3> QED
      BY <1>a, <1>b, <2>a, <2>b, <2>c, <3>1, Zenon DEF BalanceTypes
  <2>2. CacheIsCurrent'
    BY <2>b DEF CacheIsCurrent, Unanswered
  <2>3. LineInv'
    <3>1. /\ \A t \in reads' : \E r \in reads : SameRead(r, t)
          /\ \A t, u \in reads' : t.who \in CountLines /\ t.who = u.who => t = u
      BY <1>b, <2>a, CarriedFacts, Zenon
    <3>2. \A t \in reads' : t.who \in CountLines => countLine'[t.who].phase = "reading"
      BY <1>a, <1>b, <2>b, <3>1 DEF LineInv, SameRead
    <3>3. ASSUME NEW k \in CountLines
          PROVE  /\ countLine'[k].phase \in {"ran", "done"} => applied'[k] = variance(k)'
                 /\ countLine'[k].phase \notin {"ran", "done"} => applied'[k] = 0
                 /\ countLine'[k].phase # "done" => k \notin countEntries'
      BY <1>a, <1>b, <2>b, <2>c DEF LineInv, variance
    <3> QED
      BY <3>1, <3>2, <3>3, Zenon DEF LineInv
  <2>4. FollowUpInv' /\ FormInv'
    BY <1>a, <2>a, CarriedKeepsForm, Zenon
  <2>5. MovementsAreAttributed'
    BY <1>b, <1>1, AttributedFacts, Zenon DEF MovementsAreAttributed
  <2> QED
    BY <2>a, <2>1, <2>2, <2>3, <2>4, <2>5, Zenon DEF BalanceInv
<1>2. CASE /\ countLine' = [countLine EXCEPT ![l].phase = "refused"]
           /\ UNCHANGED <<stockHeld, reads, applied, anonymous>>
  <2>b. /\ countLine' \in [CountLines -> Lines] /\ countLine'[l].phase = "refused"
        /\ \A k \in CountLines : k # l => countLine'[k] = countLine[k]
    BY <1>c, <1>2 DEF Lines, Phases
  <2>1. BalanceTypes'
    BY <1>a, <1>b, <1>2, <2>b, Zenon DEF BalanceTypes
  <2>2. CacheIsCurrent'
    <3>1. Unanswered => Unanswered'
      BY <1>a, <2>b DEF Unanswered
    <3> QED
      BY <1>a, <1>b, <1>2, <3>1 DEF CacheIsCurrent
  <2>3. LineInv'
    BY <1>a, <1>b, <1>2, <2>b DEF LineInv, variance
  <2>4. Carried
    BY <1>b, <1>2, SameReadsCarried, Zenon
  <2>5. FollowUpInv' /\ FormInv'
    BY <1>a, <2>4, CarriedKeepsForm, Zenon
  <2>6. ReadsAreCurrent' /\ MovementsAreAttributed'
    BY <1>b, <1>2, Zenon DEF ReadsAreCurrent, MovementsAreAttributed
  <2> QED
    BY <2>1, <2>2, <2>3, <2>5, <2>6, Zenon DEF BalanceInv
<1> QED
  BY <1>1, <1>2, Zenon DEF AdjustRuns

(* The adjustment is answered: the line joins the sheet, or it failed.       *)
LEMMA CountAnswersKeeps ==
    ASSUME BalanceInv, NEW l \in CountLines, CountAnswers(l) PROVE BalanceInv'
<1>a. /\ UNCHANGED <<balanceView, stockHeld, reads, applied, otherCmd, anonymous, chosen, shownQty,
                     submit, submitFor, confused>>
      /\ countLine' = [countLine EXCEPT ![l].phase = IF @ = "ran" THEN "done" ELSE "failed"]
      /\ countEntries' = IF countLine[l].phase = "ran" THEN countEntries \cup {l} ELSE countEntries
      /\ \/ countLine[l].phase = "ran" /\ invalidateStockBalanceCache /\ viewQty' = countLine[l].counted
         \/ countLine[l].phase = "refused" /\ UNCHANGED <<balanceCache, suspect, viewQty>>
  BY Zenon DEF CountAnswers, adjustStock, formVars
<1>b. BalanceTypes /\ LineInv /\ ReadsAreCurrent /\ CacheIsCurrent /\ MovementsAreAttributed
  BY Zenon DEF BalanceInv
<1>c. /\ countLine \in [CountLines -> Lines] /\ countLine[l].counted \in Int /\ viewQty \in Int
  BY <1>b DEF BalanceTypes, Lines
<1>d. /\ countLine' \in [CountLines -> Lines]
      /\ countLine'[l].phase = IF countLine[l].phase = "ran" THEN "done" ELSE "failed"
      /\ countLine'[l].counted = countLine[l].counted /\ countLine'[l].sys = countLine[l].sys
      /\ \A k \in CountLines : k # l => countLine'[k] = countLine[k]
  <2>1. PICK p \in Phases : p = IF countLine[l].phase = "ran" THEN "done" ELSE "failed"
    BY DEF Phases
  <2>2. countLine' = [countLine EXCEPT ![l].phase = p]
    BY <1>a, <2>1
  <2> QED
    BY <1>c, <2>1, <2>2 DEF Lines
<1>e. balanceCache \in [Buckets -> Int]
  BY <1>b, Zenon DEF BalanceTypes
<1>1. balanceCache' \in [Buckets -> Int] /\ CacheIsCurrent'
  <2>1. CASE countLine[l].phase = "ran"
    <3>1. invalidateStockBalanceCache
      BY <1>a, <2>1
    <3> QED
      BY <3>1, InvalidateFacts DEF CacheIsCurrent
  <2>2. CASE countLine[l].phase # "ran"
    <3>1. Unanswered => Unanswered'
      BY <1>a, <1>d, <2>2 DEF Unanswered
    <3> QED
      BY <1>a, <1>b, <1>e, <2>2, <3>1 DEF CacheIsCurrent
  <2> QED
    BY <2>1, <2>2
<1>2. BalanceTypes'
  <2>1. viewQty' \in Int
    BY <1>a, <1>c
  <2> QED
    BY <1>a, <1>b, <1>d, <1>1, <2>1, Zenon DEF BalanceTypes
<1>3. LineInv'
  <2>1. \A t \in reads' : t.who \in CountLines => countLine'[t.who].phase = "reading"
    BY <1>a, <1>b, <1>d DEF LineInv
  <2>2. \A t, u \in reads' : t.who \in CountLines /\ t.who = u.who => t = u
    BY <1>a, <1>b DEF LineInv
  <2>3. ASSUME NEW k \in CountLines
        PROVE  /\ countLine'[k].phase \in {"ran", "done"} => applied'[k] = variance(k)'
               /\ countLine'[k].phase \notin {"ran", "done"} => applied'[k] = 0
               /\ countLine'[k].phase # "done" => k \notin countEntries'
    BY <1>a, <1>b, <1>d DEF LineInv, variance
  <2> QED
    BY <2>1, <2>2, <2>3, Zenon DEF LineInv
<1>4. Carried
  BY <1>a, <1>b, SameReadsCarried, Zenon
<1>5. FollowUpInv' /\ FormInv'
  BY <1>a, <1>4, CarriedKeepsForm, Zenon
<1>6. ReadsAreCurrent' /\ MovementsAreAttributed'
  BY <1>a, <1>b, Zenon DEF ReadsAreCurrent, MovementsAreAttributed
<1> QED
  BY <1>1, <1>2, <1>3, <1>5, <1>6, Zenon DEF BalanceInv

(* Lines leave the sheet.                                                    *)
LEMMA SheetKeeps ==
    ASSUME BalanceInv, (\E l \in CountLines : handleVoidCount(l)) \/ handleReset PROVE BalanceInv'
<1>a. /\ countEntries' \subseteq countEntries
      /\ UNCHANGED <<balanceView, stockHeld, balanceCache, suspect, reads, applied, otherCmd, anonymous,
                     countLine, viewQty, chosen, shownQty, submit, submitFor, confused>>
  BY Zenon DEF handleVoidCount, handleReset, dbVars, formVars
<1>1. BalanceTypes' /\ ReadsAreCurrent' /\ FollowUpInv' /\ MovementsAreAttributed'
  BY <1>a, Zenon DEF BalanceInv, BalanceTypes, ReadsAreCurrent, FollowUpInv, MovementsAreAttributed
<1>2. CacheIsCurrent'
  BY <1>a DEF BalanceInv, CacheIsCurrent, Unanswered
<1>3. LineInv'
  BY <1>a DEF BalanceInv, LineInv, variance
<1>4. FormInv'
  BY <1>a DEF BalanceInv, FormInv, Loading, SlotsOf, Destination
<1> QED
  BY <1>1, <1>2, <1>3, <1>4, Zenon DEF BalanceInv
(* A form reads its balances again.                                          *)
LEMMA LoadFacts ==
    ASSUME balanceCache \in [Buckets -> Int], NEW c \in [Slots -> Buckets], NEW e \in BOOLEAN
    PROVE  \E t : /\ StartLoad(c, e) = {t}
                  /\ AskedFor(t, "from", c["from"], IF balanceView = "return" THEN "none" ELSE c["to"], e)
<1>a. "from" \in Readers /\ c["from"] \in Buckets /\ c["to"] \in Buckets
  BY DEF Readers, Slots
<1>1. CASE balanceView = "return"
  <2>1. AskedFor(getStockBalanceForBucket("from", c["from"], "none", e), "from", c["from"], "none", e)
    <3>1. "none" \in Buckets \cup {"none"}
      OBVIOUS
    <3> QED
      BY <1>a, <3>1, NewRead, Zenon
  <2> QED
    BY <1>1, <2>1, Zenon DEF StartLoad, loadBucketQuantity
<1>2. CASE balanceView # "return"
  <2>1. AskedFor(getStockBalanceForBucket("from", c["from"], c["to"], e), "from", c["from"], c["to"], e)
    <3>1. c["to"] \in Buckets \cup {"none"}
      BY <1>a
    <3> QED
      BY <1>a, <3>1, NewRead, Zenon
  <2> QED
    BY <1>2, <2>1, Zenon DEF StartLoad, loadBucketBalances
<1> QED
  BY <1>1, <1>2

(* A load begins with no other under way: the form waits for all its slots.  *)
LEMMA LoadKeepsForm ==
    ASSUME BalanceInv, NEW t, reads' = reads \cup {t}, balanceView' = balanceView,
           NEW e, AskedFor(t, "from", chosen'["from"], Destination', e),
           chosen' \in [Slots -> Buckets],
           Loading("from") \cup Loading("to") = {}, submit' # "idle" => submitFor' = chosen'
    PROVE  FormInv'
<1>a. \A r \in reads : r.who \notin Slots
  BY DEF Loading, Slots
<1>b. t.who = "from" /\ t.bucket = chosen'["from"] /\ t.next = Destination'
  BY Zenon DEF AskedFor
<1>c. balanceView' # "return" => Destination' # "none"
  BY DEF Destination, Buckets, Slots
<1>1. \A r \in reads' : /\ r.who \in Slots => r.bucket = chosen'[r.who]
                        /\ r.who = "from" => r.next = Destination'
  BY <1>a, <1>b DEF Slots
<1>2. \A s \in SlotsOf(balanceView') : Loading(s)' # {}
  BY <1>b, <1>c DEF Loading, SlotsOf, Slots
<1> QED
  BY <1>1, <1>2, Zenon DEF FormInv

(* A bucket is chosen.                                                       *)
LEMMA ChooseKeeps ==
    ASSUME BalanceInv, NEW s \in Slots, NEW b \in Buckets, ChooseBucket(s, b) PROVE BalanceInv'
<1>a. /\ chosen' = [chosen EXCEPT ![s] = b] /\ reads' = reads \cup StartLoad(chosen', FALSE)
      /\ UNCHANGED <<balanceView, shownQty, submit, submitFor, otherCmd, anonymous, stockHeld, balanceCache,
                     suspect, countLine, countEntries, viewQty, applied>>
      /\ ~confused' => Loading("from") \cup Loading("to") = {} /\ submit = "idle"
  BY Zenon DEF ChooseBucket, ReloadOnChoice, dbVars, countVars
<1>b. BalanceTypes /\ LineInv /\ ReadsAreCurrent /\ CacheIsCurrent /\ MovementsAreAttributed /\ FollowUpInv
  BY Zenon DEF BalanceInv
<1>c. chosen' \in [Slots -> Buckets]
  BY <1>a, <1>b DEF BalanceTypes
<1>d. PICK t : /\ StartLoad(chosen', FALSE) = {t}
               /\ AskedFor(t, "from", chosen'["from"],
                           IF balanceView = "return" THEN "none" ELSE chosen'["to"], FALSE)
  <2>1. PICK c \in [Slots -> Buckets] : c = chosen'
    BY <1>c
  <2> QED
    BY <1>b, <2>1, LoadFacts, Zenon DEF BalanceTypes
<1>e. reads' = reads \cup {t} /\ AskedFor(t, "from", chosen'["from"], Destination', FALSE)
  <2>1. Destination' = IF balanceView = "return" THEN "none" ELSE chosen'["to"]
    BY <1>a DEF Destination
  <2>2. reads' = reads \cup {t}
    BY <1>a, <1>d, Zenon
  <2>3. AskedFor(t, "from", chosen'["from"], Destination', FALSE)
    BY <1>d, <2>1
  <2> QED
    BY <2>2, <2>3
<1>f. t \in Reads /\ t.who = "from" /\ ~t.ends /\ (~t.hit => t.qty = Absent)
  BY <1>d, Zenon DEF AskedFor
<1>g. "from" \notin CountLines
  BY BalanceAssumption
<1>1. BalanceTypes'
  <2>1. reads' \subseteq Reads
    BY <1>b, <1>e, <1>f DEF BalanceTypes
  <2> QED
    BY <1>a, <1>b, <1>c, <2>1, Zenon DEF BalanceTypes
<1>2. ReadsAreCurrent' /\ MovementsAreAttributed'
  BY <1>a, <1>b, <1>e, <1>f, Zenon DEF ReadsAreCurrent, MovementsAreAttributed
<1>3. CacheIsCurrent'
  BY <1>a, <1>b DEF CacheIsCurrent, Unanswered
<1>4. LineInv'
  BY <1>a, <1>b, <1>e, <1>f, <1>g DEF LineInv, variance
<1>5. FollowUpInv'
  BY <1>a, <1>b, <1>e, <1>f, Zenon DEF FollowUpInv
<1>6. FormInv'
  <2>1. CASE confused'
    BY <2>1, Zenon DEF FormInv
  <2>2. CASE ~confused'
    BY <1>a, <1>c, <1>e, <2>2, LoadKeepsForm, Zenon
  <2> QED
    BY <2>1, <2>2
<1> QED
  BY <1>1, <1>2, <1>3, <1>4, <1>5, <1>6, Zenon DEF BalanceInv

(* A form is submitted: its command runs, or is refused.                     *)
LEMMA SubmitRunsKeeps == ASSUME BalanceInv, SubmitRuns PROVE BalanceInv'
<1>a. /\ submit = "idle" /\ submitFor' = chosen
      /\ UNCHANGED <<balanceView, balanceCache, suspect, chosen, shownQty, confused, otherCmd, countLine,
                     countEntries, viewQty, applied>>
      /\ \/ /\ (\E out \in BOOLEAN : handleReturnSubmit(out)) \/ handleDamageSubmit
            /\ submit' = "ran" /\ anonymous' = (anonymous \/ Attributed = "")
         \/ submit' = "refused" /\ UNCHANGED <<stockHeld, reads, anonymous>>
  BY Zenon DEF SubmitRuns, countVars
<1>b. BalanceTypes /\ LineInv /\ ReadsAreCurrent /\ CacheIsCurrent /\ MovementsAreAttributed
  BY Zenon DEF BalanceInv
<1>c. /\ stockHeld' \in [Buckets -> Int] /\ Carried /\ ReadsAreCurrent'
      /\ submit' = "ran" \/ stockHeld' = stockHeld
  <2>1. CASE \E out \in BOOLEAN : handleReturnSubmit(out)
    <3>1. PICK out \in BOOLEAN : RunCommand(ReturnDelta(out))
      BY <2>1, Zenon DEF handleReturnSubmit
    <3>2. PICK d : d = ReturnDelta(out)
      OBVIOUS
    <3>3. d \in [Buckets -> Int]
      BY <3>2 DEF ReturnDelta, Delta
    <3>4. stockHeld' \in [Buckets -> Int] /\ Carried /\ ReadsAreCurrent'
      BY <1>b, <3>1, <3>2, <3>3, CommandFacts, Zenon
    <3>5. submit' = "ran" \/ stockHeld' = stockHeld
      BY <1>a, Zenon
    <3> QED
      BY <3>4, <3>5
  <2>2. CASE handleDamageSubmit
    <3>1. RunCommand(DamageDelta)
      BY <2>2, Zenon DEF handleDamageSubmit
    <3>2. PICK d : d = DamageDelta
      OBVIOUS
    <3>3. d \in [Buckets -> Int]
      BY <3>2 DEF DamageDelta
    <3>4. stockHeld' \in [Buckets -> Int] /\ Carried /\ ReadsAreCurrent'
      BY <1>b, <3>1, <3>2, <3>3, CommandFacts, Zenon
    <3>5. submit' = "ran" \/ stockHeld' = stockHeld
      BY <1>a, Zenon
    <3> QED
      BY <3>4, <3>5
  <2>3. CASE UNCHANGED <<stockHeld, reads>>
    <3>1. Carried
      BY <1>b, <2>3, SameReadsCarried, Zenon
    <3> QED
      BY <1>b, <2>3, <3>1, Zenon DEF BalanceTypes, ReadsAreCurrent
  <2> QED
    BY <1>a, <2>1, <2>2, <2>3, Zenon
<1>1. BalanceTypes'
  <2>1. reads' \subseteq Reads
    BY <1>b, <1>c, CarriedFacts, Zenon
  <2>2. submitFor' \in [Slots -> Buckets]
    BY <1>a, <1>b, Zenon DEF BalanceTypes
  <2> QED
    BY <1>a, <1>b, <1>c, <2>1, <2>2, Zenon DEF BalanceTypes
<1>2. CacheIsCurrent'
  <2>1. CASE submit' = "ran"
    BY <2>1, Zenon DEF CacheIsCurrent, Unanswered
  <2>2. CASE stockHeld' = stockHeld
    <3>1. Unanswered => Unanswered'
      BY <1>a DEF Unanswered
    <3> QED
      BY <1>a, <1>b, <2>2, <3>1 DEF CacheIsCurrent
  <2> QED
    BY <1>c, <2>1, <2>2
<1>3. LineInv'
  BY <1>a, <1>c, CarriedKeepsLines, Zenon
<1>4. FollowUpInv' /\ FormInv'
  <2>1. submit = "reload" => submit' = "reload"
    BY <1>a
  <2> QED
    BY <1>a, <1>c, <2>1, CarriedKeepsForm, Zenon
<1>5. MovementsAreAttributed'
  BY <1>a, <1>b, AttributedFacts, Zenon DEF MovementsAreAttributed
<1> QED
  BY <1>c, <1>1, <1>2, <1>3, <1>4, <1>5, Zenon DEF BalanceInv

(* The command is answered; its form loads the balances again.               *)
LEMMA SubmitAnswersKeeps == ASSUME BalanceInv, SubmitAnswers PROVE BalanceInv'
<1>a. /\ UNCHANGED <<balanceView, stockHeld, chosen, shownQty, submitFor, otherCmd, anonymous, countLine,
                     countEntries, viewQty, applied>>
      /\ \/ /\ submit = "ran" /\ invalidateStockBalanceCache /\ submit' = "reload"
            /\ reads' = reads \cup StartLoad(submitFor, TRUE)
            /\ ~confused' => ~confused /\ Loading("from") \cup Loading("to") = {}
         \/ /\ submit = "refused" /\ submit' = "idle"
            /\ UNCHANGED <<balanceCache, suspect, reads, confused>>
  BY Zenon DEF SubmitAnswers, returnStock, moveStockBucket, ReloadAfter, countVars
<1>b. BalanceTypes /\ LineInv /\ ReadsAreCurrent /\ CacheIsCurrent /\ MovementsAreAttributed /\ FollowUpInv /\ FormInv
  BY Zenon DEF BalanceInv
<1>1. CASE submit = "ran"
  <2>a. /\ invalidateStockBalanceCache /\ submit' = "reload"
        /\ reads' = reads \cup StartLoad(submitFor, TRUE)
        /\ ~confused' => ~confused /\ Loading("from") \cup Loading("to") = {}
    BY <1>a, <1>1
  <2>b. balanceCache' \in [Buckets -> Int] /\ CacheIsCurrent'
    BY <2>a, InvalidateFacts DEF CacheIsCurrent
  <2>c. PICK t : /\ StartLoad(submitFor, TRUE) = {t}
                 /\ AskedFor(t, "from", submitFor["from"],
                             IF balanceView = "return" THEN "none" ELSE submitFor["to"], TRUE)
    <3>1. PICK c \in [Slots -> Buckets] : c = submitFor
      BY <1>b, Zenon DEF BalanceTypes
    <3> QED
      BY <1>b, <3>1, LoadFacts, Zenon DEF BalanceTypes
  <2>d. reads' = reads \cup {t} /\ t \in Reads /\ t.who = "from" /\ t.ends /\ (~t.hit => t.qty = Absent)
    BY <2>a, <2>c, Zenon DEF AskedFor
  <2>e. "from" \notin CountLines
    BY BalanceAssumption
  <2>f. \A r \in reads : ~r.ends
    BY <1>b, <1>1 DEF FollowUpInv
  <2>1. BalanceTypes'
    <3>1. reads' \subseteq Reads
      BY <1>b, <2>d DEF BalanceTypes
    <3> QED
      BY <1>a, <1>b, <2>b, <3>1, Zenon DEF BalanceTypes
  <2>2. ReadsAreCurrent' /\ MovementsAreAttributed'
    BY <1>a, <1>b, <2>d, Zenon DEF ReadsAreCurrent, MovementsAreAttributed
  <2>3. LineInv'
    BY <1>a, <1>b, <2>d, <2>e DEF LineInv, variance
  <2>4. FollowUpInv'
    BY <1>b, <2>a, <2>d, <2>f, Zenon DEF FollowUpInv
  <2>5. FormInv'
    <3>1. CASE confused'
      BY <3>1, Zenon DEF FormInv
    <3>2. CASE ~confused'
      <4>1. submitFor = chosen
        BY <1>b, <1>1, <2>a, <3>2 DEF FormInv
      <4>2. chosen' \in [Slots -> Buckets] /\ submitFor' = chosen'
        BY <1>a, <1>b, <4>1, Zenon DEF BalanceTypes
      <4>3. AskedFor(t, "from", chosen'["from"], Destination', TRUE)
        BY <1>a, <2>c, <4>1, Zenon DEF Destination
      <4> QED
        BY <1>a, <2>a, <2>d, <3>2, <4>2, <4>3, LoadKeepsForm, Zenon
    <3> QED
      BY <3>1, <3>2
  <2> QED
    BY <2>b, <2>1, <2>2, <2>3, <2>4, <2>5, Zenon DEF BalanceInv
<1>2. CASE submit = "refused"
  <2>a. submit' = "idle" /\ UNCHANGED <<balanceCache, suspect, reads, confused>>
    BY <1>a, <1>2
  <2>1. BalanceTypes' /\ ReadsAreCurrent' /\ MovementsAreAttributed'
    BY <1>a, <1>b, <2>a, Zenon DEF BalanceTypes, ReadsAreCurrent, MovementsAreAttributed
  <2>2. CacheIsCurrent'
    <3>1. Unanswered => Unanswered'
      BY <1>a, <1>2 DEF Unanswered
    <3> QED
      BY <1>a, <1>b, <2>a, <3>1 DEF CacheIsCurrent
  <2>3. LineInv'
    BY <1>a, <1>b, <2>a DEF LineInv, variance
  <2>4. Carried
    BY <1>b, <2>a, SameReadsCarried, Zenon
  <2>5. FollowUpInv' /\ FormInv'
    <3>1. submit = "reload" => submit' = "reload"
      BY <1>2
    <3> QED
      BY <1>a, <2>a, <2>4, <3>1, CarriedKeepsForm, Zenon
  <2> QED
    BY <2>1, <2>2, <2>3, <2>5, Zenon DEF BalanceInv
<1> QED
  BY <1>a, <1>1, <1>2, Zenon

(* A view opens with one read, of its list or of its form.                   *)
LEMMA BalanceStarts == BalanceInit => BalanceInv
<1> SUFFICES ASSUME BalanceInit PROVE BalanceInv
  OBVIOUS
<1>a. /\ stockHeld = [b \in Buckets |-> 1] /\ balanceCache = [b \in Buckets |-> Absent] /\ viewQty = Absent
      /\ countLine = [l \in CountLines |-> [phase |-> "open", counted |-> 0, sys |-> 0]]
      /\ countEntries = {} /\ applied = [l \in CountLines |-> 0]
      /\ chosen = [s \in Slots |-> IF s = "from" THEN "AVAILABLE" ELSE "DAMAGED"]
      /\ submitFor = chosen /\ shownQty = [s \in Slots |-> NoQty] /\ submit = "idle"
      /\ reads = {getStockBalance("list")} \/ reads = StartLoad(chosen, FALSE)
  BY Zenon DEF BalanceInit
<1>b. ~anonymous
  BY Zenon DEF BalanceInit
<1>c. /\ stockHeld \in [Buckets -> Int] /\ balanceCache \in [Buckets -> Int] /\ viewQty \in Int
      /\ countLine \in [CountLines -> Lines] /\ applied \in [CountLines -> Int]
      /\ chosen \in [Slots -> Buckets] /\ submitFor \in [Slots -> Buckets]
      /\ DOMAIN shownQty = Slots /\ shownQty = [s \in Slots |-> shownQty[s]]
      /\ \A s \in Slots : shownQty[s].bucket = "none"
  BY <1>a DEF Lines, Phases, Absent, Buckets, NoQty
<1>e. AskedFor(getStockBalanceForBucket("list", "AVAILABLE", "none", FALSE), "list", "AVAILABLE", "none", FALSE)
  <2>1. "list" \in Readers /\ "AVAILABLE" \in Buckets /\ "none" \in Buckets \cup {"none"}
    BY DEF Readers, Buckets
  <2> QED
    BY <1>c, <2>1, NewRead, Zenon
<1>f. \E t : /\ StartLoad(chosen, FALSE) = {t}
             /\ AskedFor(t, "from", chosen["from"], Destination, FALSE)
  <2>1. PICK c \in [Slots -> Buckets] : c = chosen
    BY <1>c
  <2> QED
    BY <1>c, <2>1, LoadFacts, Zenon DEF Destination
<1>d. \E t : reads = {t} /\ t \in Reads /\ (~t.hit => t.qty = Absent) /\ t.who \notin CountLines
             /\ ~t.ends /\ (t.who # "from" => t.next = "none")
             /\ (t.who \in Slots => t.who = "from" /\ t.bucket = chosen["from"] /\ t.next = Destination)
  <2>1. CASE reads = {getStockBalance("list")}
    <3>1. PICK t : t = getStockBalanceForBucket("list", "AVAILABLE", "none", FALSE)
      OBVIOUS
    <3>2. AskedFor(t, "list", "AVAILABLE", "none", FALSE)
      BY <1>e, <3>1, Zenon
    <3>3. "list" \notin CountLines /\ "list" \notin Slots
      BY BalanceAssumption DEF Slots
    <3>4. /\ reads = {t} /\ t \in Reads /\ (~t.hit => t.qty = Absent) /\ t.who = "list" /\ ~t.ends
          /\ t.next = "none"
      BY <2>1, <3>1, <3>2, Zenon DEF AskedFor, getStockBalance
    <3> QED
      BY <3>3, <3>4, Zenon
  <2>2. CASE reads = StartLoad(chosen, FALSE)
    <3>1. PICK t : /\ StartLoad(chosen, FALSE) = {t}
                   /\ AskedFor(t, "from", chosen["from"], Destination, FALSE)
      BY <1>f, Zenon
    <3>2. "from" \notin CountLines
      BY BalanceAssumption
    <3>3. /\ reads = {t} /\ t \in Reads /\ (~t.hit => t.qty = Absent) /\ t.who = "from" /\ ~t.ends
          /\ t.next = Destination /\ t.bucket = chosen["from"]
      BY <2>2, <3>1, Zenon DEF AskedFor
    <3> QED
      BY <3>2, <3>3, Zenon
  <2> QED
    BY <1>a, <2>1, <2>2
<1>1. BalanceTypes
  BY <1>c, <1>d, Zenon DEF BalanceTypes
<1>2. ReadsAreCurrent /\ FollowUpInv
  BY <1>d, Zenon DEF ReadsAreCurrent, FollowUpInv
<1>3. CacheIsCurrent
  BY <1>a DEF CacheIsCurrent
<1>4. LineInv
  BY <1>a, <1>d DEF LineInv
<1>5. FormInv
  <2>1. \A s \in SlotsOf(balanceView) : s \in Slots
    BY DEF SlotsOf, Slots
  <2> QED
    <3>1. PICK t : /\ reads = {t}
                   /\ (t.who \in Slots => t.who = "from" /\ t.bucket = chosen["from"] /\ t.next = Destination)
      BY <1>d, Zenon
    <3>2. \A r \in reads : /\ r.who \in Slots => r.bucket = chosen[r.who]
                           /\ r.who = "from" => r.next = Destination
      BY <3>1 DEF Slots
    <3>3. submitFor = chosen
      BY <1>a, Zenon
    <3>4. \A s \in SlotsOf(balanceView) : shownQty[s].bucket \in {"none", chosen[s]}
      BY <1>c, <2>1
    <3> QED
      BY <3>2, <3>3, <3>4 DEF FormInv
<1> QED
  BY <1>b, <1>1, <1>2, <1>3, <1>4, <1>5, Zenon DEF BalanceInv, MovementsAreAttributed

(* Every step of the forms keeps their invariant.                            *)
LEMMA BalanceKeeps == BalanceInv /\ [BalanceNext]_balanceVars => BalanceInv'
<1> SUFFICES ASSUME BalanceInv, [BalanceNext]_balanceVars PROVE BalanceInv'
  OBVIOUS
<1>1. CASE UNCHANGED balanceVars
  <2>1. /\ UNCHANGED <<balanceView, stockHeld, reads, anonymous, countVars, formVars>>
        /\ UNCHANGED <<balanceCache, suspect, otherCmd, submit, countLine>>
    BY <1>1, Zenon DEF balanceVars, countVars, formVars
  <2>2. balanceCache' \in [Buckets -> Int]
    BY <2>1, Zenon DEF BalanceInv, BalanceTypes
  <2>3. CacheIsCurrent'
    BY <2>1 DEF BalanceInv, CacheIsCurrent, Unanswered
  <2> QED
    BY <2>1, <2>2, <2>3, CacheStepKeeps, Zenon
<1>2. CASE receiveStock \/ sellStock \/ updateTransaction \/ deleteTransaction
           \/ dispatchTransfer \/ receiveTransfer \/ cancelTransfer
  <2>1. 1 \in Int /\ -1 \in Int
    OBVIOUS
  <2> QED
    BY <1>2, <2>1, OthersRunKeeps, Zenon DEF receiveStock, sellStock, updateTransaction,
           deleteTransaction,
       dispatchTransfer, receiveTransfer, cancelTransfer
<1>3. CASE (\E b \in Buckets : EntryExpires(b)) \/ OtherAnswers
           \/ ReturnLoadSession \/ DamageLoadSession \/ CountLoadSession
  BY <1>3, CacheStepsKeep, Zenon DEF ReturnLoadSession, DamageLoadSession, CountLoadSession
<1>4. CASE \E r \in reads : \/ ReadRuns(r) \/ Primed(r)
                            \/ \E ok \in BOOLEAN : CountRead(r, ok) \/ ShowBalance(r, ok) \/ CountListLoaded(r, ok)
  BY <1>4, ReadRunsKeeps, ListReadKeeps, CountReadKeeps, ShowBalanceKeeps, Zenon
<1>5. CASE \E l \in CountLines : \/ \E n \in Quantities : handleCountCommit(l, n)
                                 \/ AdjustRuns(l) \/ CountAnswers(l) \/ handleVoidCount(l)
  BY <1>5, CountCommitKeeps, AdjustRunsKeeps, CountAnswersKeeps, SheetKeeps, Zenon
<1> QED
  BY <1>1, <1>2, <1>3, <1>4, <1>5, PrimeKeeps, SheetKeeps, ChooseKeeps, SubmitRunsKeeps,
     SubmitAnswersKeeps,
     Zenon DEF BalanceNext

(* Count, return and damage, for every number of lines, commands and         *)
(* choices: a cached balance is the current one, a line on the sheet was     *)
(* adjusted by its variance, a form shows the quantity of its bucket, and    *)
(* every movement has its user.                                              *)
THEOREM FormsTrue == BalanceInit /\ [][BalanceNext]_balanceVars => []FormsAreTrue
<1>1. BalanceInv => FormsAreTrue
  <2> SUFFICES ASSUME BalanceInv PROVE FormsAreTrue
    OBVIOUS
  <2>1. SheetIsApplied
    BY DEF BalanceInv, LineInv, SheetIsApplied
  <2>2. ShownIsOfBucket
    BY DEF BalanceInv, FormInv, ShownIsOfBucket, Loading
  <2> QED
    BY <2>1, <2>2, Zenon DEF BalanceInv, FormsAreTrue
<1> QED
  BY <1>1, BalanceStarts, BalanceKeeps, PTL
-----------------------------------------------------------------------------
Creating == tOp.stage = "creating"
Stages == {"idle", "creating", "sent", "fetching"}
Handlers == [op : {"none", "create", "dispatch", "receive", "cancel", "exception"}, id : Nat,
             stage : Stages, dispatch : BOOLEAN]

(* What the variables of the transfer screen hold.                           *)
ScreenTypes ==
    /\ tOp \in Handlers
    /\ DOMAIN tMade = Entries /\ tMade = [e \in Entries |-> tMade[e]]
    /\ tEntry \in Nat /\ tCommands \in Nat /\ tSession \in Nat

(* The flags of the screen.                                                  *)
ScreenFlags ==
    /\ tSubmitting \in BOOLEAN /\ tBlurred \in BOOLEAN
    /\ \A f \in tFetches : f.ends \in BOOLEAN

(* The buttons are disabled from the press to the end of the handler: by the *)
(* fetch it awaits, if it got that far, the only one that ends a handler.    *)
HandlerInv ==
    /\ tOp.stage # "idle" => tSubmitting
    /\ tOp.stage = "idle" => tOp = NoOp
    /\ \A f \in tFetches : f.ends => tOp.stage = "fetching"
    /\ \A f, g \in tFetches : f.ends /\ g.ends => f = g
    /\ \A f \in tFetches : f = [snap |-> f.snap, ends |-> f.ends]
    /\ Creating => tOp.op = "create" /\ tOp.id = tEntry

(* Entries to come have no transfer, the one in the form has one only while  *)
(* it is being created, and every other has one at most, unless its dispatch *)
(* failed.                                                                   *)
EntriesInv ==
    \A e \in Entries : e \notin tRetried =>
        /\ tMade[e] = {} \/ \E t : tMade[e] = {t}
        /\ e > tEntry \/ (e = tEntry /\ ~Creating) => tMade[e] = {}

(* Outside a creation, a sole fetch that has read has read the statuses of   *)
(* now, and with no fetch under way the list holds them.                     *)
CurrentInv ==
    ~tBlurred /\ ~Creating =>
        /\ tFetches = {} => tListed \in {Unread, tStatus}
        /\ \A f \in tFetches : tFetches = {f} => f.snap \in {Unread, tStatus}

TransferInv == ScreenTypes /\ ScreenFlags /\ HandlerInv /\ EntriesInv /\ CurrentInv /\ TransferIsSound
-----------------------------------------------------------------------------
(* The fields of a fetch and of a handler.                                   *)
LEMMA FetchFacts ==
    \A e \in BOOLEAN : /\ Fetch(e).snap = Unread /\ Fetch(e).ends = e
                       /\ Fetch(e) = [snap |-> Fetch(e).snap, ends |-> Fetch(e).ends]
  BY DEF Fetch

(* The fields of a handler under way, and of none.                           *)
LEMMA HandlerFacts ==
    /\ NoOp \in Handlers /\ NoOp.stage = "idle"
    /\ \A o \in Handlers, s \in Stages :
          LET n == [o EXCEPT !.stage = s]
          IN  n \in Handlers /\ n.stage = s /\ n.op = o.op /\ n.id = o.id
  BY DEF NoOp, Handlers, Stages

(* The screen opens with a fetch that has read nothing.                      *)
LEMMA TransferStarts == TransferInit => TransferInv
<1> SUFFICES ASSUME TransferInit PROVE TransferInv
  OBVIOUS
<1>a. /\ tFetches = {Fetch(FALSE)} /\ tSubmitting = FALSE /\ tOp = NoOp /\ tSession = 0 /\ tCommands = 0
      /\ tEntry = 1 /\ tMade = [e \in Entries |-> {}] /\ tBlurred = FALSE /\ tSelf = FALSE
      /\ tNameless = FALSE
  BY Zenon DEF TransferInit, Fetch
<1>b. ~Creating /\ tOp.stage = "idle"
  BY <1>a, HandlerFacts DEF Creating
<1>1. ScreenTypes
  <2>1. tSession \in Nat /\ tCommands \in Nat /\ tEntry \in Nat
    BY <1>a
  <2>2. DOMAIN tMade = Entries /\ tMade = [e \in Entries |-> tMade[e]]
    BY <1>a
  <2> QED
    BY <1>a, <2>1, <2>2, HandlerFacts, Zenon DEF ScreenTypes
<1>2. ScreenFlags
  BY <1>a, FetchFacts, Zenon DEF ScreenFlags
<1>3. HandlerInv
  BY <1>a, <1>b, FetchFacts DEF HandlerInv
<1>4. EntriesInv
  BY <1>a DEF EntriesInv
<1>5. CurrentInv
  BY <1>a, FetchFacts DEF CurrentInv
<1>6. TransferIsSound
  BY <1>a, Zenon DEF TransferIsSound
<1> QED
  BY <1>1, <1>2, <1>3, <1>4, <1>5, <1>6, Zenon DEF TransferInv

(* Steps of the tabs, of the form and of the session, and those that load    *)
(* again: at most a fetch is begun, and a refresh forgets what was missed.   *)
LEMMA QuietKeeps ==
    ASSUME TransferInv,
           UNCHANGED <<tStatus, tListed, tSubmitting, tOp, tEntry, tMade, tRetried, tSelf, tNameless>>,
           tSession' \in Nat, tCommands' \in Nat,
           \/ tFetches' \in {tFetches, StartFetch(FALSE)} /\ tBlurred' = tBlurred
           \/ tFetches' = StartFetch(FALSE) /\ tFetches = {} /\ tBlurred' = FALSE
    PROVE  TransferInv'
<1>a. tFetches' = tFetches \/ tFetches' = tFetches \cup {Fetch(FALSE)}
  BY Zenon DEF StartFetch
<1>b. Creating' = Creating
  BY DEF Creating
<1>1. ScreenTypes'
  BY DEF ScreenTypes, TransferInv
<1>2. ScreenFlags'
  <2>1. tBlurred' \in BOOLEAN
    BY Zenon DEF ScreenFlags, TransferInv
  <2>2. \A f \in tFetches' : f.ends \in BOOLEAN
    BY <1>a, FetchFacts, Zenon DEF ScreenFlags, TransferInv
  <2> QED
    BY <2>1, <2>2, Zenon DEF ScreenFlags, TransferInv
<1>3. HandlerInv'
  BY <1>a, FetchFacts DEF HandlerInv, TransferInv, Creating
<1>4. EntriesInv'
  BY DEF EntriesInv, TransferInv, Creating
<1>5. CurrentInv'
  BY <1>a, <1>b, FetchFacts DEF CurrentInv, TransferInv, StartFetch
<1>6. TransferIsSound'
  BY DEF TransferIsSound, TransferInv
<1> QED
  BY <1>1, <1>2, <1>3, <1>4, <1>5, <1>6, Zenon DEF TransferInv

(* The entry in the form, which has no transfer, gets one.                   *)
LEMMA HandleCreateKeeps ==
    ASSUME TransferInv, NEW d \in BOOLEAN, handleCreateTransfer(d) PROVE TransferInv'
<1>a. /\ ~tSubmitting /\ tDest # tSource /\ tSubmitting' = TRUE /\ tCommands' = tCommands + 1
      /\ tOp' = [op |-> "create", id |-> tEntry, stage |-> "creating", dispatch |-> d]
      /\ UNCHANGED <<tFetches, tEntry, tRetried, tBlurred, tNameless, tSession>>
  BY Zenon DEF handleCreateTransfer, CreateOffered, TransferAccepted, screenVars
<1>b. \E new : tMade' = [tMade EXCEPT ![tEntry] = tMade[tEntry] \cup {new}]
  BY DEF handleCreateTransfer
<1>c. ~tSelf'
  BY <1>a, Zenon DEF handleCreateTransfer, TransferIsSound, TransferInv
<1>d. tOp.stage = "idle" /\ ~Creating
  BY <1>a DEF HandlerInv, TransferInv, Creating
<1>e. /\ tOp' \in Handlers /\ tOp'.stage = "creating" /\ Creating'
      /\ tOp'.op = "create" /\ tOp'.id = tEntry
  BY <1>a DEF Handlers, Stages, Creating, ScreenTypes, TransferInv
<1>1. ScreenTypes'
  <2>1. DOMAIN tMade' = Entries /\ tMade' = [e \in Entries |-> tMade'[e]]
    BY <1>b DEF ScreenTypes, TransferInv
  <2> QED
    BY <1>a, <1>e, <2>1 DEF ScreenTypes, TransferInv
<1>2. ScreenFlags'
  BY <1>a, <1>c, Zenon DEF ScreenFlags, TransferInv
<1>3. HandlerInv'
  <2>1. \A f \in tFetches : ~f.ends
    BY <1>d DEF HandlerInv, TransferInv
  <2> QED
    BY <1>a, <1>e, <2>1 DEF HandlerInv, TransferInv
<1>4. EntriesInv'
  BY <1>a, <1>b, <1>d, <1>e DEF EntriesInv, ScreenTypes, TransferInv
<1>5. CurrentInv'
  BY <1>e DEF CurrentInv
<1>6. TransferIsSound'
  BY <1>a, <1>c, Zenon DEF TransferIsSound, TransferInv
<1> QED
  BY <1>1, <1>2, <1>3, <1>4, <1>5, <1>6, Zenon DEF TransferInv

(* A command is sent with no handler under way, a cancellation with a user.  *)
LEMMA SendKeeps ==
    ASSUME TransferInv, NEW t \in TransferIds,
           handleDispatch(t) \/ handleReceive(t) \/ handleException(t) \/ handleCancel(t)
    PROVE  TransferInv'
<1>a. /\ ~tSubmitting /\ tSubmitting' = TRUE /\ tCommands' = tCommands + 1
      /\ \E o \in {"dispatch", "receive", "cancel", "exception"} :
            tOp' = [op |-> o, id |-> t, stage |-> "sent", dispatch |-> FALSE]
      /\ UNCHANGED <<tStatus, tListed, tFetches, tEntry, tMade, tRetried, tBlurred, tSelf, tSession>>
  BY Zenon DEF handleDispatch, handleReceive, handleException, handleCancel, SendTransfer, Enabled,
         screenVars
<1>b. tSession > 0 => tSession # 0
  BY DEF ScreenTypes, TransferInv
<1>c. ~tNameless'
  BY <1>b, Zenon DEF handleDispatch, handleReceive, handleException, handleCancel, MayCancel,
                     TransferIsSound, TransferInv
<1>d. tOp.stage = "idle" /\ ~Creating
  BY <1>a DEF HandlerInv, TransferInv, Creating
<1>e. tOp' \in Handlers /\ tOp'.stage = "sent" /\ ~Creating'
  BY <1>a DEF Handlers, Stages, Creating, TransferIds
<1>1. ScreenTypes'
  BY <1>a, <1>e DEF ScreenTypes, TransferInv
<1>2. ScreenFlags'
  BY <1>a, <1>c, Zenon DEF ScreenFlags, TransferInv
<1>3. HandlerInv'
  <2>1. \A f \in tFetches : ~f.ends
    BY <1>d DEF HandlerInv, TransferInv
  <2> QED
    BY <1>a, <1>e, <2>1 DEF HandlerInv, TransferInv
<1>4. EntriesInv'
  BY <1>a, <1>d DEF EntriesInv, TransferInv
<1>5. CurrentInv'
  BY <1>a, <1>d DEF CurrentInv, TransferInv
<1>6. TransferIsSound'
  BY <1>a, <1>c, Zenon DEF TransferIsSound, TransferInv
<1> QED
  BY <1>1, <1>2, <1>3, <1>4, <1>5, <1>6, Zenon DEF TransferInv

(* A handler whose command was accepted awaits its own fetch; the form of an *)
(* entry that was created is cleared.                                        *)
LEMMA AwaitKeeps ==
    ASSUME TransferInv, tOp.stage \in {"creating", "sent"},
           tOp' = [tOp EXCEPT !.stage = "fetching"], tFetches' = StartFetch(TRUE),
           tEntry' = IF Creating THEN tEntry + 1 ELSE tEntry,
           UNCHANGED <<tSubmitting, tMade, tRetried, tBlurred, tSelf, tNameless, tSession, tCommands>>
    PROVE  TransferInv'
<1>a. tFetches' = tFetches \cup {Fetch(TRUE)}
  BY DEF StartFetch
<1>b. \A f \in tFetches : ~f.ends
  BY DEF HandlerInv, TransferInv
<1>c. tOp' \in Handlers /\ tOp'.stage = "fetching" /\ ~Creating'
  BY HandlerFacts DEF ScreenTypes, TransferInv, Stages, Creating
<1>1. ScreenTypes'
  BY <1>c DEF ScreenTypes, TransferInv
<1>2. ScreenFlags'
  BY <1>a, FetchFacts, Zenon DEF ScreenFlags, TransferInv
<1>3. HandlerInv'
  <2>1. tSubmitting'
    BY DEF HandlerInv, TransferInv
  <2> QED
    BY <1>a, <1>b, <1>c, <2>1, FetchFacts DEF HandlerInv, TransferInv
<1>4. EntriesInv'
  <2>1. \A e \in Entries : e \in Int
    BY DEF Entries
  <2>2. CASE Creating
    <3>1. \A e \in Entries : e > tEntry' \/ e = tEntry' => e > tEntry
      BY <2>1, <2>2 DEF ScreenTypes, TransferInv
    <3> QED
      BY <3>1 DEF EntriesInv, TransferInv
  <2>3. CASE ~Creating
    BY <1>c, <2>3 DEF EntriesInv, TransferInv
  <2> QED
    BY <2>2, <2>3
<1>5. CurrentInv'
  BY <1>a, <1>b, FetchFacts DEF CurrentInv, TransferInv
<1>6. TransferIsSound'
  BY DEF TransferIsSound, TransferInv
<1> QED
  BY <1>1, <1>2, <1>3, <1>4, <1>5, <1>6, Zenon DEF TransferInv

(* A handler whose command was refused ends; a creation that got as far as   *)
(* its dispatch is noted.                                                    *)
LEMMA GiveUpKeeps ==
    ASSUME TransferInv, tOp.stage \in {"creating", "sent"}, tOp' = NoOp, tSubmitting' = FALSE,
           \/ ~Creating /\ UNCHANGED <<tRetried, tBlurred>>
           \/ Creating /\ tRetried' = tRetried \cup {tOp.id} /\ tBlurred' = TRUE,
           UNCHANGED <<tStatus, tListed, tFetches, tEntry, tMade, tSelf, tNameless, tSession, tCommands>>
    PROVE  TransferInv'
<1>b. \A f \in tFetches : ~f.ends
  BY DEF HandlerInv, TransferInv
<1>c. tOp' \in Handlers /\ tOp'.stage = "idle" /\ ~Creating'
  BY HandlerFacts DEF Creating
<1>1. ScreenTypes'
  BY <1>c DEF ScreenTypes, TransferInv
<1>2. ScreenFlags'
  BY Zenon DEF ScreenFlags, TransferInv
<1>3. HandlerInv'
  BY <1>b, <1>c DEF HandlerInv, TransferInv
<1>4. EntriesInv'
  BY <1>c DEF EntriesInv, HandlerInv, TransferInv
<1>5. CurrentInv'
  BY DEF CurrentInv, TransferInv
<1>6. TransferIsSound'
  BY DEF TransferIsSound, TransferInv
<1> QED
  BY <1>1, <1>2, <1>3, <1>4, <1>5, <1>6, Zenon DEF TransferInv

(* A fetch reads the statuses of now.                                        *)
LEMMA GetTransfersKeeps ==
    ASSUME TransferInv, NEW f \in tFetches, getTransfers(f) PROVE TransferInv'
<1> DEFINE g == [f EXCEPT !.snap = tStatus]
<1>a. /\ f.snap = Unread /\ tFetches' = (tFetches \ {f}) \cup {g}
      /\ UNCHANGED <<tStatus, tListed, tSubmitting, tOp, tCommands, tSession, tEntry, tMade, tRetried,
                     tBlurred, tSelf, tNameless>>
  BY Zenon DEF getTransfers, screenVars, entryFormVars
<1>b. g.snap = tStatus /\ g.ends = f.ends /\ g = [snap |-> g.snap, ends |-> g.ends]
  <2>1. f = [snap |-> f.snap, ends |-> f.ends]
    BY DEF HandlerInv, TransferInv
  <2> QED
    BY <2>1
<1> HIDE DEF g
<1>1. ScreenTypes'
  BY <1>a DEF ScreenTypes, TransferInv
<1>2. ScreenFlags'
  <2>1. \A h \in tFetches' : h.ends \in BOOLEAN
    BY <1>a, <1>b, Zenon DEF ScreenFlags, TransferInv
  <2> QED
    BY <1>a, <2>1, Zenon DEF ScreenFlags, TransferInv
<1>3. HandlerInv'
  BY <1>a, <1>b DEF HandlerInv, TransferInv, Creating
<1>4. EntriesInv'
  BY <1>a DEF EntriesInv, TransferInv, Creating
<1>5. CurrentInv'
  <2>1. tFetches' # {} /\ \A h \in tFetches' : tFetches' = {h} => h = g
    BY <1>a
  <2> QED
    BY <1>a, <1>b, <2>1 DEF CurrentInv
<1>6. TransferIsSound'
  BY <1>a DEF TransferIsSound, TransferInv
<1> QED
  BY <1>1, <1>2, <1>3, <1>4, <1>5, <1>6, Zenon DEF TransferInv

(* The end of a fetch ends the handler that awaited it, and no other.        *)
LEMMA EndFetchFacts ==
    ASSUME TransferInv, NEW f \in tFetches, EndFetch(f)
    PROVE  /\ tOp' = (IF f.ends THEN NoOp ELSE tOp) /\ tOp' \in Handlers
           /\ tSubmitting' \in BOOLEAN /\ (tOp'.stage # "idle" => tSubmitting')
           /\ tOp'.stage = "idle" => tOp' = NoOp
           /\ f.ends => ~Creating
           /\ Creating' = Creating
           /\ Creating => tOp'.op = "create" /\ tOp'.id = tEntry
<1>1. CASE f.ends
  <2>1. tOp' = NoOp /\ tSubmitting' = FALSE
    BY <1>1, Zenon DEF EndFetch
  <2>2. tOp.stage = "fetching"
    BY <1>1 DEF HandlerInv, TransferInv
  <2>3. Creating' = FALSE /\ Creating = FALSE
    BY <2>1, <2>2, HandlerFacts DEF Creating
  <2> QED
    BY <1>1, <2>1, <2>2, <2>3, HandlerFacts
<1>2. CASE ~f.ends
  <2>1. tOp' = tOp /\ tSubmitting' = tSubmitting
    BY <1>2, Zenon DEF EndFetch
  <2> QED
    BY <1>2, <2>1 DEF HandlerInv, ScreenTypes, ScreenFlags, TransferInv, Creating
<1> QED
  BY <1>1, <1>2

(* The list is what the fetch has read: what is now, if it was alone.        *)
LEMMA TransfersFetchedKeeps ==
    ASSUME TransferInv, NEW f \in tFetches, TransfersFetched(f) PROVE TransferInv'
<1>a. /\ f.snap # Unread /\ tListed' = f.snap /\ EndFetch(f)
      /\ tFetches' = (tFetches \ {f}) \/ tFetches' = (tFetches \ {f}) \cup {Fetch(FALSE)}
      /\ UNCHANGED <<tStatus, tSession, tCommands, tEntry, tMade, tRetried, tSelf, tNameless>>
  BY DEF TransfersFetched
<1>b. tBlurred' \in BOOLEAN /\ (~tBlurred' => ~tBlurred /\ tFetches = {f})
  BY Zenon DEF TransfersFetched
<1>c. /\ tOp' = (IF f.ends THEN NoOp ELSE tOp) /\ tOp' \in Handlers
      /\ tSubmitting' \in BOOLEAN /\ (tOp'.stage # "idle" => tSubmitting')
      /\ tOp'.stage = "idle" => tOp' = NoOp
      /\ Creating' = Creating
      /\ Creating => tOp'.op = "create" /\ tOp'.id = tEntry
  BY <1>a, EndFetchFacts, Zenon
<1>1. ScreenTypes'
  BY <1>a, <1>c DEF ScreenTypes, TransferInv
<1>2. ScreenFlags'
  <2>1. \A h \in tFetches' : h.ends \in BOOLEAN
    BY <1>a, FetchFacts, Zenon DEF ScreenFlags, TransferInv
  <2> QED
    BY <1>a, <1>b, <1>c, <2>1, Zenon DEF ScreenFlags, TransferInv
<1>3. HandlerInv'
  <2>1. \A h \in tFetches' : h \in tFetches \/ h = Fetch(FALSE)
    BY <1>a
  <2>2. \A h \in tFetches' : h.ends => tOp'.stage = "fetching"
    BY <1>a, <1>c, FetchFacts DEF HandlerInv, TransferInv
  <2> QED
    BY <1>a, <1>c, <2>1, <2>2, FetchFacts DEF HandlerInv, TransferInv
<1>4. EntriesInv'
  BY <1>a, <1>c DEF EntriesInv, TransferInv
<1>5. CurrentInv'
  BY <1>a, <1>b, <1>c, FetchFacts DEF CurrentInv, TransferInv
<1>6. TransferIsSound'
  BY <1>a DEF TransferIsSound, TransferInv
<1> QED
  BY <1>1, <1>2, <1>3, <1>4, <1>5, <1>6, Zenon DEF TransferInv

(* A fetch that fails is noted.                                              *)
LEMMA FetchFailsKeeps ==
    ASSUME TransferInv, NEW f \in tFetches, FetchFails(f) PROVE TransferInv'
<1>a. /\ EndFetch(f) /\ tBlurred' = TRUE /\ tFetches' = tFetches \ {f}
      /\ UNCHANGED <<tStatus, tSession, tCommands, tEntry, tMade, tRetried, tSelf, tNameless>>
  BY Zenon DEF FetchFails
<1>c. /\ tOp' = (IF f.ends THEN NoOp ELSE tOp) /\ tOp' \in Handlers
      /\ tSubmitting' \in BOOLEAN /\ (tOp'.stage # "idle" => tSubmitting')
      /\ tOp'.stage = "idle" => tOp' = NoOp
      /\ Creating' = Creating
      /\ Creating => tOp'.op = "create" /\ tOp'.id = tEntry
  BY <1>a, EndFetchFacts, Zenon
<1>1. ScreenTypes'
  BY <1>a, <1>c DEF ScreenTypes, TransferInv
<1>2. ScreenFlags'
  <2>1. \A h \in tFetches' : h.ends \in BOOLEAN
    BY <1>a, Zenon DEF ScreenFlags, TransferInv
  <2> QED
    BY <1>a, <1>c, <2>1, Zenon DEF ScreenFlags, TransferInv
<1>3. HandlerInv'
  BY <1>a, <1>c DEF HandlerInv, TransferInv
<1>4. EntriesInv'
  BY <1>a, <1>c DEF EntriesInv, TransferInv
<1>5. CurrentInv'
  BY <1>a DEF CurrentInv
<1>6. TransferIsSound'
  BY <1>a DEF TransferIsSound, TransferInv
<1> QED
  BY <1>1, <1>2, <1>3, <1>4, <1>5, <1>6, Zenon DEF TransferInv

(* A pull that moves a transfer on is noted.                                 *)
LEMMA PulledStatusKeeps ==
    ASSUME TransferInv, tBlurred' = TRUE,
           UNCHANGED <<tFetches, tSubmitting, tOp, tEntry, tMade, tRetried, tSelf, tNameless, tSession,
                       tCommands>>
    PROVE  TransferInv'
<1>1. ScreenTypes' /\ HandlerInv' /\ EntriesInv' /\ TransferIsSound'
  BY DEF ScreenTypes, HandlerInv, EntriesInv, TransferIsSound, TransferInv, Creating
<1>2. ScreenFlags' /\ CurrentInv'
  BY Zenon DEF ScreenFlags, CurrentInv, TransferInv
<1> QED
  BY <1>1, <1>2, Zenon DEF TransferInv

(* Every step keeps the invariant of the transfer screen.                    *)
LEMMA TransferKeeps == TransferInv /\ [TransferNext]_transferVars => TransferInv'
<1> SUFFICES ASSUME TransferInv, [TransferNext]_transferVars PROVE TransferInv'
  OBVIOUS
<1>0. tSession \in Nat /\ tCommands \in Nat /\ tSession + 1 \in Nat /\ tCommands + 1 \in Nat
  BY DEF TransferInv, ScreenTypes
<1>1. ASSUME NEW f \in tFetches, getTransfers(f) \/ TransfersFetched(f) \/ FetchFails(f) PROVE TransferInv'
  BY <1>1, GetTransfersKeeps, TransfersFetchedKeeps, FetchFailsKeeps, Zenon
<1>2. CASE Refresh
  BY <1>0, <1>2, QuietKeeps, Zenon DEF Refresh, RefreshOffered, screenVars
<1>3. CASE TransferLoadSession \/ SelectTransferProduct \/ CreateRefused
             \/ \E t \in {"create", "list"} : setActiveTab(t)
  <2>1. /\ UNCHANGED <<tStatus, tListed, tFetches, tSubmitting, tOp, tEntry, tMade, tRetried, tBlurred,
                       tSelf, tNameless>>
        /\ tSession' \in {tSession, tSession + 1} /\ tCommands' \in {tCommands, tCommands + 1}
    BY <1>3, Zenon DEF TransferLoadSession, SelectTransferProduct, CreateRefused, setActiveTab,
                       screenVars, entryFormVars
  <2> QED
    BY <1>0, <2>1, QuietKeeps, Zenon
<1>4. CASE \E s \in TransferStores : ChooseDestination(s) \/ TransferStoreSwitch(s)
  <2>1. /\ UNCHANGED <<tStatus, tListed, tSubmitting, tOp, tEntry, tMade, tRetried, tBlurred, tSelf,
                       tNameless, tSession, tCommands>>
        /\ tFetches' = StartFetch(FALSE)
    BY <1>4, Zenon DEF ChooseDestination, TransferStoreSwitch, entryFormVars
  <2> QED
    BY <1>0, <2>1, QuietKeeps, Zenon
<1>5. ASSUME NEW d \in BOOLEAN, handleCreateTransfer(d) PROVE TransferInv'
  BY <1>5, HandleCreateKeeps, Zenon
<1>6. CASE createTransfer
  <2>1. /\ tOp.stage = "creating" /\ tOp' = [tOp EXCEPT !.stage = "fetching"]
        /\ tFetches' = StartFetch(TRUE) /\ tEntry' = tEntry + 1
        /\ UNCHANGED <<tSubmitting, tMade, tRetried, tBlurred, tSelf, tNameless, tSession, tCommands>>
    BY <1>6, Zenon DEF createTransfer, ClearForm
  <2> QED
    BY <2>1, AwaitKeeps DEF Creating
<1>7. ASSUME NEW ok \in BOOLEAN, CreateDispatches(ok) PROVE TransferInv'
  <2>1. tOp.stage = "creating" /\ UNCHANGED <<tListed, tMade, tSelf, tNameless, tSession, tCommands>>
    BY <1>7, Zenon DEF CreateDispatches
  <2>2. \/ /\ tOp' = [tOp EXCEPT !.stage = "fetching"]
           /\ tFetches' = StartFetch(TRUE) /\ tEntry' = tEntry + 1
           /\ UNCHANGED <<tSubmitting, tRetried, tBlurred>>
        \/ /\ tOp' = NoOp /\ tSubmitting' = FALSE
           /\ tRetried' = tRetried \cup {tOp.id} /\ tBlurred' = TRUE
           /\ UNCHANGED <<tStatus, tEntry, tFetches>>
    BY <1>7, Zenon DEF CreateDispatches, ClearForm
  <2> QED
    BY <2>1, <2>2, AwaitKeeps, GiveUpKeeps DEF Creating
<1>8. ASSUME NEW ok \in BOOLEAN, CommandAnswers(ok) PROVE TransferInv'
  <2>1. /\ tOp.stage = "sent"
        /\ UNCHANGED <<tListed, tEntry, tMade, tRetried, tBlurred, tSelf, tNameless, tSession, tCommands>>
    BY <1>8, Zenon DEF CommandAnswers, screenVars, entryFormVars
  <2>2. \/ /\ tOp' = [tOp EXCEPT !.stage = "fetching"]
           /\ tFetches' = StartFetch(TRUE) /\ UNCHANGED tSubmitting
        \/ /\ tOp' = NoOp /\ tSubmitting' = FALSE /\ UNCHANGED <<tStatus, tFetches>>
    BY <1>8, Zenon DEF CommandAnswers, FetchAfter
  <2> QED
    BY <2>1, <2>2, AwaitKeeps, GiveUpKeeps DEF Creating
<1>9. ASSUME NEW t \in TransferIds,
             handleDispatch(t) \/ handleReceive(t) \/ handleException(t) \/ handleCancel(t)
      PROVE  TransferInv'
  BY <1>9, SendKeeps, Zenon
<1>10. CASE \E t \in TransferIds, op \in {"receive", "cancel"} : PulledStatus(t, op)
  BY <1>10, PulledStatusKeeps, Zenon DEF PulledStatus, screenVars
<1>11. CASE UNCHANGED transferVars
  <2>1. UNCHANGED <<tStatus, tListed, tFetches, tSubmitting, tOp, tEntry, tMade, tRetried, tBlurred, tSelf,
                    tNameless, tSession, tCommands>>
    BY <1>11, Zenon DEF transferVars
  <2> QED
    BY <1>0, <2>1, QuietKeeps, Zenon
<1> QED
  BY <1>1, <1>2, <1>3, <1>4, <1>5, <1>6, <1>7, <1>8, <1>9, <1>10, <1>11, Zenon DEF TransferNext

(* One transfer for one entry, a list that is current once it was read, and  *)
(* commands that are complete, for any number of stores, transfers and       *)
(* presses (handleCreateTransfer, fetchData, handleCancel).                  *)
THEOREM TransfersTrue == TransferInit /\ [][TransferNext]_transferVars => []TransfersAreTrue
<1>1. TransferInv => OneTransferPerEntry
  <2> SUFFICES ASSUME TransferInv, NEW e \in Entries, e \notin tRetried PROVE Cardinality(tMade[e]) <= 1
    BY DEF OneTransferPerEntry
  <2>1. tMade[e] = {} \/ \E t : tMade[e] = {t}
    BY DEF TransferInv, EntriesInv
  <2>2. Cardinality({}) = 0 /\ \A t : Cardinality({t}) = 1
    BY FS_EmptySet, FS_Singleton, Zenon
  <2> QED
    BY <2>1, <2>2
<1>2. TransferInv => ListIsCurrent
  BY DEF TransferInv, CurrentInv, ListIsCurrent, Creating, NoOp
<1>3. TransferInv => TransfersAreTrue
  BY <1>1, <1>2, Zenon DEF TransfersAreTrue, TransferInv
<1> QED
  BY <1>3, TransferStarts, TransferKeeps, PTL
-----------------------------------------------------------------------------
DashReads == [q : DashQueries, no : Nat, version : Nat]
DashRuns == [of : {"nobody", "timer", "click"}, applied : BOOLEAN]

(* What the variables hold; a run of a click has its handler waiting.        *)
DashTypes ==
    /\ dashQuery \in DashQueries /\ dashVersion \in Nat \ {0} /\ dashAnswered \in Nat
    /\ dashData \in [q : DashQueries \cup {"none"}, version : Nat]
    /\ dashLoads \subseteq DashReads
    /\ dashClick \in DashQueries \cup {NoClick} /\ dashRun \in DashRuns
    /\ dashRun.of = "nobody" => dashRun = NoRun
    /\ dashRun.of = "click" => dashClick \in DashQueries
    /\ dashLoading \in BOOLEAN /\ dashError \in BOOLEAN
    /\ dashCrossed \in BOOLEAN /\ dashOverlap \in BOOLEAN /\ dashStale \in BOOLEAN /\ dashUnsaid \in BOOLEAN

(* Loads have numbers of their own, and there is a newest of those that are  *)
(* under way or were answered.                                               *)
LoadNumbers == {l.no : l \in dashLoads} \cup {dashAnswered}
NumbersInv ==
    /\ \A l, m \in dashLoads : l.no = m.no => l = m
    /\ \A l \in dashLoads : l.no # dashAnswered
    /\ \E n \in LoadNumbers : \A m \in LoadNumbers : m <= n

(* No figures at rest: there is an error, or a click that will read.         *)
ZerosInv == dashLoads = {} /\ dashData = NoFigures => dashError \/ dashIsSyncing

(* As long as loads do not overlap, the one under way is for the query, and  *)
(* the old figures are hidden until it is answered.                          *)
OneLoadInv ==
    ~dashOverlap /\ ~dashStale =>
        /\ \A l, m \in dashLoads : l = m
        /\ \A l \in dashLoads : l.q = dashQuery /\ dashLoading
        /\ ~dashLoading => dashData = NoFigures \/ dashData.q = dashQuery

(* The newest load reads what the query asks for now, and what it has read   *)
(* is the last version or there will be another load; if it was answered     *)
(* already, the others will be late.                                         *)
Fresh(q, v) == q = dashQuery /\ (v = dashVersion \/ dashRun.applied)
NewestIsFresh ==
    \E l \in dashLoads : /\ \A m \in dashLoads : m.no <= l.no
                         /\ dashAnswered < l.no
                         /\ l.q = dashQuery /\ (l.version = 0 \/ Fresh(l.q, l.version))
FreshInv ==
    ~dashCrossed /\ ~dashStale /\ ~dashUnsaid =>
        IF dashLoads = {} THEN dashData = NoFigures \/ Fresh(dashData.q, dashData.version)
        ELSE (\A l \in dashLoads : l.no < dashAnswered) \/ NewestIsFresh

DashInv == DashTypes /\ NumbersInv /\ ZerosInv /\ OneLoadInv /\ FreshInv
-----------------------------------------------------------------------------
LEMMA MaxFacts ==
    ASSUME NEW S \in SUBSET Nat, NEW n \in S, \A m \in S : m <= n
    PROVE  DashSets!Max(S) = n
<1>1. \A x \in S : (\A y \in S : x >= y) => x = n
  OBVIOUS
<1> QED
  BY <1>1 DEF DashSets!Max

(* The number a load is given, and that its end leaves.                      *)
LEMMA NumberFacts ==
    ASSUME DashTypes, NumbersInv
    PROVE  /\ NextDashNo \in Nat
           /\ dashLoads # {} => \A m \in LoadNumbers : m <= NextDashNo
           /\ \A l \in dashLoads : /\ DashSets!Max({l.no, dashAnswered}) \in {l.no, dashAnswered}
                                   /\ l.no <= DashSets!Max({l.no, dashAnswered})
                                   /\ dashAnswered <= DashSets!Max({l.no, dashAnswered})
<1>1. LoadNumbers \subseteq Nat
  BY DEF DashTypes, DashReads, LoadNumbers
<1>2. PICK n \in LoadNumbers : \A m \in LoadNumbers : m <= n
  BY DEF NumbersInv
<1>3. DashSets!Max(LoadNumbers) = n
  BY <1>1, <1>2, MaxFacts
<1>4. ASSUME NEW l \in dashLoads
      PROVE  /\ DashSets!Max({l.no, dashAnswered}) \in {l.no, dashAnswered}
             /\ l.no <= DashSets!Max({l.no, dashAnswered})
             /\ dashAnswered <= DashSets!Max({l.no, dashAnswered})
  <2>1. l.no \in Nat /\ dashAnswered \in Nat
    BY DEF DashTypes, DashReads
  <2>2. CASE l.no <= dashAnswered
    <3>1. DashSets!Max({l.no, dashAnswered}) = dashAnswered
      BY <2>1, <2>2, MaxFacts
    <3> QED
      BY <3>1, <2>1, <2>2
  <2>3. CASE dashAnswered <= l.no
    <3>1. DashSets!Max({l.no, dashAnswered}) = l.no
      BY <2>1, <2>3, MaxFacts
    <3> QED
      BY <3>1, <2>1, <2>3
  <2> QED
    BY <2>1, <2>2, <2>3
<1> QED
  BY <1>1, <1>2, <1>3, <1>4 DEF NextDashNo, LoadNumbers

(* What a load begun for one or two queries does: the last of them is the    *)
(* newest load.                                                              *)
LEMMA DashLoadFacts ==
    ASSUME DashTypes, NumbersInv, NEW qs, NEW n \in {1, 2}, DOMAIN qs = 1 .. n, Len(qs) = n,
           \A i \in 1 .. n : qs[i] \in DashQueries, loadAnalytics(qs)
    PROVE  /\ dashLoads' \subseteq DashReads /\ dashLoads' # {} /\ dashAnswered' \in Nat /\ NumbersInv'
           /\ \E l \in dashLoads' : /\ \A m \in dashLoads' : m.no <= l.no
                                    /\ dashAnswered' < l.no /\ l.q = qs[n] /\ l.version = 0
           /\ ~dashOverlap' => \A l, m \in dashLoads' : l = m /\ l.q = qs[1]
           /\ ~dashStale' => \A i \in 1 .. n : qs[i] = dashQuery'
           /\ dashLoading' /\ ~dashError' /\ ~dashUnsaid' /\ dashLoading' \in BOOLEAN /\ dashError' \in BOOLEAN
           /\ dashCrossed' \in BOOLEAN /\ dashOverlap' \in BOOLEAN /\ dashStale' \in BOOLEAN
           /\ dashUnsaid' \in BOOLEAN /\ dashData' = dashData
<1> DEFINE New(i) == [q |-> qs[i], no |-> NextDashNo + i, version |-> 0]
<1>1. /\ dashLoads' = dashLoads \cup {New(i) : i \in 1 .. n}
      /\ dashLoads # {} \/ n = 2 => dashOverlap'
      /\ dashAnswered' = IF dashLoads = {} THEN 0 ELSE dashAnswered
  <2>1. /\ dashLoads' = dashLoads \cup {New(i) : i \in 1 .. n}
        /\ dashAnswered' = IF dashLoads = {} THEN 0 ELSE dashAnswered
        /\ dashOverlap' = (dashLoads # {} \/ n > 1)
    BY DEF loadAnalytics
  <2>2. n = 2 => n > 1
    OBVIOUS
  <2> QED
    BY <2>1, <2>2, Zenon
<1>2. /\ dashLoading' /\ ~dashError' /\ ~dashUnsaid' /\ dashLoading' \in BOOLEAN /\ dashError' \in BOOLEAN
      /\ dashCrossed' \in BOOLEAN /\ dashOverlap' \in BOOLEAN /\ dashStale' \in BOOLEAN
      /\ dashUnsaid' \in BOOLEAN /\ dashData' = dashData
      /\ ~dashStale' => \A i \in 1 .. n : qs[i] = dashQuery'
  BY DEF loadAnalytics, BeginLoading, DashTypes
<1>3. \A i \in 1 .. n : New(i) \in DashReads /\ New(i).no = NextDashNo + i /\ New(i).q = qs[i]
                        /\ New(i).version = 0
  BY NumberFacts DEF DashReads
<1> HIDE DEF New
<1>4. NextDashNo \in Nat /\ \A l \in dashLoads : l \in DashReads /\ l.no \in Nat /\ l.no <= NextDashNo
  BY NumberFacts DEF LoadNumbers, DashTypes, DashReads
<1>5. dashAnswered' \in Nat /\ dashAnswered' <= NextDashNo
  <2>1. dashAnswered \in LoadNumbers /\ dashAnswered \in Nat
    BY DEF LoadNumbers, DashTypes
  <2>2. dashLoads # {} => dashAnswered <= NextDashNo
    BY <2>1, NumberFacts
  <2> QED
    BY <1>1, <1>4, <2>1, <2>2
<1>6. \A l \in dashLoads' : l \in dashLoads \/ \E i \in 1 .. n : l = New(i)
  BY <1>1
<1>7. n \in 1 .. n /\ New(n) \in dashLoads'
  BY <1>1
<1>8. \A m \in dashLoads' : m \in DashReads /\ m.no \in Nat /\ m.no <= New(n).no
  BY <1>3, <1>4, <1>6, <1>7
<1>9. dashAnswered' < New(n).no /\ New(n).no \in Nat
  BY <1>3, <1>4, <1>5, <1>7
<1>10. NumbersInv'
  <2>1. \A l, m \in dashLoads' : l.no = m.no => l = m
    BY <1>3, <1>4, <1>6 DEF NumbersInv
  <2>2. \A l \in dashLoads' : l.no # dashAnswered'
    BY <1>1, <1>3, <1>4, <1>5, <1>6 DEF NumbersInv
  <2>3. \A m \in LoadNumbers' : m <= New(n).no
    BY <1>8, <1>9, <1>5 DEF LoadNumbers
  <2>4. New(n).no \in LoadNumbers'
    BY <1>7 DEF LoadNumbers
  <2> QED
    BY <2>1, <2>2, <2>3, <2>4 DEF NumbersInv
<1>11. ~dashOverlap' => \A l, m \in dashLoads' : l = m /\ l.q = qs[1]
  <2>1. ~dashOverlap' => n = 1 /\ dashLoads = {}
    BY <1>1
  <2>2. n = 1 /\ dashLoads = {} => \A l \in dashLoads' : l = New(1)
    BY <1>6
  <2>3. 1 \in 1 .. n
    OBVIOUS
  <2> QED
    BY <2>1, <2>2, <2>3, <1>3
<1> QED
  BY <1>2, <1>3, <1>5, <1>7, <1>8, <1>9, <1>10, <1>11

(* A load begun for the query, or for the query of a click, keeps it all.    *)
LEMMA DashLoadKeeps ==
    ASSUME DashInv, NEW qs, NEW n \in {1, 2}, DOMAIN qs = 1 .. n, Len(qs) = n,
           \A i \in 1 .. n : qs[i] \in DashQueries, loadAnalytics(qs),
           dashQuery' \in DashQueries, dashVersion' = dashVersion,
           dashClick' \in DashQueries \cup {NoClick}, dashRun' \in DashRuns,
           dashRun'.of = "nobody" => dashRun' = NoRun,
           dashRun'.of = "click" => dashClick' \in DashQueries
    PROVE  DashInv'
<1>0. n \in 1 .. n /\ 1 \in 1 .. n
  OBVIOUS
<1>1. /\ dashLoads' \subseteq DashReads /\ dashLoads' # {} /\ dashAnswered' \in Nat /\ NumbersInv'
      /\ ~dashOverlap' => \A l, m \in dashLoads' : l = m /\ l.q = qs[1]
      /\ ~dashStale' => \A i \in 1 .. n : qs[i] = dashQuery'
      /\ dashLoading' /\ ~dashError' /\ ~dashUnsaid' /\ dashLoading' \in BOOLEAN /\ dashError' \in BOOLEAN
      /\ dashCrossed' \in BOOLEAN /\ dashOverlap' \in BOOLEAN /\ dashStale' \in BOOLEAN
      /\ dashUnsaid' \in BOOLEAN /\ dashData' = dashData
  BY DashLoadFacts DEF DashInv
<1>2. PICK l \in dashLoads' : /\ \A m \in dashLoads' : m.no <= l.no
                             /\ dashAnswered' < l.no /\ l.q = qs[n] /\ l.version = 0
  BY DashLoadFacts DEF DashInv
<1>3. DashTypes'
  BY <1>1 DEF DashInv, DashTypes
<1>4. ZerosInv'
  BY <1>1 DEF ZerosInv
<1>5. OneLoadInv'
  BY <1>0, <1>1 DEF OneLoadInv
<1>6. FreshInv'
  <2>1. ~dashStale' => NewestIsFresh'
    BY <1>0, <1>1, <1>2 DEF NewestIsFresh
  <2> QED
    BY <2>1, <1>1 DEF FreshInv
<1> QED
  BY <1>1, <1>3, <1>4, <1>5, <1>6 DEF DashInv

(* The end of a load, with figures or without.                               *)
LEMMA SettleKeeps ==
    ASSUME DashInv, NEW l \in dashLoads, AnalyticsAnswered(l) \/ AnalyticsFailed(l)
    PROVE  DashInv'
<1>1. /\ dashLoads' = dashLoads \ {l} /\ dashLoading' = FALSE
      /\ dashAnswered' = DashSets!Max({l.no, dashAnswered})
      /\ dashCrossed' = (dashCrossed \/ l.no < dashAnswered)
      /\ UNCHANGED <<dashQuery, dashClick, dashRun, dashVersion, dashOverlap, dashStale, dashUnsaid>>
  BY DEF AnalyticsAnswered, AnalyticsFailed, Settle
<1>2. \/ /\ dashData' = [q |-> l.q, version |-> l.version] /\ l.version # 0 /\ dashError' = dashError
      \/ dashData' = NoFigures /\ dashError' = TRUE
  BY DEF AnalyticsAnswered, AnalyticsFailed, DashInv, DashTypes, DashReads
<1>3. l \in DashReads /\ l.no \in Nat /\ l.q \in DashQueries /\ l.version \in Nat
  BY DEF DashInv, DashTypes, DashReads
<1>4. PICK a \in Nat : /\ a = dashAnswered' /\ a \in {l.no, dashAnswered}
                       /\ l.no <= a /\ dashAnswered <= a
  BY <1>1, <1>3, NumberFacts DEF DashInv, DashTypes
<1>5. DashTypes'
  <2>1. dashData' \in [q : DashQueries \cup {"none"}, version : Nat] /\ dashError' \in BOOLEAN
    <3>1. NoFigures \in [q : DashQueries \cup {"none"}, version : Nat]
      BY DEF NoFigures
    <3>2. [q |-> l.q, version |-> l.version] \in [q : DashQueries \cup {"none"}, version : Nat]
      BY <1>3
    <3>3. dashError \in BOOLEAN
      BY DEF DashInv, DashTypes
    <3> QED
      BY <1>2, <3>1, <3>2, <3>3
  <2>2. dashCrossed' \in BOOLEAN /\ dashLoads' \subseteq DashReads
    BY <1>1 DEF DashInv, DashTypes
  <2> QED
    BY <2>1, <2>2, <1>1, <1>4 DEF DashInv, DashTypes
<1>6. NumbersInv'
  <2>1. \A k, m \in dashLoads' : k.no = m.no => k = m
    BY <1>1 DEF DashInv, NumbersInv
  <2>2. \A k \in dashLoads' : k.no # dashAnswered'
    BY <1>1, <1>4 DEF DashInv, NumbersInv
  <2>3. PICK n \in LoadNumbers : \A m \in LoadNumbers : m <= n
    BY DEF DashInv, NumbersInv
  <2>4. LoadNumbers \subseteq Nat /\ LoadNumbers' \subseteq LoadNumbers
    BY <1>1, <1>4 DEF DashInv, DashTypes, DashReads, LoadNumbers
  <2>5. n \in LoadNumbers'
    <3>1. CASE n = dashAnswered
      <4>1. a <= n
        BY <2>3, <1>4 DEF LoadNumbers
      <4> QED
        BY <4>1, <3>1, <1>4, <2>3, <2>4 DEF LoadNumbers
    <3>2. CASE n = l.no
      <4>1. a <= n
        BY <2>3, <1>4 DEF LoadNumbers
      <4> QED
        BY <4>1, <3>2, <1>4, <1>3 DEF LoadNumbers
    <3>3. CASE \E k \in dashLoads : k # l /\ n = k.no
      BY <3>3, <1>1 DEF LoadNumbers
    <3> QED
      BY <3>1, <3>2, <3>3, <2>3 DEF LoadNumbers
  <2> QED
    BY <2>1, <2>2, <2>3, <2>4, <2>5 DEF NumbersInv
<1>7. ZerosInv'
  BY <1>1, <1>2 DEF ZerosInv, NoFigures
<1>8. OneLoadInv'
  <2>1. CASE ~dashOverlap /\ ~dashStale
    <3>1. \A k \in dashLoads' : FALSE
      BY <2>1, <1>1 DEF DashInv, OneLoadInv
    <3>2. dashData' = NoFigures \/ dashData'.q = dashQuery'
      BY <2>1, <1>1, <1>2 DEF DashInv, OneLoadInv
    <3> QED
      BY <3>1, <3>2 DEF OneLoadInv
  <2>2. CASE ~(~dashOverlap /\ ~dashStale)
    BY <2>2, <1>1 DEF OneLoadInv
  <2> QED
    BY <2>1, <2>2
<1>9. FreshInv'
  <2> SUFFICES ASSUME ~dashCrossed', ~dashStale', ~dashUnsaid'
               PROVE  IF dashLoads' = {} THEN dashData' = NoFigures \/ Fresh(dashData.q, dashData.version)'
                      ELSE (\A k \in dashLoads' : k.no < dashAnswered') \/ NewestIsFresh'
    BY DEF FreshInv
  <2>1. ~(l.no < dashAnswered) /\ ~dashCrossed /\ ~dashStale /\ ~dashUnsaid
    BY <1>1
  <2>2. NewestIsFresh
    BY <2>1 DEF DashInv, FreshInv
  <2>3. PICK k \in dashLoads : /\ \A m \in dashLoads : m.no <= k.no
                               /\ dashAnswered < k.no
                               /\ k.q = dashQuery /\ (k.version = 0 \/ Fresh(k.q, k.version))
    BY <2>2 DEF NewestIsFresh
  <2>4. k.no \in Nat /\ \A m \in dashLoads : m.no \in Nat
    BY DEF DashInv, DashTypes, DashReads
  <2>5. CASE k = l
    <3>1. a = k.no
      BY <2>5, <2>3, <2>4, <1>4 DEF DashInv, DashTypes
    <3>2. \A m \in dashLoads' : m.no < dashAnswered'
      BY <3>1, <2>3, <2>4, <2>5, <1>1, <1>4 DEF DashInv, NumbersInv
    <3>3. dashData' = NoFigures \/ Fresh(dashData.q, dashData.version)'
      BY <2>3, <2>5, <1>1, <1>2 DEF Fresh
    <3> QED
      BY <3>2, <3>3
  <2>6. CASE k # l
    <3>1. k \in dashLoads' /\ \A m \in dashLoads' : m.no <= k.no
      BY <2>3, <2>6, <1>1
    <3>2. l.no # k.no /\ l.no <= k.no
      BY <2>3, <2>6 DEF DashInv, NumbersInv
    <3>3. dashAnswered' < k.no
      BY <3>2, <2>3, <2>4, <1>4, <1>3 DEF DashInv, DashTypes
    <3>4. k.q = dashQuery' /\ (k.version = 0 \/ Fresh(k.q, k.version)')
      BY <2>3, <1>1 DEF Fresh
    <3> QED
      BY <3>1, <3>3, <3>4 DEF NewestIsFresh
  <2> QED
    BY <2>5, <2>6
<1> QED
  BY <1>5, <1>6, <1>7, <1>8, <1>9 DEF DashInv

(* A load reads the figures.                                                 *)
LEMMA ReadKeeps ==
    ASSUME DashInv, NEW l \in dashLoads, AnalyticsRead(l)
    PROVE  DashInv'
<1>1. PICK r : r = [l EXCEPT !.version = dashVersion]
  OBVIOUS
<1>2. l \in DashReads /\ dashVersion \in Nat
  BY DEF DashInv, DashTypes
<1>3. r \in DashReads /\ r.q = l.q /\ r.no = l.no /\ r.version = dashVersion
  BY <1>1, <1>2 DEF DashReads
<1>4. /\ dashLoads' = (dashLoads \ {l}) \cup {r}
      /\ UNCHANGED <<dashQuery, dashData, dashLoading, dashError, dashClick, dashRun, dashVersion,
                     dashAnswered, dashCrossed, dashOverlap, dashStale, dashUnsaid>>
  BY <1>1 DEF AnalyticsRead, dashHistory
<1>5. DashTypes'
  BY <1>3, <1>4 DEF DashInv, DashTypes
<1>6. NumbersInv'
  <2>1. LoadNumbers' = LoadNumbers
    BY <1>3, <1>4 DEF LoadNumbers
  <2> QED
    BY <2>1, <1>3, <1>4 DEF DashInv, NumbersInv
<1>7. ZerosInv' /\ OneLoadInv'
  BY <1>3, <1>4 DEF DashInv, ZerosInv, OneLoadInv, dashIsSyncing
<1>8. FreshInv'
  <2>1. (\A k \in dashLoads : k.no < dashAnswered) => \A k \in dashLoads' : k.no < dashAnswered'
    BY <1>3, <1>4
  <2>2. ASSUME NewestIsFresh PROVE NewestIsFresh'
    <3>1. PICK k \in dashLoads : /\ \A m \in dashLoads : m.no <= k.no
                                 /\ dashAnswered < k.no
                                 /\ k.q = dashQuery /\ (k.version = 0 \/ Fresh(k.q, k.version))
      BY <2>2 DEF NewestIsFresh
    <3>2. \A m \in dashLoads' : m.no <= k.no
      BY <3>1, <1>3, <1>4
    <3>3. CASE k = l
      BY <3>1, <3>2, <3>3, <1>3, <1>4 DEF NewestIsFresh, Fresh
    <3>4. CASE k # l
      BY <3>1, <3>2, <3>4, <1>3, <1>4 DEF NewestIsFresh, Fresh
    <3> QED
      BY <3>3, <3>4
  <2>3. dashLoads' # {} /\ dashLoads # {}
    BY <1>4
  <2> QED
    BY <2>1, <2>2, <2>3, <1>4 DEF DashInv, FreshInv
<1> QED
  BY <1>5, <1>6, <1>7, <1>8 DEF DashInv

(* A run begins, applies its pull, throws, or ends without an event; a click *)
(* begins. No load begins or ends.                                           *)
LEMMA RunKeeps ==
    ASSUME DashInv, TimerRun \/ handleSyncNow \/ PullApplied \/ DashRunThrows
    PROVE  DashInv'
<1>1. UNCHANGED <<dashQuery, dashData, dashLoads, dashLoading, dashAnswered, dashCrossed, dashOverlap, dashStale>>
  BY DEF TimerRun, handleSyncNow, PullApplied, DashRunThrows, dashHistory
<1>2. DashTypes'
  <2>1. CASE TimerRun
    BY <2>1, <1>1 DEF DashInv, DashTypes, DashRuns, TimerRun, dashHistory
  <2>2. CASE handleSyncNow
    <3>1. PICK c : c = [of |-> "click", applied |-> FALSE]
      OBVIOUS
    <3>2. c \in DashRuns /\ c.of = "click" /\ c.of # "nobody"
      BY <3>1 DEF DashRuns
    <3>3. /\ dashClick' = dashQuery /\ dashRun' \in {c, dashRun} /\ dashError' = FALSE
          /\ UNCHANGED <<dashVersion, dashUnsaid>>
      BY <2>2, <3>1 DEF handleSyncNow, dashHistory
    <3> QED
      BY <1>1, <3>2, <3>3 DEF DashInv, DashTypes
  <2>3. CASE PullApplied
    <3>1. PICK c : c = [dashRun EXCEPT !.applied = TRUE]
      OBVIOUS
    <3>2. c \in DashRuns /\ c.of = dashRun.of
      BY <3>1 DEF DashInv, DashTypes, DashRuns
    <3>3. /\ dashRun' = c /\ dashVersion' = dashVersion + 1 /\ dashRun # NoRun
          /\ UNCHANGED <<dashClick, dashError, dashUnsaid>>
      BY <2>3, <3>1 DEF PullApplied, dashHistory
    <3> QED
      BY <1>1, <3>2, <3>3 DEF DashInv, DashTypes
  <2>4. CASE DashRunThrows
    <3>1. NoRun \in DashRuns /\ NoRun.of # "click"
      BY DEF NoRun, DashRuns
    <3>2. /\ dashRun' = NoRun /\ dashClick' \in {dashClick, NoClick} /\ dashError' \in {dashError, TRUE}
          /\ dashUnsaid' \in BOOLEAN /\ dashVersion' = dashVersion
      BY <2>4 DEF DashRunThrows
    <3> QED
      BY <1>1, <3>1, <3>2 DEF DashInv, DashTypes
  <2> QED
    BY <2>1, <2>2, <2>3, <2>4
<1>3. NumbersInv' /\ OneLoadInv'
  BY <1>1 DEF DashInv, NumbersInv, OneLoadInv, LoadNumbers
<1>4. ZerosInv'
  <2>1. CASE TimerRun \/ PullApplied
    BY <2>1, <1>1 DEF DashInv, ZerosInv, dashIsSyncing, TimerRun, PullApplied
  <2>2. CASE handleSyncNow
    BY <2>2, DashAssumption DEF DashInv, DashTypes, ZerosInv, dashIsSyncing, handleSyncNow, NoClick
  <2>3. CASE DashRunThrows
    BY <2>3, <1>1 DEF DashInv, ZerosInv, dashIsSyncing, DashRunThrows
  <2> QED
    BY <2>1, <2>2, <2>3
<1>5. FreshInv'
  <2>1. /\ dashUnsaid' = dashUnsaid \/ dashUnsaid' = (dashUnsaid \/ dashRun.applied)
        /\ ~dashUnsaid' => \A q, v : Fresh(q, v) => Fresh(q, v)'
    <3>1. CASE TimerRun
      BY <3>1, <1>1 DEF TimerRun, Fresh, dashHistory, NoRun
    <3>2. CASE handleSyncNow
      BY <3>2, <1>1 DEF handleSyncNow, Fresh, dashHistory, NoRun
    <3>3. CASE PullApplied
      BY <3>3, <1>1 DEF PullApplied, Fresh, dashHistory, DashInv, DashTypes, DashRuns
    <3>4. CASE DashRunThrows
      BY <3>4, <1>1 DEF DashRunThrows, Fresh
    <3> QED
      BY <3>1, <3>2, <3>3, <3>4
  <2>2. ~dashUnsaid' => ~dashUnsaid
    BY <2>1
  <2>3. ~dashUnsaid' /\ NewestIsFresh => NewestIsFresh'
    BY <1>1, <2>1 DEF NewestIsFresh
  <2> QED
    BY <1>1, <2>1, <2>2, <2>3 DEF DashInv, FreshInv
<1> QED
  BY <1>2, <1>3, <1>4, <1>5 DEF DashInv

(* The end of a run.                                                         *)
LEMMA RunEndKeeps ==
    ASSUME DashInv, NEW announced \in BOOLEAN, DashRunEnds(announced)
    PROVE  DashInv'
<1> DEFINE own == IF dashRun.of = "click" THEN <<dashClick>> ELSE <<>>
           qs == SyncCompleteLoads(announced) \o own
<1>1. /\ dashRun # NoRun /\ dashRun' = NoRun /\ (announced \/ ~dashRun.applied)
      /\ dashClick' = IF own # <<>> THEN NoClick ELSE dashClick
      /\ IF qs # <<>> THEN UNCHANGED dashQuery /\ loadAnalytics(qs)
         ELSE UNCHANGED <<dashQuery, dashData, dashLoads, dashLoading, dashError, dashAnswered, dashCrossed,
                          dashOverlap, dashStale, dashUnsaid>>
      /\ dashVersion' = dashVersion
  BY DEF DashRunEnds, dashHistory
<1>2. dashQuery \in DashQueries /\ (dashRun.of = "click" => dashClick \in DashQueries)
  BY DEF DashInv, DashTypes
<1>3. CASE announced \/ dashRun.of = "click"
  <2>1. \E n \in {1, 2} : DOMAIN qs = 1 .. n /\ Len(qs) = n /\ \A i \in 1 .. n : qs[i] \in DashQueries
    <3>1. CASE announced /\ dashRun.of = "click"
      <4>1. own = <<dashClick>> /\ SyncCompleteLoads(announced) = <<dashQuery>>
        BY <3>1 DEF SyncCompleteLoads
      <4>2. <<dashQuery>> \in Seq(DashQueries) /\ <<dashClick>> \in Seq(DashQueries)
            /\ Len(<<dashQuery>>) = 1 /\ Len(<<dashClick>>) = 1
        BY <3>1, <1>2
      <4>3. \A s, t \in Seq(DashQueries) : s \o t \in Seq(DashQueries) /\ Len(s \o t) = Len(s) + Len(t)
        OBVIOUS
      <4>4. qs \in Seq(DashQueries) /\ Len(qs) = 2
        BY <4>1, <4>2, <4>3
      <4> HIDE DEF qs
      <4> QED
        BY <4>4
    <3>2. CASE announced /\ dashRun.of # "click"
      <4>1. qs = <<dashQuery>>
        BY <3>2 DEF SyncCompleteLoads
      <4>2. DOMAIN <<dashQuery>> = 1 .. 1 /\ Len(<<dashQuery>>) = 1
            /\ \A i \in 1 .. 1 : <<dashQuery>>[i] \in DashQueries
        BY <1>2
      <4> QED
        BY <4>1, <4>2
    <3>3. CASE ~announced /\ dashRun.of = "click"
      <4>1. qs = <<dashClick>>
        BY <3>3 DEF SyncCompleteLoads
      <4>2. DOMAIN <<dashClick>> = 1 .. 1 /\ Len(<<dashClick>>) = 1
            /\ \A i \in 1 .. 1 : <<dashClick>>[i] \in DashQueries
        BY <1>2, <3>3
      <4> QED
        BY <4>1, <4>2
    <3> QED
      BY <3>1, <3>2, <3>3, <1>3
  <2>2. qs # <<>>
    BY <2>1
  <2>3. dashClick' \in DashQueries \cup {NoClick} /\ dashRun' \in DashRuns /\ dashRun' = NoRun
        /\ dashRun'.of # "click"
    BY <1>1 DEF DashInv, DashTypes, DashRuns, NoRun
  <2>4. loadAnalytics(qs) /\ dashQuery' \in DashQueries /\ dashVersion' = dashVersion
    BY <1>1, <1>2, <2>2
  <2> HIDE DEF qs
  <2> QED
    BY <2>1, <2>3, <2>4, DashLoadKeeps
<1>4. CASE ~announced /\ dashRun.of # "click"
  <2>1. qs = <<>> /\ own = <<>>
    BY <1>4 DEF SyncCompleteLoads
  <2>2. /\ UNCHANGED <<dashQuery, dashData, dashLoads, dashLoading, dashError, dashAnswered, dashCrossed,
                       dashOverlap, dashStale, dashUnsaid, dashClick, dashVersion>>
        /\ dashRun' = NoRun /\ ~dashRun.applied
    BY <1>1, <1>4, <2>1
  <2>3. DashTypes'
    BY <2>2 DEF DashInv, DashTypes, DashRuns, NoRun
  <2>4. NumbersInv' /\ ZerosInv' /\ OneLoadInv'
    BY <2>2 DEF DashInv, NumbersInv, LoadNumbers, ZerosInv, dashIsSyncing, OneLoadInv
  <2>5. \A q, v : Fresh(q, v) => Fresh(q, v)'
    BY <2>2 DEF Fresh
  <2>6. NewestIsFresh => NewestIsFresh'
    BY <2>2, <2>5 DEF NewestIsFresh
  <2>7. FreshInv'
    BY <2>2, <2>5, <2>6 DEF DashInv, FreshInv
  <2> QED
    BY <2>3, <2>4, <2>7 DEF DashInv
<1> QED
  BY <1>3, <1>4

LEMMA DashStarts == DashInit => DashInv
<1> SUFFICES ASSUME DashInit PROVE DashInv
  OBVIOUS
<1>1. PICK l : l = [q |-> dashQuery, no |-> 1, version |-> 0]
  OBVIOUS
<1>2. /\ dashLoads = {l} /\ l.q = dashQuery /\ l.no = 1 /\ l.version = 0 /\ dashAnswered = 0
      /\ dashQuery \in DashQueries /\ l \in DashReads
  BY <1>1 DEF DashInit, DashReads
<1>3. DashTypes
  <2>1. NoRun \in DashRuns /\ NoRun.of = "nobody"
    BY DEF NoRun, DashRuns
  <2>2. NoFigures \in [q : DashQueries \cup {"none"}, version : Nat]
    BY DEF NoFigures
  <2>3. /\ dashLoading = TRUE /\ dashError = FALSE /\ dashCrossed = FALSE /\ dashOverlap = FALSE
        /\ dashStale = FALSE /\ dashUnsaid = FALSE
    BY DEF DashInit
  <2>4. dashData = NoFigures /\ dashClick = NoClick /\ dashRun = NoRun /\ dashVersion = 1
    BY DEF DashInit
  <2>5. NoRun.of # "click" /\ dashLoads \subseteq DashReads
    BY <1>2, <2>1
  <2>6. 1 \in Nat \ {0} /\ 0 \in Nat
    OBVIOUS
  <2> QED
    BY <1>2, <2>1, <2>2, <2>3, <2>4, <2>5, <2>6, Zenon DEF DashTypes
<1>4. NumbersInv
  <2>1. LoadNumbers = {0, 1}
    BY <1>2 DEF LoadNumbers
  <2> QED
    BY <1>2, <2>1 DEF NumbersInv
<1>5. ZerosInv /\ OneLoadInv
  BY <1>2 DEF DashInit, ZerosInv, OneLoadInv
<1>6. FreshInv
  BY <1>2 DEF FreshInv, NewestIsFresh
<1> QED
  BY <1>3, <1>4, <1>5, <1>6 DEF DashInv

LEMMA DashKeeps == DashInv /\ [DashNext]_dashVars => DashInv'
<1> SUFFICES ASSUME DashInv, [DashNext]_dashVars PROVE DashInv'
  OBVIOUS
<1>1. ASSUME NEW q \in DashQueries, ChangeQuery(q) PROVE DashInv'
  <2>1. /\ dashQuery' = q /\ loadAnalytics(<<q>>)
        /\ UNCHANGED <<dashClick, dashRun, dashVersion>>
    BY <1>1 DEF ChangeQuery
  <2>2. DOMAIN <<q>> = 1 .. 1 /\ Len(<<q>>) = 1 /\ \A i \in 1 .. 1 : <<q>>[i] \in DashQueries
    OBVIOUS
  <2>3. /\ dashClick \in DashQueries \cup {NoClick} /\ dashRun \in DashRuns
        /\ dashRun.of = "nobody" => dashRun = NoRun
        /\ dashRun.of = "click" => dashClick \in DashQueries
    BY DEF DashInv, DashTypes
  <2> QED
    BY <2>1, <2>2, <2>3, DashLoadKeeps
<1>2. ASSUME SyncRefused PROVE DashInv'
  <2>1. /\ UNCHANGED dashQuery /\ loadAnalytics(<<dashClick>>) /\ dashClick' = NoClick
        /\ UNCHANGED <<dashRun, dashVersion>> /\ dashRun.of # "click" /\ dashClick # NoClick
    BY <1>2 DEF SyncRefused, dashIsSyncing
  <2>2. /\ dashClick \in DashQueries /\ dashRun \in DashRuns /\ dashQuery \in DashQueries
        /\ dashRun.of = "nobody" => dashRun = NoRun
    BY <2>1 DEF DashInv, DashTypes
  <2>3. DOMAIN <<dashClick>> = 1 .. 1 /\ Len(<<dashClick>>) = 1
        /\ \A i \in 1 .. 1 : <<dashClick>>[i] \in DashQueries
    BY <2>2
  <2> QED
    BY <2>1, <2>2, <2>3, DashLoadKeeps
<1>3. CASE UNCHANGED dashVars
  BY <1>3 DEF dashVars, DashInv, DashTypes, NumbersInv, LoadNumbers, ZerosInv, dashIsSyncing, OneLoadInv,
              FreshInv, NewestIsFresh, Fresh
<1> QED
  BY <1>1, <1>2, <1>3, SettleKeeps, ReadKeeps, RunKeeps, RunEndKeeps DEF DashNext

(* For any queries, clicks, runs and loads: the dashboard at rest shows the  *)
(* figures of its query as of the last sync, or says that it has none, and   *)
(* never those of another query (DashboardView loadAnalytics, handleSyncNow).*)
THEOREM DashboardTrue == DashSpec => []DashboardIsTrue
<1>1. DashInv => DashboardIsTrue
  <2> SUFFICES ASSUME DashInv PROVE DashboardIsTrue
    OBVIOUS
  <2>1. ZerosAreExplained
    BY DEF DashInv, ZerosInv, ZerosAreExplained, SaysNothingThere, kpiTiles
  <2>2. FiguresAreOfQuery
    BY DEF DashInv, OneLoadInv, FiguresAreOfQuery, kpiTiles
  <2>3. ASSUME dashLoads = {}, dashRun = NoRun, ~dashIsSyncing, ~dashError, ~dashCrossed, ~dashStale, ~dashUnsaid
        PROVE  dashData = [q |-> dashQuery, version |-> dashVersion]
    <3>1. dashData # NoFigures
      BY <2>3 DEF DashInv, ZerosInv
    <3>2. dashData.q = dashQuery /\ dashData.version = dashVersion
      BY <2>3, <3>1 DEF DashInv, FreshInv, Fresh, NoRun
    <3> QED
      BY <3>2 DEF DashInv, DashTypes
  <2> QED
    BY <2>1, <2>2, <2>3 DEF DashboardIsTrue, DashboardIsCurrent
<1> QED
  BY <1>1, DashStarts, DashKeeps, PTL DEF DashSpec
-----------------------------------------------------------------------------
(* The imports of products. Each counts the rows of the batches so far:      *)
(* those it made, each with a SKU of its own that is in the catalogue, and   *)
(* the lines of the rest.                                                    *)
Imports == [step : {"reading", "sending", "ended"}, file : ImportFiles, start : Nat,
            made : SUBSET Nat, skipped : SUBSET Nat, visit : Nat]
Reached(im) == IF im.start < Len(im.file) THEN im.start ELSE Len(im.file)
Counted(im) ==
    /\ im.made \subseteq 1 .. Reached(im)
    /\ im.skipped = {k + 1 : k \in (1 .. Reached(im)) \ im.made}
    /\ \A k \in im.made : im.file[k] \in catalogue
    /\ \A k, m \in im.made : im.file[k] = im.file[m] => k = m
    /\ im.step = "reading" => im.made = {}
    /\ im.visit <= visit

ImportTypes ==
    /\ imports \in Seq(Imports) /\ visit \in Nat
    /\ importRunning \in BOOLEAN /\ overlapped \in BOOLEAN

CountInv == \A i \in DOMAIN imports : Counted(imports[i])

(* A result on display is that of an import that ran through.                *)
RanThrough(im) == im.step = "ended" /\ im.start >= Len(im.file)
ReportInv ==
    importReport.kind = "result" =>
        \E i \in DOMAIN imports : RanThrough(imports[i]) /\ importReport = Report(imports[i])

(* Without overlapping reads of files there is one import at a time, and it  *)
(* is shown as running once it sends.                                        *)
RunInv ==
    ~overlapped =>
        /\ \A i, j \in DOMAIN imports : imports[i].step # "ended" /\ imports[j].step # "ended" => i = j
        /\ \A i \in DOMAIN imports : imports[i].step = "sending" => importRunning

(* What no sync was requested for is stranded, or of an import that sends.   *)
AnnounceInv ==
    \A s \in unsynced :
        s \in strandedRows \/ \E i \in DOMAIN imports : imports[i].step = "sending" /\ s \in Made(imports[i])

ImportInv == ImportTypes /\ CountInv /\ ReportInv /\ RunInv /\ AnnounceInv /\ CreatedIsListed
-----------------------------------------------------------------------------
(* One of the imports is replaced by what it becomes.                        *)
LEMMA ReplaceFacts ==
    ASSUME imports \in Seq(Imports), NEW i \in DOMAIN imports, NEW im \in Imports,
           imports' = [imports EXCEPT ![i] = im]
    PROVE  /\ imports' \in Seq(Imports) /\ DOMAIN imports' = DOMAIN imports
           /\ imports'[i] = im /\ \A j \in DOMAIN imports : j # i => imports'[j] = imports[j]
  OBVIOUS

(* An import that is not in the state before: a file was chosen.             *)
LEMMA FileChosen ==
    ASSUME ImportInv, NEW f \in ImportFiles, handleFileImport(f)
    PROVE  ImportInv'
<1>1. PICK im : im = [step |-> "reading", file |-> f, start |-> 0, made |-> {}, skipped |-> {}, visit |-> visit]
  OBVIOUS
<1>2. /\ ~importRunning /\ imports' = Append(imports, im) /\ importReport' = NoReport
      /\ overlapped' = (overlapped \/ \E i \in DOMAIN imports : imports[i].step = "reading")
      /\ UNCHANGED <<catalogue, importRunning, sessionRows, visit, unsynced, removedRows, strandedRows>>
  BY <1>1 DEF handleFileImport, ImportOffered
<1>3. /\ im \in Imports /\ im.step = "reading" /\ im.made = {} /\ im.skipped = {} /\ im.visit = visit
      /\ im.start = 0 /\ im.file = f /\ visit \in Nat
  BY <1>1 DEF Imports, ImportInv, ImportTypes
<1>4. PICK n \in Nat : n = Len(imports) /\ DOMAIN imports = 1 .. n
  BY DEF ImportInv, ImportTypes
<1>5. /\ imports' \in Seq(Imports) /\ DOMAIN imports' = 1 .. (n + 1) /\ imports'[n + 1] = im
      /\ \A i \in 1 .. n : imports'[i] = imports[i]
  BY <1>2, <1>3, <1>4 DEF ImportInv, ImportTypes
<1>6. \A i \in DOMAIN imports' : i = n + 1 \/ i \in DOMAIN imports
  BY <1>4, <1>5
<1>7. ImportTypes'
  BY <1>2, <1>5 DEF ImportInv, ImportTypes
<1>8. CountInv'
  <2>1. f \in Seq(Skus \cup {Unnamed}) /\ Len(f) \in Nat
    BY ImportAssumption
  <2>2. Reached(im) = 0
    BY <1>3, <2>1 DEF Reached
  <2>3. Counted(im)'
    BY <1>2, <1>3, <2>2 DEF Counted, Reached
  <2>4. \A i \in DOMAIN imports : Counted(imports[i])'
    BY <1>2, <1>5 DEF ImportInv, CountInv, Counted, Reached
  <2> QED
    BY <2>3, <2>4, <1>4, <1>5, <1>6 DEF CountInv, Counted, Reached
<1>9. ReportInv'
  BY <1>2 DEF ReportInv, NoReport
<1>10. RunInv'
  <2>1. ~overlapped' => ~overlapped /\ \A i \in DOMAIN imports : imports[i].step # "reading"
    BY <1>2, Zenon
  <2>2. ~overlapped' => \A i \in DOMAIN imports : imports[i].step = "ended"
    <3>0. \A i \in DOMAIN imports : imports[i] \in Imports
      BY DEF ImportInv, ImportTypes
    <3>1. \A i \in DOMAIN imports : imports[i].step \in {"reading", "sending", "ended"}
      BY <3>0 DEF Imports
    <3> QED
      BY <2>1, <3>1, <1>2 DEF ImportInv, RunInv
  <2>3. ~overlapped' => \A i \in DOMAIN imports' : i = n + 1 \/ imports'[i].step = "ended"
    BY <2>2, <1>4, <1>5, <1>6
  <2> QED
    BY <2>3, <1>3, <1>5, <1>6 DEF RunInv
<1>11. AnnounceInv'
  BY <1>2, <1>4, <1>5 DEF ImportInv, AnnounceInv, Made
<1>12. CreatedIsListed'
  BY <1>2, <1>3, <1>4, <1>5, <1>6 DEF ImportInv, CreatedIsListed, Made
<1> QED
  BY <1>7, <1>8, <1>9, <1>10, <1>11, <1>12 DEF ImportInv

(* The end of an import: its file was refused, a batch failed, or it ran     *)
(* through.                                                                  *)
LEMMA ImportEnded ==
    ASSUME ImportInv, NEW i \in DOMAIN imports, FileIsRefused(i) \/ BatchFails(i) \/ ImportEnds(i)
    PROVE  ImportInv'
<1>1. PICK im \in Imports : im = imports[i]
  BY DEF ImportInv, ImportTypes
<1>2. PICK new : new = [im EXCEPT !.step = "ended"]
  OBVIOUS
<1>3. /\ new \in Imports /\ new.step = "ended" /\ new.file = im.file /\ new.start = im.start
      /\ new.made = im.made /\ new.skipped = im.skipped /\ new.visit = im.visit
  BY <1>1, <1>2 DEF Imports
<1>4. /\ imports' = [imports EXCEPT ![i] = new] /\ importRunning' = FALSE
      /\ UNCHANGED <<catalogue, visit, removedRows, overlapped>>
      /\ im.step # "ended"
  BY <1>1, <1>2 DEF FileIsRefused, BatchFails, ImportEnds, EndImport
<1>5. /\ imports' \in Seq(Imports) /\ DOMAIN imports' = DOMAIN imports
      /\ imports'[i] = new /\ \A j \in DOMAIN imports : j # i => imports'[j] = imports[j]
  BY <1>3, <1>4, ReplaceFacts DEF ImportInv, ImportTypes
<1>6. /\ strandedRows \subseteq strandedRows' /\ sessionRows \subseteq sessionRows' /\ unsynced' \subseteq unsynced
      /\ \A s \in unsynced' : s \in Made(im) => s \in strandedRows'
      /\ im.visit = visit => Made(im) \subseteq sessionRows' \cup strandedRows'
      /\ \/ importReport' \in {importReport, BadFile}
         \/ importReport' = Report(im) /\ im.start >= Len(im.file)
  <2>1. CASE FileIsRefused(i)
    <3>1. im.step = "reading" /\ UNCHANGED <<strandedRows, sessionRows, unsynced>>
          /\ importReport' \in {importReport, BadFile}
      BY <2>1, <1>1 DEF FileIsRefused, EndImport
    <3>2. Made(im) = {}
      BY <3>1, <1>1 DEF ImportInv, CountInv, Counted, Made
    <3> QED
      BY <3>1, <3>2
  <2>2. CASE BatchFails(i)
    BY <2>2, <1>1 DEF BatchFails, EndImport, Made
  <2>3. CASE ImportEnds(i)
    <3>1. /\ strandedRows' = strandedRows /\ im.start >= Len(im.file)
          /\ sessionRows' = IF im.visit = visit THEN sessionRows \cup Made(im) ELSE sessionRows
          /\ unsynced' = IF im.made # {} THEN {} ELSE unsynced
          /\ importReport' \in {importReport, Report(im)}
      BY <2>3, <1>1 DEF ImportEnds, EndImport, ListRows, Announce
    <3>2. im.made = {} => Made(im) = {}
      BY DEF Made
    <3> QED
      BY <3>1, <3>2
  <2> QED
    BY <2>1, <2>2, <2>3
<1>7. Made(new) = Made(im) /\ Report(new) = Report(im) /\ Reached(new) = Reached(im)
  BY <1>3 DEF Made, Report, Reached
<1>8. ImportTypes'
  BY <1>4, <1>5 DEF ImportInv, ImportTypes
<1>9. CountInv'
  <2>1. Counted(new)'
    BY <1>1, <1>3, <1>4, <1>7 DEF ImportInv, CountInv, Counted
  <2>2. \A j \in DOMAIN imports : j # i => Counted(imports[j])'
    BY <1>4, <1>5 DEF ImportInv, CountInv, Counted
  <2> QED
    BY <2>1, <2>2, <1>5 DEF CountInv, Counted
<1>10. ReportInv'
  <2>1. CASE importReport' = BadFile
    <3>1. BadFile.kind = "error"
      BY DEF BadFile, NoReport
    <3> QED
      BY <2>1, <3>1 DEF ReportInv
  <2>2. CASE importReport' = Report(im) /\ im.start >= Len(im.file)
    BY <2>2, <1>3, <1>5, <1>7 DEF ReportInv, RanThrough
  <2>3. CASE importReport' = importReport
    <3>1. \A j \in DOMAIN imports : RanThrough(imports[j]) => imports'[j] = imports[j]
      BY <1>1, <1>4, <1>5 DEF RanThrough
    <3> QED
      BY <2>3, <3>1, <1>5 DEF ImportInv, ReportInv
  <2> QED
    BY <2>1, <2>2, <2>3, <1>6
<1>11. RunInv'
  <2>1. \A j \in DOMAIN imports' : imports'[j].step # "ended" => j # i /\ imports'[j] = imports[j]
    BY <1>3, <1>5
  <2>2. ~overlapped => \A j \in DOMAIN imports' : imports'[j].step = "ended"
    BY <2>1, <1>1, <1>4, <1>5 DEF ImportInv, RunInv
  <2> QED
    BY <2>2, <1>4 DEF RunInv
<1>12. AnnounceInv'
  <2> SUFFICES ASSUME NEW s \in unsynced', s \notin strandedRows'
               PROVE  \E j \in DOMAIN imports' : imports'[j].step = "sending" /\ s \in Made(imports'[j])
    BY DEF AnnounceInv, Made
  <2>1. PICK j \in DOMAIN imports : imports[j].step = "sending" /\ s \in Made(imports[j])
    BY <1>6 DEF ImportInv, AnnounceInv
  <2>2. j # i
    BY <2>1, <1>1, <1>6
  <2> QED
    BY <2>1, <2>2, <1>5
<1>13. CreatedIsListed'
  <2> SUFFICES ASSUME NEW j \in DOMAIN imports', imports'[j].step = "ended", imports'[j].visit = visit'
               PROVE  Made(imports'[j]) \subseteq sessionRows' \cup removedRows' \cup strandedRows'
    BY DEF CreatedIsListed, Made
  <2>1. CASE j = i
    BY <2>1, <1>3, <1>4, <1>5, <1>6, <1>7
  <2>2. CASE j # i
    BY <2>2, <1>4, <1>5, <1>6 DEF ImportInv, CreatedIsListed
  <2> QED
    BY <2>1, <2>2
<1> QED
  BY <1>8, <1>9, <1>10, <1>11, <1>12, <1>13 DEF ImportInv

(* The file has been read: the batches begin.                                *)
LEMMA ImportBegins ==
    ASSUME ImportInv, NEW i \in DOMAIN imports, FileIsRead(i)
    PROVE  ImportInv'
<1>1. PICK im \in Imports : im = imports[i]
  BY DEF ImportInv, ImportTypes
<1>2. PICK new : new = [im EXCEPT !.step = "sending"]
  OBVIOUS
<1>3. /\ new \in Imports /\ new.step = "sending" /\ new.file = im.file /\ new.start = im.start
      /\ new.made = im.made /\ new.skipped = im.skipped /\ new.visit = im.visit
  BY <1>1, <1>2 DEF Imports
<1>4. /\ imports' = [imports EXCEPT ![i] = new] /\ importRunning' = TRUE /\ im.step = "reading"
      /\ UNCHANGED <<catalogue, visit, removedRows, overlapped, importReport, sessionRows, unsynced, strandedRows>>
  BY <1>1, <1>2 DEF FileIsRead
<1>5. /\ imports' \in Seq(Imports) /\ DOMAIN imports' = DOMAIN imports
      /\ imports'[i] = new /\ \A j \in DOMAIN imports : j # i => imports'[j] = imports[j]
  BY <1>3, <1>4, ReplaceFacts DEF ImportInv, ImportTypes
<1>6. Made(new) = Made(im) /\ Reached(new) = Reached(im)
  BY <1>3 DEF Made, Reached
<1>7. ImportTypes'
  BY <1>4, <1>5 DEF ImportInv, ImportTypes
<1>8. CountInv'
  <2>1. Counted(new)'
    BY <1>1, <1>3, <1>4, <1>6 DEF ImportInv, CountInv, Counted
  <2>2. \A j \in DOMAIN imports : j # i => Counted(imports[j])'
    BY <1>4, <1>5 DEF ImportInv, CountInv, Counted
  <2> QED
    BY <2>1, <2>2, <1>5 DEF CountInv, Counted
<1>9. ReportInv'
  <2>1. \A j \in DOMAIN imports : RanThrough(imports[j]) => imports'[j] = imports[j]
    BY <1>1, <1>4, <1>5 DEF RanThrough
  <2> QED
    BY <2>1, <1>4, <1>5 DEF ImportInv, ReportInv
<1>10. RunInv'
  <2>1. \A j \in DOMAIN imports' : imports'[j].step # "ended" => imports[j].step # "ended"
    BY <1>1, <1>4, <1>5
  <2> QED
    BY <2>1, <1>4, <1>5 DEF ImportInv, RunInv
<1>11. AnnounceInv'
  <2>1. \A j \in DOMAIN imports : imports[j].step = "sending" => imports'[j] = imports[j]
    BY <1>1, <1>4, <1>5
  <2> QED
    BY <2>1, <1>4, <1>5 DEF ImportInv, AnnounceInv, Made
<1>12. CreatedIsListed'
  BY <1>3, <1>4, <1>5 DEF ImportInv, CreatedIsListed, Made
<1> QED
  BY <1>7, <1>8, <1>9, <1>10, <1>11, <1>12 DEF ImportInv

(* A batch: the rows from start + 1 to its end are made or skipped.          *)
AfterBatch(im, made) ==
    [im EXCEPT !.start = @ + BatchSize, !.made = @ \cup made, !.skipped = @ \cup SkippedRows(im, made)]

Advanced(im, made, new) ==
    /\ new \in Imports /\ new.step = im.step /\ new.file = im.file /\ new.visit = im.visit
    /\ new.made = im.made \cup made
    /\ new.made \subseteq 1 .. Reached(new)
    /\ new.skipped = {k + 1 : k \in (1 .. Reached(new)) \ new.made}
    /\ \A k, m \in new.made : im.file[k] = im.file[m] => k = m

LEMMA RowsOfUnion ==
    ASSUME NEW A, NEW B, NEW C, C = A \cup B
    PROVE  {k + 1 : k \in C} = {k + 1 : k \in A} \cup {k + 1 : k \in B}
  BY Zenon

LEMMA BatchFacts ==
    ASSUME NEW im \in Imports, Counted(im), im.start < Len(im.file), NEW made, NEW new,
           made = importBatch(im.file, im.start + 1, BatchEnd(im)),
           new = AfterBatch(im, made)
    PROVE  Advanced(im, made, new)
<1>1. PICK n \in Nat : n = Len(im.file)
  BY ImportAssumption DEF Imports
<1>2. PICK a \in Nat : a = im.start /\ a < n
  BY <1>1 DEF Imports
<1>3. PICK b \in Nat : b = BatchEnd(im) /\ a < b /\ b <= n
                       /\ b = IF a + BatchSize < n THEN a + BatchSize ELSE n
  BY <1>1, <1>2, ImportAssumption DEF BatchEnd
<1>4. /\ made \subseteq (a + 1) .. b
      /\ \A k \in made : /\ im.file[k] \notin catalogue
                         /\ \A j \in (a + 1) .. (k - 1) : im.file[j] # im.file[k]
  BY <1>2, <1>3 DEF importBatch, pickRowValue
<1>5. PICK sk : sk = SkippedRows(im, made)
  OBVIOUS
<1>6. sk = {k + 1 : k \in ((a + 1) .. b) \ made}
  BY <1>2, <1>3, <1>5 DEF SkippedRows
<1>7. sk \subseteq Nat /\ made \subseteq Nat
  BY <1>4, <1>6
<1>8. /\ new \in Imports /\ new.step = im.step /\ new.file = im.file /\ new.visit = im.visit
      /\ new.made = im.made \cup made /\ new.skipped = im.skipped \cup sk /\ new.start = a + BatchSize
  <2>1. PICK st \in Nat : st = a + BatchSize
    BY ImportAssumption
  <2>2. PICK md \in SUBSET Nat : md = im.made \cup made
    BY <1>7 DEF Imports
  <2>3. PICK ss \in SUBSET Nat : ss = im.skipped \cup sk
    BY <1>7 DEF Imports
  <2>4. new = [im EXCEPT !.start = st, !.made = md, !.skipped = ss]
    BY <1>2, <1>5, <2>1, <2>2, <2>3 DEF AfterBatch
  <2> QED
    BY <2>1, <2>2, <2>3, <2>4 DEF Imports
<1>9. Reached(im) = a /\ Reached(new) = b
  BY <1>1, <1>2, <1>3, <1>8, ImportAssumption DEF Reached
<1>10. im.made \subseteq 1 .. a /\ im.skipped = {k + 1 : k \in (1 .. a) \ im.made}
  BY <1>9 DEF Counted
<1>11. new.made \subseteq 1 .. b
  BY <1>3, <1>4, <1>8, <1>10
<1>12. new.skipped = {k + 1 : k \in (1 .. b) \ new.made}
  <2>1. (1 .. b) \ new.made = ((1 .. a) \ im.made) \cup (((a + 1) .. b) \ made)
    BY <1>3, <1>4, <1>8, <1>10
  <2>2. PICK A, B, C : A = (1 .. a) \ im.made /\ B = ((a + 1) .. b) \ made /\ C = (1 .. b) \ new.made
    OBVIOUS
  <2>3. C = A \cup B
    BY <2>1, <2>2, Zenon
  <2>4. {k + 1 : k \in C} = {k + 1 : k \in A} \cup {k + 1 : k \in B}
    BY <2>3, RowsOfUnion, Zenon
  <2>5. im.skipped = {k + 1 : k \in A} /\ sk = {k + 1 : k \in B}
    BY <2>2, <1>6, <1>10, Zenon
  <2> QED
    BY <2>2, <2>4, <2>5, <1>8, Zenon
<1>13. \A k, m \in new.made : im.file[k] = im.file[m] => k = m
  <2> SUFFICES ASSUME NEW k \in new.made, NEW m \in new.made, im.file[k] = im.file[m]
               PROVE  k = m
    OBVIOUS
  <2>1. CASE k \in im.made /\ m \in im.made
    BY <2>1 DEF Counted
  <2>2. ASSUME NEW x \in im.made, NEW y \in made PROVE im.file[x] # im.file[y]
    BY <1>4 DEF Counted
  <2>3. CASE k \in made /\ m \in made
    <3>1. ASSUME NEW x \in made, NEW y \in made, x < y PROVE im.file[x] # im.file[y]
      <4>1. x \in (a + 1) .. (y - 1)
        BY <3>1, <1>4
      <4> QED
        BY <4>1, <1>4
    <3>2. k \in Nat /\ m \in Nat
      BY <2>3, <1>7
    <3> QED
      BY <2>3, <3>1, <3>2
  <2> QED
    BY <2>1, <2>2, <2>3, <1>8
<1> QED
  BY <1>8, <1>9, <1>11, <1>12, <1>13 DEF Advanced

LEMMA BatchAnswered ==
    ASSUME ImportInv, NEW i \in DOMAIN imports, BatchAnswers(i)
    PROVE  ImportInv'
<1>1. PICK im \in Imports : im = imports[i]
  BY DEF ImportInv, ImportTypes
<1>2. PICK made : made = importBatch(im.file, im.start + 1, BatchEnd(im))
  OBVIOUS
<1>3. PICK new : new = AfterBatch(im, made)
  OBVIOUS
<1>4. /\ im.step = "sending" /\ im.start < Len(im.file)
      /\ catalogue' = catalogue \cup {im.file[k] : k \in made}
      /\ unsynced' = unsynced \cup {im.file[k] : k \in made}
      /\ imports' = [imports EXCEPT ![i] = new]
      /\ importRunning' = TRUE
      /\ UNCHANGED <<importReport, sessionRows, visit, removedRows, strandedRows, overlapped>>
  BY <1>1, <1>2, <1>3 DEF BatchAnswers, AfterBatch
<1>5. Counted(im)
  BY <1>1 DEF ImportInv, CountInv
<1>14. Advanced(im, made, new)
  BY <1>2, <1>3, <1>4, <1>5, BatchFacts
<1>6. /\ new \in Imports /\ new.step = im.step /\ new.file = im.file /\ new.visit = im.visit
      /\ new.made = im.made \cup made
      /\ new.made \subseteq 1 .. Reached(new)
      /\ new.skipped = {k + 1 : k \in (1 .. Reached(new)) \ new.made}
      /\ \A k, m \in new.made : im.file[k] = im.file[m] => k = m
  BY <1>14, Zenon DEF Advanced
<1>7. /\ imports' \in Seq(Imports) /\ DOMAIN imports' = DOMAIN imports
      /\ imports'[i] = new /\ \A j \in DOMAIN imports : j # i => imports'[j] = imports[j]
  BY <1>4, <1>6, ReplaceFacts DEF ImportInv, ImportTypes
<1>8. ImportTypes'
  BY <1>4, <1>7 DEF ImportInv, ImportTypes
<1>9. CountInv'
  <2>1. \A k \in new.made : new.file[k] \in catalogue'
    BY <1>4, <1>5, <1>6 DEF Counted
  <2>2. Counted(new)'
    BY <2>1, <1>4, <1>5, <1>6 DEF Counted, Reached
  <2>3. \A j \in DOMAIN imports : j # i => Counted(imports[j])'
    BY <1>4, <1>7 DEF ImportInv, CountInv, Counted
  <2> QED
    BY <2>2, <2>3, <1>7 DEF CountInv, Counted
<1>10. ReportInv'
  <2>1. \A j \in DOMAIN imports : RanThrough(imports[j]) => imports'[j] = imports[j]
    BY <1>1, <1>4, <1>7 DEF RanThrough
  <2> QED
    BY <2>1, <1>4, <1>7 DEF ImportInv, ReportInv
<1>11. RunInv'
  <2>1. \A j \in DOMAIN imports' : imports'[j].step = imports[j].step
    BY <1>1, <1>6, <1>7
  <2> QED
    BY <2>1, <1>4, <1>7 DEF ImportInv, RunInv
<1>12. AnnounceInv'
  <2>1. Made(new) = Made(im) \cup {im.file[k] : k \in made}
    BY <1>6 DEF Made
  <2>2. \A j \in DOMAIN imports : imports[j].step = "sending" =>
           imports'[j].step = "sending" /\ Made(imports[j]) \subseteq Made(imports'[j])
    BY <2>1, <1>1, <1>6, <1>7
  <2>3. \A s \in unsynced : s \in strandedRows' \/
           \E j \in DOMAIN imports' : imports'[j].step = "sending" /\ s \in Made(imports'[j])
    BY <2>2, <1>4, <1>7 DEF ImportInv, AnnounceInv
  <2>4. \A s \in {im.file[k] : k \in made} : imports'[i].step = "sending" /\ s \in Made(imports'[i])
    BY <2>1, <1>4, <1>6, <1>7
  <2> QED
    BY <2>3, <2>4, <1>4, <1>7 DEF AnnounceInv, Made
<1>13. CreatedIsListed'
  <2>1. \A j \in DOMAIN imports' : imports'[j].step = "ended" => imports'[j] = imports[j]
    BY <1>4, <1>6, <1>7
  <2> QED
    BY <2>1, <1>4, <1>7 DEF ImportInv, CreatedIsListed, Made
<1> QED
  BY <1>8, <1>9, <1>10, <1>11, <1>12, <1>13 DEF ImportInv

(* The form, the list and the way to another view and back: no import moves. *)
LEMMA FormKeeps ==
    ASSUME ImportInv,
           \/ \E s \in Skus \cup {Unnamed} : TypeForm(s)
           \/ handleSimpleAdd \/ LeaveAndReturn
           \/ \E c \in addCalls : createProduct(c)
           \/ \E s \in sessionRows : removeSessionRow(s)
    PROVE  ImportInv'
<1>1. /\ UNCHANGED <<imports, importRunning, overlapped, strandedRows>> /\ catalogue \subseteq catalogue'
      /\ importReport' \in {importReport, NoReport} /\ unsynced' \in {unsynced, {}}
      /\ \/ visit' = visit /\ sessionRows \cup removedRows \subseteq sessionRows' \cup removedRows'
         \/ visit' = visit + 1
  BY DEF TypeForm, handleSimpleAdd, LeaveAndReturn, createProduct, removeSessionRow
<1>2. visit \in Nat /\ visit' \in Nat /\ visit <= visit'
  BY <1>1 DEF ImportInv, ImportTypes
<1>3. ImportTypes'
  BY <1>1, <1>2 DEF ImportInv, ImportTypes
<1>4. CountInv'
  <2>0. \A i \in DOMAIN imports : imports[i] \in Imports
    BY DEF ImportInv, ImportTypes
  <2>1. \A i \in DOMAIN imports : imports[i].visit \in Nat
    BY <2>0 DEF Imports
  <2> QED
    BY <2>1, <1>1, <1>2 DEF ImportInv, CountInv, Counted, Reached
<1>5. ReportInv'
  <2>1. NoReport.kind # "result"
    BY DEF NoReport
  <2> QED
    BY <2>1, <1>1 DEF ImportInv, ReportInv, RanThrough, Report, Made
<1>6. RunInv' /\ AnnounceInv'
  BY <1>1 DEF ImportInv, RunInv, AnnounceInv, Made
<1>7. CreatedIsListed'
  <2>1. CASE visit' = visit
    BY <2>1, <1>1, <1>2 DEF ImportInv, CreatedIsListed, Made
  <2>2. CASE visit' = visit + 1
    <3>0. \A i \in DOMAIN imports : imports[i] \in Imports
      BY DEF ImportInv, ImportTypes
    <3>1. \A i \in DOMAIN imports : imports[i].visit \in Nat /\ imports[i].visit <= visit
      BY <3>0 DEF Imports, ImportInv, CountInv, Counted
    <3> QED
      BY <3>1, <2>2, <1>1, <1>2 DEF CreatedIsListed
  <2> QED
    BY <2>1, <2>2, <1>1
<1> QED
  BY <1>3, <1>4, <1>5, <1>6, <1>7 DEF ImportInv

LEMMA ImportStarts == ImportInit => ImportInv
<1> SUFFICES ASSUME ImportInit PROVE ImportInv
  OBVIOUS
<1>1. /\ imports = <<>> /\ imports \in Seq(Imports) /\ DOMAIN imports = {} /\ visit = 1
      /\ importRunning = FALSE /\ overlapped = FALSE /\ unsynced = {} /\ importReport = NoReport
  BY DEF ImportInit
<1>2. importReport.kind # "result"
  BY <1>1 DEF NoReport
<1> QED
  BY <1>1, <1>2 DEF ImportInv, ImportTypes, CountInv, ReportInv, RunInv, AnnounceInv, CreatedIsListed

LEMMA ImportKeeps == ImportInv /\ [ImportNext]_importVars => ImportInv'
<1> SUFFICES ASSUME ImportInv, [ImportNext]_importVars PROVE ImportInv'
  OBVIOUS
<1>1. CASE UNCHANGED importVars
  BY <1>1 DEF importVars, ImportInv, ImportTypes, CountInv, Counted, Reached, ReportInv, RanThrough, Report,
              RunInv, AnnounceInv, CreatedIsListed, Made
<1> QED
  BY <1>1, FileChosen, ImportEnded, ImportBegins, BatchAnswered, FormKeeps DEF ImportNext

(* The report names each row that made no product: also an import that       *)
(* failed midway cannot be mistaken for the one the report is of, for of the *)
(* last row it would have to have made a product with the SKU of an earlier. *)
LEMMA ReportExact == ImportInv => ReportIsExact
<1> SUFFICES ASSUME ImportInv, NEW i \in DOMAIN imports, importReport = Report(imports[i])
             PROVE  importReport.skipped = {k + 1 : k \in DOMAIN imports[i].file \ imports[i].made}
  BY DEF ReportIsExact
<1>1. PICK im \in Imports : im = imports[i] /\ Counted(im)
  BY DEF ImportInv, ImportTypes, CountInv
<1>2. /\ importReport.kind = "result" /\ importReport.skipped = im.skipped
      /\ importReport.file = im.file /\ importReport.created = Made(im)
  BY <1>1 DEF Report
<1>3. PICK j \in DOMAIN imports : RanThrough(imports[j]) /\ importReport = Report(imports[j])
  BY <1>2 DEF ImportInv, ReportInv
<1>4. PICK jm \in Imports : jm = imports[j] /\ Counted(jm)
  BY DEF ImportInv, ImportTypes, CountInv
<1>5. jm.file = im.file /\ jm.skipped = im.skipped /\ Made(jm) = Made(im) /\ jm.start >= Len(jm.file)
  BY <1>2, <1>3, <1>4 DEF Report, RanThrough
<1>6. PICK n \in Nat : n = Len(im.file) /\ DOMAIN im.file = 1 .. n
  BY ImportAssumption DEF Imports
<1>7. PICK a \in Nat : a = Reached(im) /\ a <= n
  BY <1>6 DEF Reached, Imports
<1>8. Reached(jm) = n
  BY <1>5, <1>6 DEF Reached, Imports
<1>9. a = n
  <2> SUFFICES ASSUME a < n PROVE FALSE
    BY <1>7
  <2>1. \A k \in 1 .. n : k \notin jm.made <=> k + 1 \in jm.skipped
    BY <1>4, <1>8 DEF Counted
  <2>2. \A k \in 1 .. n : k + 1 \in im.skipped => k \in 1 .. a /\ k \notin im.made
    BY <1>1, <1>7 DEF Counted
  <2>3. n \in 1 .. n /\ n \notin 1 .. a
    BY <1>7
  <2>4. n \in jm.made
    BY <2>1, <2>2, <2>3, <1>5
  <2>5. im.file[n] \in Made(im)
    BY <2>4, <1>5 DEF Made
  <2>6. PICK k \in im.made : im.file[k] = im.file[n]
    BY <2>5 DEF Made
  <2>7. k \in 1 .. a /\ k \in 1 .. n
    BY <1>1, <1>7 DEF Counted
  <2>8. k \in jm.made
    BY <2>1, <2>2, <2>7, <1>5
  <2>9. k = n
    BY <2>4, <2>6, <2>8, <1>4, <1>5 DEF Counted
  <2> QED
    BY <2>3, <2>7, <2>9
<1> QED
  BY <1>1, <1>2, <1>6, <1>7, <1>9 DEF Counted

(* For any files, batch size, imports, adds and visits: the report of an     *)
(* import is exact, an import that sends is shown, and what was created is   *)
(* announced to the sync and listed (CreateProductView handleFileImport).    *)
THEOREM ImportTrue ==
    ImportInit /\ [][ImportNext]_importVars
        => [](ReportIsExact /\ RunningIsShown /\ CreatedIsAnnounced /\ CreatedIsListed)
<1>1. ImportInv => RunningIsShown /\ CreatedIsAnnounced /\ CreatedIsListed
  BY DEF ImportInv, RunInv, RunningIsShown, AnnounceInv, CreatedIsAnnounced
<1> QED
  BY <1>1, ReportExact, ImportStarts, ImportKeeps, PTL
-----------------------------------------------------------------------------
(* The product list. A read is a record with a number of its own, and there  *)
(* is a newest of those that are under way or were answered.                 *)
IsRead(f) ==
    /\ f = [q |-> f.q, no |-> f.no, tableRows |-> f.tableRows, count |-> f.count]
    /\ f.no \in Nat
ReadNumbers == {f.no : f \in fetches} \cup {newestShown}
ReadsInv ==
    /\ newestShown \in Nat /\ crossedReads \in BOOLEAN /\ staleQuery \in BOOLEAN /\ listError \in BOOLEAN
    /\ \A f \in fetches : IsRead(f) /\ f.no # newestShown
    /\ \A f, g \in fetches : f.no = g.no => f = g
    /\ \E n \in ReadNumbers : \A m \in ReadNumbers : m <= n

(* Unless a read crossed another or was sent for an older query, the newest  *)
(* is of the query and has not run or has read what the database still       *)
(* holds; if it was answered already, the others will be late; and at rest   *)
(* the table is that of the query, or there is an error.                     *)
IsCurrent(items, count) == items = Answer(query) /\ count = getProductsCount(query)
NewestIsCurrent ==
    \E f \in fetches : /\ \A g \in fetches : g.no <= f.no
                       /\ newestShown < f.no /\ f.q = query
                       /\ f.tableRows = NotRead \/ IsCurrent(f.tableRows, f.count)
TableInv ==
    ~crossedReads /\ ~staleQuery =>
        IF fetches = {} THEN listError \/ IsCurrent(tableRows, totalProducts)
        ELSE (\A f \in fetches : f.no < newestShown) \/ NewestIsCurrent

(* A read of balances that was not cancelled is for the rows of the table.   *)
CoverInv ==
    /\ balanceLoad # {} => storesRead /\ balanceLoad = DOMAIN tableRows
    /\ QuantitiesCoverRows

ListInv == ReadsInv /\ TableInv /\ CoverInv
-----------------------------------------------------------------------------
(* The database is asked the same question and answers the same.             *)
LEMMA SameAnswers ==
    ASSUME categoryOf' = categoryOf
    PROVE  \A q : Answer(q)' = Answer(q) /\ getProductsCount(q)' = getProductsCount(q)
  BY DEF Answer, getProductsCount, searchTable, getProductsPaginated, Matching, Rows

LEMMA StartFacts ==
    ASSUME NEW q, NEW n \in Nat
    PROVE  /\ IsRead(StartRead(q, n)) /\ StartRead(q, n).no = n /\ StartRead(q, n).q = q
           /\ StartRead(q, n).tableRows = NotRead
  BY DEF StartRead, IsRead

LEMMA NextFacts ==
    ASSUME ReadsInv
    PROVE  NextNo \in Nat /\ newestShown < NextNo /\ \A f \in fetches : f.no < NextNo
<1>1. ReadNumbers \subseteq Nat
  BY DEF ReadsInv, ReadNumbers, IsRead
<1>2. PICK n \in ReadNumbers : \A m \in ReadNumbers : m <= n
  BY DEF ReadsInv
<1>3. \A x \in ReadNumbers : (\A m \in ReadNumbers : m <= x) => x = n
  BY <1>1, <1>2
<1>4. PICK c : c = CHOOSE x \in ReadNumbers : \A m \in ReadNumbers : m <= x
  OBVIOUS
<1>5. c \in ReadNumbers /\ \A m \in ReadNumbers : m <= c
  BY <1>2, <1>4, Zenon
<1>6. newestShown \in ReadNumbers /\ \A f \in fetches : f.no \in ReadNumbers
  BY DEF ReadNumbers
<1>7. CASE fetches = {}
  <2>1. NextNo = newestShown + 1
    BY <1>7, Zenon DEF NextNo
  <2>2. newestShown \in Nat /\ ~\E f \in fetches : TRUE
    BY <1>1, <1>6, <1>7
  <2> QED
    BY <2>1, <2>2
<1>8. CASE fetches # {}
  <2>1. NextNo = 1 + c
    BY <1>4, <1>8, Zenon DEF NextNo, ReadNumbers
  <2>2. c \in Nat /\ newestShown \in Nat /\ newestShown <= c
    BY <1>1, <1>5, <1>6
  <2>3. \A f \in fetches : f.no \in Nat /\ f.no <= c
    BY <1>1, <1>5, <1>6
  <2> QED
    BY <2>1, <2>2, <2>3
<1> QED
  BY <1>7, <1>8

(* A set of reads begins, of which the newest is for the query.              *)
LEMMA BeginsKeep ==
    ASSUME ListInv, NEW new, NEW top \in new, fetches' = fetches \cup new,
           \A f \in new : IsRead(f) /\ NextNo <= f.no /\ f.no <= top.no,
           \A f, g \in new : f.no = g.no => f = g,
           top.tableRows = NotRead, ~staleQuery' => top.q = query',
           newestShown' = newestShown, crossedReads' \in BOOLEAN, staleQuery' \in BOOLEAN, listError' \in BOOLEAN
    PROVE  ReadsInv' /\ TableInv'
<1>1. NextNo \in Nat /\ newestShown < NextNo /\ newestShown \in Nat /\ \A f \in fetches : f.no < NextNo /\ f.no \in Nat
  BY NextFacts DEF ListInv, ReadsInv, IsRead
<1>2. top.no \in Nat /\ \A f \in new : f.no \in Nat
  BY DEF IsRead
<1>3. top \in fetches' /\ newestShown' < top.no /\ \A f \in fetches' : f.no \in Nat /\ f.no <= top.no
  BY <1>1, <1>2
<1>4. ReadsInv'
  <2>1. \A f \in fetches' : IsRead(f) /\ f.no # newestShown'
    BY <1>1, <1>2 DEF ListInv, ReadsInv
  <2>2. \A f, g \in fetches' : f.no = g.no => f = g
    <3>1. \A f, g \in fetches : f.no = g.no => f = g
      BY DEF ListInv, ReadsInv
    <3> QED
      BY <3>1, <1>1, <1>2
  <2>3. top.no \in ReadNumbers' /\ \A m \in ReadNumbers' : m <= top.no
    BY <1>1, <1>2, <1>3 DEF ReadNumbers
  <2> QED
    BY <1>1, <2>1, <2>2, <2>3 DEF ReadsInv, IsRead
<1>5. ~staleQuery' => NewestIsCurrent'
  BY <1>3 DEF NewestIsCurrent
<1> QED
  BY <1>3, <1>4, <1>5 DEF TableInv

(* fetchProductsList for one query, and for a filter with its old page and   *)
(* the first.                                                                *)
LEMMA FetchKeeps ==
    ASSUME ListInv, NEW q, query' = q \/ query' = [q EXCEPT !.page = 1],
           NEW qs, qs = {q, query'}, fetchProductsList(qs),
           UNCHANGED <<newestShown, crossedReads, staleQuery>>
    PROVE  ReadsInv' /\ TableInv'
<1>1. NextNo \in Nat
  BY NextFacts DEF ListInv
<1>2. PICK c \in Nat : c = Cardinality(qs) - 1 /\ (q # query' => c = 1)
  <2>1. IsFiniteSet({query'}) /\ Cardinality({query'}) = 1
    BY FS_Singleton
  <2>2. q = query' => qs = {query'}
    OBVIOUS
  <2>3. q # query' => Cardinality(qs) = 2
    <3> SUFFICES ASSUME q # query' PROVE Cardinality(qs) = 2
      OBVIOUS
    <3>1. qs = {query'} \cup {q} /\ q \notin {query'}
      OBVIOUS
    <3>2. Cardinality({query'} \cup {q}) = 2
      BY <2>1, <3>1, FS_AddElement
    <3> QED
      BY <3>1, <3>2
  <2> QED
    BY <2>1, <2>2, <2>3
<1>3. PICK top : top = StartRead(query', NextNo + c)
  OBVIOUS
<1>4. PICK low : low = StartRead(q, NextNo + (IF q = query' THEN c ELSE 0))
  OBVIOUS
<1>5. fetches' = fetches \cup {top, low} /\ listError' = FALSE
  BY <1>2, <1>3, <1>4 DEF fetchProductsList
<1>6. IsRead(top) /\ top.no = NextNo + c /\ top.q = query' /\ top.tableRows = NotRead
  BY <1>1, <1>2, <1>3, StartFacts
<1>7. IsRead(low) /\ low.no = NextNo + (IF q = query' THEN c ELSE 0) /\ (q = query' => low = top)
  BY <1>1, <1>2, <1>3, <1>4, StartFacts
<1>8. \A f \in {top, low} : IsRead(f) /\ NextNo <= f.no /\ f.no <= top.no
  BY <1>1, <1>2, <1>6, <1>7
<1>9. \A f, g \in {top, low} : f.no = g.no => f = g
  BY <1>1, <1>2, <1>6, <1>7
<1>10. crossedReads' \in BOOLEAN /\ staleQuery' \in BOOLEAN /\ listError' \in BOOLEAN
  BY <1>5 DEF ListInv, ReadsInv
<1>11. PICK new : new = {top, low}
  OBVIOUS
<1>12. /\ top \in new /\ fetches' = fetches \cup new
       /\ \A f \in new : IsRead(f) /\ NextNo <= f.no /\ f.no <= top.no
       /\ \A f, g \in new : f.no = g.no => f = g
  BY <1>5, <1>8, <1>9, <1>11
<1> QED
  BY <1>6, <1>10, <1>12, BeginsKeep

(* The filter bar and the pager.                                             *)
LEMMA FilterKeeps ==
    ASSUME ListInv,
           \/ \E s \in BOOLEAN, c \in Categories \cup {All} : SetFilter(s, c)
           \/ handlePreviousPage \/ handleNextPage \/ RetryLoad \/ handleClearFilters
    PROVE  ListInv'
<1>1. /\ UNCHANGED <<tableRows, quantities, balanceLoad, storesRead, newestShown, crossedReads, staleQuery>>
      /\ \E q, qs : /\ query' = q \/ query' = [q EXCEPT !.page = 1]
                    /\ qs = {q, query'} /\ fetchProductsList(qs)
  <2>1. ASSUME NEW q, FilterRead(q)
        PROVE  \E qs : query' = [q EXCEPT !.page = 1] /\ qs = {q, query'} /\ fetchProductsList(qs)
    <3>1. query' = [q EXCEPT !.page = 1] /\ fetchProductsList({q, [q EXCEPT !.page = 1]})
      BY <2>1 DEF FilterRead
    <3> QED
      BY <3>1
  <2>2. ASSUME fetchProductsList({query'})
        PROVE  \E q, qs : query' = q /\ qs = {q, query'} /\ fetchProductsList(qs)
    <3>1. {query'} = {query', query'}
      OBVIOUS
    <3> QED
      BY <2>2, <3>1
  <2>3. CASE \E s \in BOOLEAN, c \in Categories \cup {All} : SetFilter(s, c)
    BY <2>3, <2>1 DEF SetFilter, Unedited
  <2>4. CASE handleClearFilters
    BY <2>4, <2>1 DEF handleClearFilters, Unedited
  <2>5. CASE handlePreviousPage \/ handleNextPage
    BY <2>5, <2>2 DEF handlePreviousPage, handleNextPage, Unedited
  <2>6. CASE RetryLoad
    <3>1. query' = query /\ fetchProductsList({query'})
      BY <2>6 DEF RetryLoad
    <3> QED
      BY <2>6, <3>1, <2>2 DEF RetryLoad, Unedited
  <2> QED
    BY <2>3, <2>4, <2>5, <2>6
<1>2. ReadsInv' /\ TableInv'
  BY <1>1, FetchKeeps
<1>3. CoverInv'
  BY <1>1 DEF ListInv, CoverInv, QuantitiesCoverRows, qtyFor
<1> QED
  BY <1>2, <1>3 DEF ListInv

(* A read runs, and has what the database holds.                             *)
LEMMA RunsKeep ==
    ASSUME ListInv, NEW f \in fetches, FetchRuns(f)
    PROVE  ListInv'
<1>1. PICK r : r = [f EXCEPT !.tableRows = Answer(f.q), !.count = getProductsCount(f.q)]
  OBVIOUS
<1>2. IsRead(f)
  BY DEF ListInv, ReadsInv
<1>3. PICK a, c : a = Answer(f.q) /\ c = getProductsCount(f.q)
  OBVIOUS
<1>4. IsRead(r) /\ r.q = f.q /\ r.no = f.no /\ r.tableRows = a /\ r.count = c
  <2>1. r = [[q |-> f.q, no |-> f.no, tableRows |-> f.tableRows, count |-> f.count]
                EXCEPT !.tableRows = a, !.count = c]
    BY <1>1, <1>2, <1>3 DEF IsRead
  <2>2. r = [q |-> f.q, no |-> f.no, tableRows |-> a, count |-> c]
    BY <2>1
  <2> QED
    BY <2>2, <1>2 DEF IsRead
<1>5. /\ fetches' = (fetches \ {f}) \cup {r}
      /\ UNCHANGED <<categoryOf, query, tableRows, totalProducts, listError, quantities, balanceLoad,
                     storesRead, newestShown, crossedReads, staleQuery>>
  BY <1>1 DEF FetchRuns
<1>6. ReadsInv'
  <2>1. ReadNumbers' = ReadNumbers
    BY <1>4, <1>5 DEF ReadNumbers
  <2>2. \A g \in fetches' : IsRead(g) /\ g.no # newestShown'
    BY <1>4, <1>5 DEF ListInv, ReadsInv
  <2>3. \A g, h \in fetches' : g.no = h.no => g = h
    BY <1>4, <1>5 DEF ListInv, ReadsInv
  <2> QED
    BY <2>1, <2>2, <2>3, <1>5 DEF ListInv, ReadsInv, IsRead
<1>7. TableInv'
  <2>1. (\A g \in fetches : g.no < newestShown) => \A g \in fetches' : g.no < newestShown'
    BY <1>4, <1>5
  <2>2. \A items, n : IsCurrent(items, n)' <=> IsCurrent(items, n)
    BY <1>5, SameAnswers DEF IsCurrent
  <2>3. ASSUME NewestIsCurrent PROVE NewestIsCurrent'
    <3>1. PICK g \in fetches : /\ \A h \in fetches : h.no <= g.no
                               /\ newestShown < g.no /\ g.q = query
                               /\ g.tableRows = NotRead \/ IsCurrent(g.tableRows, g.count)
      BY <2>3 DEF NewestIsCurrent
    <3>2. \A h \in fetches' : h.no <= g.no
      BY <3>1, <1>4, <1>5
    <3>3. CASE g = f
      <4>1. IsCurrent(r.tableRows, r.count)'
        BY <3>1, <3>3, <1>3, <1>4, <2>2 DEF IsCurrent
      <4> QED
        BY <4>1, <3>1, <3>2, <3>3, <1>4, <1>5 DEF NewestIsCurrent
    <3>4. CASE g # f
      BY <3>1, <3>2, <3>4, <1>5, <2>2 DEF NewestIsCurrent
    <3> QED
      BY <3>3, <3>4
  <2>4. fetches # {} /\ fetches' # {}
    BY <1>5
  <2> QED
    BY <2>1, <2>3, <2>4, <1>5 DEF ListInv, TableInv
<1>8. CoverInv'
  BY <1>5 DEF ListInv, CoverInv, QuantitiesCoverRows, qtyFor
<1> QED
  BY <1>6, <1>7, <1>8 DEF ListInv

(* A read ends, with its rows or an error.                                   *)
LEMMA AnswerKeeps ==
    ASSUME ListInv, NEW f \in fetches, FetchAnswers(f) \/ ReadFails(f)
    PROVE  ListInv'
<1>1. /\ fetches' = fetches \ {f} /\ UNCHANGED <<categoryOf, query, storesRead, staleQuery>>
      /\ crossedReads' = (crossedReads \/ f.no < newestShown)
      /\ newestShown' = IF f.no > newestShown THEN f.no ELSE newestShown
  BY DEF FetchAnswers, ReadFails
<1>2. \/ /\ f.tableRows # NotRead /\ tableRows' = f.tableRows /\ totalProducts' = f.count
         /\ ReloadBalances(DOMAIN f.tableRows) /\ listError' = listError
      \/ /\ UNCHANGED <<tableRows, totalProducts, quantities, balanceLoad>> /\ listError' = TRUE
  BY DEF FetchAnswers, ReadFails
<1>3. f.no \in Nat /\ newestShown \in Nat /\ newestShown' \in Nat /\ f.no <= newestShown' /\ newestShown <= newestShown'
      /\ newestShown' \in {f.no, newestShown} /\ \A g \in fetches : g.no \in Nat
  BY <1>1 DEF ListInv, ReadsInv, IsRead
<1>4. ReadsInv'
  <2>1. \A g \in fetches' : IsRead(g) /\ g.no # newestShown'
    BY <1>1, <1>3 DEF ListInv, ReadsInv
  <2>2. \A g, h \in fetches' : g.no = h.no => g = h
    BY <1>1 DEF ListInv, ReadsInv
  <2>3. PICK n \in ReadNumbers : \A m \in ReadNumbers : m <= n
    BY DEF ListInv, ReadsInv
  <2>4. ReadNumbers \subseteq Nat /\ ReadNumbers' \subseteq ReadNumbers
    BY <1>1, <1>3 DEF ReadNumbers
  <2>5. n \in ReadNumbers'
    <3>1. newestShown' <= n
      BY <2>3, <2>4, <1>3 DEF ReadNumbers
    <3>2. CASE n = newestShown \/ n = f.no
      BY <3>1, <3>2, <1>3 DEF ReadNumbers
    <3>3. CASE \E g \in fetches : g # f /\ n = g.no
      BY <3>3, <1>1 DEF ReadNumbers
    <3> QED
      BY <3>2, <3>3, <2>3 DEF ReadNumbers
  <2>6. crossedReads' \in BOOLEAN /\ staleQuery' \in BOOLEAN /\ listError' \in BOOLEAN
    BY <1>1, <1>2 DEF ListInv, ReadsInv
  <2> QED
    BY <2>1, <2>2, <2>3, <2>4, <2>5, <2>6, <1>3 DEF ReadsInv, IsRead
<1>5. TableInv'
  <2> SUFFICES ASSUME ~crossedReads', ~staleQuery'
               PROVE  IF fetches' = {} THEN listError' \/ IsCurrent(tableRows, totalProducts)'
                      ELSE (\A g \in fetches' : g.no < newestShown') \/ NewestIsCurrent'
    BY DEF TableInv
  <2>1. ~(f.no < newestShown) /\ ~crossedReads /\ ~staleQuery
    BY <1>1
  <2>2. NewestIsCurrent
    BY <2>1 DEF ListInv, TableInv
  <2>3. PICK g \in fetches : /\ \A h \in fetches : h.no <= g.no
                             /\ newestShown < g.no /\ g.q = query
                             /\ g.tableRows = NotRead \/ IsCurrent(g.tableRows, g.count)
    BY <2>2 DEF NewestIsCurrent
  <2>4. \A items, n : IsCurrent(items, n)' <=> IsCurrent(items, n)
    BY <1>1, SameAnswers DEF IsCurrent
  <2>5. CASE g = f
    <3>1. newestShown' = f.no
      BY <2>3, <2>5, <1>1, <1>3
    <3>2. \A h \in fetches' : h.no < newestShown'
      BY <3>1, <2>3, <2>5, <1>1, <1>3 DEF ListInv, ReadsInv
    <3>3. listError' \/ IsCurrent(tableRows', totalProducts')
      BY <2>3, <2>5, <1>2
    <3>4. listError' \/ IsCurrent(tableRows, totalProducts)'
      BY <3>3, <1>1, SameAnswers DEF IsCurrent
    <3> QED
      BY <3>2, <3>4
  <2>6. CASE g # f
    <3>1. g \in fetches' /\ \A h \in fetches' : h.no <= g.no
      BY <2>3, <2>6, <1>1
    <3>2. f.no # g.no /\ f.no <= g.no
      BY <2>3, <2>6 DEF ListInv, ReadsInv
    <3>3. newestShown' < g.no
      BY <3>2, <2>3, <1>3
    <3> QED
      BY <3>1, <3>3, <2>3, <2>4, <1>1 DEF NewestIsCurrent
  <2> QED
    BY <2>5, <2>6
<1>6. CoverInv'
  <2>1. CASE tableRows' = f.tableRows /\ ReloadBalances(DOMAIN f.tableRows)
    BY <2>1, <1>1 DEF CoverInv, QuantitiesCoverRows, qtyFor, ReloadBalances
  <2>2. CASE UNCHANGED <<tableRows, quantities, balanceLoad>>
    BY <2>2, <1>1 DEF ListInv, CoverInv, QuantitiesCoverRows, qtyFor
  <2> QED
    BY <2>1, <2>2, <1>2
<1> QED
  BY <1>4, <1>5, <1>6 DEF ListInv

(* The answer to a submission: the row is shown, and the list read again.    *)
LEMMA ModalKeeps ==
    ASSUME ListInv, ModalAnswers
    PROVE  ListInv'
<1>1. PICK i \in Products : ShowChange(i, modalSubmit.category)
  BY DEF ModalAnswers
<1>2. /\ staleQuery' = (staleQuery \/ modalSubmit.query # query)
      /\ UNCHANGED <<query, storesRead, newestShown, crossedReads>>
  BY DEF ModalAnswers
<1>3. PICK top : top = StartRead(modalSubmit.query, NextNo)
  OBVIOUS
<1>4. /\ fetches' = fetches \cup {top} /\ listError' = FALSE /\ ReloadBalances(DOMAIN tableRows')
  BY <1>1, <1>3 DEF ShowChange
<1>5. NextNo \in Nat
  BY NextFacts DEF ListInv
<1>6. IsRead(top) /\ top.no = NextNo /\ top.q = modalSubmit.query /\ top.tableRows = NotRead
  BY <1>3, <1>5, StartFacts
<1>7. ~staleQuery' => top.q = query'
  BY <1>2, <1>6
<1>8. crossedReads' \in BOOLEAN /\ staleQuery' \in BOOLEAN /\ listError' \in BOOLEAN
  BY <1>2, <1>4 DEF ListInv, ReadsInv
<1>9. \A f \in {top} : IsRead(f) /\ NextNo <= f.no /\ f.no <= top.no
  BY <1>5, <1>6
<1>10. ReadsInv' /\ TableInv'
  <2>1. PICK new : new = {top}
    OBVIOUS
  <2>2. /\ top \in new /\ fetches' = fetches \cup new
        /\ \A f \in new : IsRead(f) /\ NextNo <= f.no /\ f.no <= top.no
        /\ \A f, g \in new : f.no = g.no => f = g
    BY <1>4, <1>9, <2>1
  <2> QED
    BY <1>2, <1>6, <1>7, <1>8, <2>2, BeginsKeep
<1>11. CoverInv'
  BY <1>2, <1>4 DEF CoverInv, QuantitiesCoverRows, qtyFor, ReloadBalances
<1> QED
  BY <1>10, <1>11 DEF ListInv

(* Steps that leave the list, its reads and the database as they are.        *)
LEMMA ListRests ==
    ASSUME ListInv, Unlisted, categoryOf' = categoryOf
    PROVE  ListInv'
<1>1. UNCHANGED <<query, fetches, tableRows, totalProducts, listError, quantities, balanceLoad,
                  storesRead, newestShown, crossedReads, staleQuery>>
  BY DEF Unlisted
<1>2. ReadsInv' /\ CoverInv'
  BY <1>1 DEF ListInv, ReadsInv, ReadNumbers, CoverInv, QuantitiesCoverRows, qtyFor
<1>3. \A items, n : IsCurrent(items, n)' <=> IsCurrent(items, n)
  BY <1>1, SameAnswers DEF IsCurrent
<1>4. NewestIsCurrent => NewestIsCurrent'
  BY <1>1, <1>3 DEF NewestIsCurrent
<1>5. IsCurrent(tableRows, totalProducts) => IsCurrent(tableRows, totalProducts)'
  BY <1>1, SameAnswers DEF IsCurrent
<1>6. TableInv'
  BY <1>1, <1>4, <1>5 DEF ListInv, TableInv
<1> QED
  BY <1>2, <1>6 DEF ListInv

(* The stores arrive, or balances.                                           *)
LEMMA BalancesKeep ==
    ASSUME ListInv, StoresArrive \/ loadBalances
    PROVE  ListInv'
<1>1. UNCHANGED <<categoryOf, query, fetches, tableRows, totalProducts, listError, newestShown, crossedReads,
                  staleQuery>>
  BY DEF StoresArrive, loadBalances
<1>2. ReadsInv'
  BY <1>1 DEF ListInv, ReadsInv, ReadNumbers
<1>3. \A items, n : IsCurrent(items, n)' <=> IsCurrent(items, n)
  BY <1>1, SameAnswers DEF IsCurrent
<1>4. NewestIsCurrent => NewestIsCurrent'
  BY <1>1, <1>3 DEF NewestIsCurrent
<1>5. IsCurrent(tableRows, totalProducts) => IsCurrent(tableRows, totalProducts)'
  BY <1>1, SameAnswers DEF IsCurrent
<1>6. TableInv'
  BY <1>1, <1>4, <1>5 DEF ListInv, TableInv
<1>7. CoverInv'
  <2>1. CASE StoresArrive
    BY <2>1, <1>1 DEF ListInv, CoverInv, QuantitiesCoverRows, qtyFor, StoresArrive
  <2>2. CASE loadBalances
    BY <2>2, <1>1 DEF ListInv, CoverInv, QuantitiesCoverRows, qtyFor, loadBalances
  <2> QED
    BY <2>1, <2>2
<1> QED
  BY <1>2, <1>6, <1>7 DEF ListInv

LEMMA ListStarts == ListInit => ListInv
<1> SUFFICES ASSUME ListInit PROVE ListInv
  OBVIOUS
<1>1. PICK f : f = StartRead(query, 1)
  OBVIOUS
<1>2. IsRead(f) /\ f.no = 1 /\ f.q = query /\ f.tableRows = NotRead
  BY <1>1, StartFacts
<1>3. /\ fetches = {f} /\ newestShown = 0 /\ crossedReads = FALSE /\ staleQuery = FALSE /\ listError = FALSE
      /\ balanceLoad = {} /\ storesRead = FALSE
  BY <1>1 DEF ListInit
<1>4. ReadNumbers = {0, 1}
  BY <1>2, <1>3 DEF ReadNumbers
<1>5. ReadsInv
  <2>1. \E n \in {0, 1} : \A m \in {0, 1} : m <= n
    OBVIOUS
  <2>2. \A g \in fetches : g = f /\ IsRead(g) /\ g.no # newestShown
    BY <1>2, <1>3
  <2> QED
    BY <1>3, <1>4, <2>1, <2>2 DEF ReadsInv
<1>6. TableInv
  BY <1>2, <1>3 DEF TableInv, NewestIsCurrent
<1>7. CoverInv
  BY <1>3 DEF CoverInv, QuantitiesCoverRows
<1> QED
  BY <1>5, <1>6, <1>7 DEF ListInv

LEMMA ProductListKeeps == ListInv /\ [ListNext]_listVars => ListInv'
<1> SUFFICES ASSUME ListInv, [ListNext]_listVars PROVE ListInv'
  OBVIOUS
<1>1. CASE UNCHANGED listVars
  <2>1. Unlisted /\ categoryOf' = categoryOf
    BY <1>1 DEF listVars, Unlisted
  <2> QED
    BY <2>1, ListRests
<1>2. ASSUME \/ handleOpenCreateModal \/ CloseModal \/ handleSubmit \/ SubmitFails \/ SubmitEnds
             \/ \E i \in Products : handleOpenEditModal(i)
             \/ \E c \in Categories : TypeInForm(c)
      PROVE  ListInv'
  <2>1. Unlisted /\ categoryOf' = categoryOf
    BY <1>2 DEF handleOpenCreateModal, CloseModal, handleSubmit, SubmitFails, SubmitEnds, handleOpenEditModal, TypeInForm
  <2> QED
    BY <2>1, ListRests
<1> QED
  BY <1>1, <1>2, RunsKeep, AnswerKeeps, FilterKeeps, ModalKeeps, BalancesKeep DEF ListNext

(* For any products, categories and actions of the user: the table at rest   *)
(* shows what its query asks for, and its rows have their quantities         *)
(* (ProductsView fetchProductsList and the effect of the balances).          *)
THEOREM TableTrue ==
    ListInit /\ [][ListNext]_listVars => [](TableIsCurrent /\ QuantitiesCoverRows)
<1>1. ListInv => TableIsCurrent /\ QuantitiesCoverRows
  BY DEF ListInv, TableInv, IsCurrent, CoverInv, TableIsCurrent
<1> QED
  BY <1>1, ListStarts, ProductListKeeps, PTL

(***************************************************************************)
(* TransactionList                                                         *)
(***************************************************************************)
(* Of finitely many numbered things one has the lowest number.               *)
Lowest(f, K, x) == x \in K /\ \A y \in K : f[x] <= f[y]
LEMMA LowestExists ==
    ASSUME NEW f, NEW K, IsFiniteSet(K), K # {}, \A x \in K : f[x] \in Int
    PROVE  \E x : Lowest(f, K, x)
<1> DEFINE W == {u \in SUBSET K : u # {} /\ ~\E x : Lowest(f, u, x)}
<1> SUFFICES ASSUME W # {} PROVE FALSE
  OBVIOUS
<1>1. \A u \in W : IsFiniteSet(u)
  BY FS_Subset
<1>2. PICK m \in W : \A u \in W : u \subseteq m => u = m
  <2>1. W \subseteq SUBSET K
    OBVIOUS
  <2> HIDE DEF W
  <2>3. HasSmallest(W)
    BY <1>1, <2>1, SmallestSet
  <2> QED
    BY <2>3 DEF HasSmallest
<1>3. PICK c \in m : TRUE
  OBVIOUS
<1>4. PICK r : r = m \ {c}
  OBVIOUS
<1>5. r \in SUBSET K /\ r # m /\ r \subseteq m
  BY <1>3, <1>4
<1>6. r = {} \/ \E x : Lowest(f, r, x)
  BY <1>2, <1>5
<1>7. CASE r = {}
  <2>1. m = {c} /\ f[c] \in Int
    BY <1>3, <1>4, <1>5, <1>7
  <2>2. Lowest(f, m, c)
    BY <2>1 DEF Lowest
  <2> QED
    BY <2>2
<1>8. ASSUME NEW x, Lowest(f, r, x) PROVE FALSE
  <2>1. x \in m /\ f[x] \in Int /\ f[c] \in Int /\ \A y \in m : f[y] \in Int
    BY <1>4, <1>5, <1>8 DEF Lowest
  <2>2. \A y \in m : y = c \/ f[x] <= f[y]
    BY <1>4, <1>8 DEF Lowest
  <2>3. Lowest(f, m, x) \/ Lowest(f, m, c)
    BY <1>3, <2>1, <2>2 DEF Lowest
  <2> QED
    BY <2>3
<1> QED
  BY <1>6, <1>7, <1>8

(* The places of K in an order that puts the newest first.                   *)
IsOrder(p, f, K) ==
    /\ p \in LedgerMaps!Bijection(1 .. Cardinality(K), K)
    /\ \A i, j \in 1 .. Cardinality(K) : i < j => f[p[i]] >= f[p[j]]
LEMMA OrderMeans ==
    ASSUME NEW p, NEW f, NEW K, NEW n, n = Cardinality(K)
    PROVE  IsOrder(p, f, K) <=>
               /\ p \in [1 .. n -> K]
               /\ \A i, j \in 1 .. n : p[i] = p[j] => i = j
               /\ \A x \in K : \E i \in 1 .. n : p[i] = x
               /\ \A i, j \in 1 .. n : i < j => f[p[i]] >= f[p[j]]
  BY DEF IsOrder, LedgerMaps!Bijection, LedgerMaps!Injection, LedgerMaps!Surjection, LedgerMaps!IsInjective

LEMMA OrderExists ==
    ASSUME NEW f, NEW K, IsFiniteSet(K), \A x \in K : f[x] \in Int
    PROVE  \E p : IsOrder(p, f, K)
<1> DEFINE W == {u \in SUBSET K : ~\E p : IsOrder(p, f, u)}
<1> SUFFICES ASSUME W # {} PROVE FALSE
  OBVIOUS
<1>1. \A u \in SUBSET K : IsFiniteSet(u)
  BY FS_Subset
<1>2. PICK m \in W : \A u \in W : u \subseteq m => u = m
  <2>1. W \subseteq SUBSET K
    OBVIOUS
  <2> HIDE DEF W
  <2>2. \A u \in W : IsFiniteSet(u)
    BY <1>1, <2>1
  <2>3. HasSmallest(W)
    BY <2>1, <2>2, SmallestSet
  <2> QED
    BY <2>3 DEF HasSmallest
<1>3. m # {}
  <2> SUFFICES ASSUME m = {} PROVE FALSE
    OBVIOUS
  <2>1. Cardinality(m) = 0
    BY FS_EmptySet
  <2>2. PICK p : p = [i \in 1 .. 0 |-> 0]
    OBVIOUS
  <2>3. p \in [1 .. 0 -> m]
    BY <2>2
  <2>4. IsOrder(p, f, m)
    BY <2>1, <2>3, OrderMeans
  <2> QED
    BY <2>4
<1>4. m \in SUBSET K /\ IsFiniteSet(m) /\ \A y \in m : f[y] \in Int
  BY <1>1
<1>5. PICK x : Lowest(f, m, x)
  BY <1>3, <1>4, LowestExists
<1>6. PICK r : r = m \ {x}
  OBVIOUS
<1>7. x \in m /\ r \in SUBSET K /\ r # m /\ r \subseteq m /\ x \notin r
  BY <1>5, <1>6 DEF Lowest
<1>8. PICK p : IsOrder(p, f, r)
  BY <1>2, <1>7
<1>9. PICK n : n = Cardinality(r)
  OBVIOUS
<1>10. n \in Nat /\ Cardinality(m) = n + 1
  <2>1. IsFiniteSet(r) /\ m = r \cup {x}
    BY <1>1, <1>6, <1>7
  <2>2. Cardinality(r \cup {x}) = Cardinality(r) + 1
    BY <1>7, <2>1, FS_AddElement
  <2> QED
    BY <1>9, <2>1, <2>2, FS_CardinalityType
<1>11. /\ p \in [1 .. n -> r]
       /\ \A i, j \in 1 .. n : p[i] = p[j] => i = j
       /\ \A y \in r : \E i \in 1 .. n : p[i] = y
       /\ \A i, j \in 1 .. n : i < j => f[p[i]] >= f[p[j]]
  BY <1>8, <1>9, OrderMeans
<1>12. PICK q : q = [i \in 1 .. n + 1 |-> IF i = n + 1 THEN x ELSE p[i]]
  OBVIOUS
<1>13. /\ q[n + 1] = x
       /\ \A i \in 1 .. n : q[i] = p[i] /\ p[i] \in r
       /\ \A i \in 1 .. n + 1 : i = n + 1 \/ i \in 1 .. n
       /\ \A i \in 1 .. n : i \in 1 .. n + 1 /\ i < n + 1
       /\ n + 1 \in 1 .. n + 1
  BY <1>10, <1>11, <1>12
<1>14. q \in [1 .. n + 1 -> m]
  BY <1>6, <1>7, <1>12, <1>13
<1>15. \A i, j \in 1 .. n + 1 : q[i] = q[j] => i = j
  BY <1>7, <1>11, <1>13
<1>16. \A y \in m : \E i \in 1 .. n + 1 : q[i] = y
  BY <1>6, <1>11, <1>13
<1>17. \A i, j \in 1 .. n + 1 : i < j => f[q[i]] >= f[q[j]]
  <2> SUFFICES ASSUME NEW i \in 1 .. n + 1, NEW j \in 1 .. n + 1, i < j PROVE f[q[i]] >= f[q[j]]
    OBVIOUS
  <2>1. i \in 1 .. n
    BY <1>10
  <2>2. CASE j = n + 1
    BY <1>4, <1>5, <1>7, <1>13, <2>1, <2>2 DEF Lowest
  <2>3. CASE j \in 1 .. n
    BY <1>11, <1>13, <2>1, <2>3
  <2> QED
    BY <1>13, <2>2, <2>3
<1>18. IsOrder(q, f, m)
  BY <1>10, <1>14, <1>15, <1>16, <1>17, OrderMeans
<1> QED
  BY <1>18

(* The list of the places of K.                                              *)
IsList(q, f, K) ==
    \E n \in Nat :
        /\ q \in Seq(Int) /\ Len(q) = n
        /\ \A i \in 1 .. n : \E x \in K : q[i] = f[x]
        /\ \A x \in K : \E i \in 1 .. n : q[i] = f[x]
        /\ (\A x, y \in K : f[x] = f[y] => x = y) => \A i, j \in 1 .. n : i < j => q[i] > q[j]
LEMMA NewestFirstLists ==
    ASSUME NEW f, NEW K, IsFiniteSet(K), \A x \in K : f[x] \in Int
    PROVE  IsList(NewestFirst(f, K), f, K)
<1>1. \E p : IsOrder(p, f, K)
  BY OrderExists
<1>2. PICK n : n = Cardinality(K)
  OBVIOUS
<1>3. n \in Nat
  BY <1>2, FS_CardinalityType
<1>4. PICK p : p = TimeOrder(f, K)
  OBVIOUS
<1>5. IsOrder(p, f, K)
  BY <1>1, <1>4, Zenon DEF IsOrder, TimeOrder
<1>6. PICK q : q = NewestFirst(f, K)
  OBVIOUS
<1>7. q = [i \in 1 .. Cardinality(K) |-> f[p[i]]]
  BY <1>4, <1>6 DEF NewestFirst
<1>8. q = [i \in 1 .. n |-> f[p[i]]]
  BY <1>2, <1>7
<1>9. /\ p \in [1 .. n -> K]
      /\ \A i, j \in 1 .. n : p[i] = p[j] => i = j
      /\ \A x \in K : \E i \in 1 .. n : p[i] = x
      /\ \A i, j \in 1 .. n : i < j => f[p[i]] >= f[p[j]]
  BY <1>2, <1>5, OrderMeans
<1>10. \A i \in 1 .. n : p[i] \in K /\ q[i] = f[p[i]] /\ q[i] \in Int
  BY <1>8, <1>9
<1>11. q \in Seq(Int) /\ Len(q) = n
  BY <1>3, <1>8, <1>10
<1>12. \A i \in 1 .. n : \E x \in K : q[i] = f[x]
  BY <1>10
<1>13. \A x \in K : \E i \in 1 .. n : q[i] = f[x]
  BY <1>9, <1>10
<1>14. ASSUME \A x, y \in K : f[x] = f[y] => x = y, NEW i \in 1 .. n, NEW j \in 1 .. n, i < j
       PROVE  q[i] > q[j]
  <2>1. p[i] # p[j] /\ f[p[i]] >= f[p[j]]
    BY <1>3, <1>9, <1>14
  <2>2. f[p[i]] # f[p[j]]
    BY <1>10, <1>14, <2>1
  <2> QED
    BY <1>10, <2>1, <2>2
<1>15. (\A x, y \in K : f[x] = f[y] => x = y) => \A i, j \in 1 .. n : i < j => q[i] > q[j]
  BY <1>14
<1>16. IsList(q, f, K)
  BY <1>3, <1>11, <1>12, <1>13, <1>15 DEF IsList
<1> QED
  BY <1>6, <1>16
-----------------------------------------------------------------------------
(* A list of movements without repetition, newest first; and what is on it.  *)
Descends(q) == q \in Seq(Movements) /\ \A i, j \in 1 .. Len(q) : i < j => q[i] > q[j]
On(t, q) == \E i \in 1 .. Len(q) : q[i] = t

LEMMA MovementsFinite == \A S : S \subseteq Movements => IsFiniteSet(S)
<1>1. IsFiniteSet(1 .. MaxLedger)
  BY LedgerAssumption, FS_Interval
<1> QED
  BY <1>1, FS_Subset DEF Movements

LEMMA MovementsInt == \A t \in Movements : t \in Int
  BY LedgerAssumption DEF Movements

LEMMA ListOfFacts ==
    ASSUME NEW S, S \subseteq Movements
    PROVE  Descends(ListOf(S)) /\ \A t : On(t, ListOf(S)) <=> t \in S
<1>1. PICK f : f = [t \in S |-> t]
  OBVIOUS
<1>2. PICK q : q = NewestFirst(f, S)
  OBVIOUS
<1>3. IsFiniteSet(S) /\ (\A t \in S : f[t] = t) /\ (\A t \in S : f[t] \in Int)
  <2>1. \A t \in S : f[t] = t
    BY <1>1
  <2>2. \A t \in S : t \in Int
    BY MovementsInt
  <2> QED
    BY <2>1, <2>2, MovementsFinite
<1>4. IsList(q, f, S)
  BY <1>2, <1>3, NewestFirstLists
<1>5. PICK n \in Nat :
        /\ q \in Seq(Int) /\ Len(q) = n
        /\ \A i \in 1 .. n : \E x \in S : q[i] = f[x]
        /\ \A x \in S : \E i \in 1 .. n : q[i] = f[x]
        /\ (\A x, y \in S : f[x] = f[y] => x = y) => \A i, j \in 1 .. n : i < j => q[i] > q[j]
  BY <1>4 DEF IsList
<1>6. \A i, j \in 1 .. n : i < j => q[i] > q[j]
  <2>1. \A x, y \in S : f[x] = f[y] => x = y
    BY <1>3
  <2> QED
    BY <1>5, <2>1
<1>7. \A i \in 1 .. n : q[i] \in S
  BY <1>3, <1>5
<1>8. \A t \in S : \E i \in 1 .. n : q[i] = t
  <2> SUFFICES ASSUME NEW t \in S PROVE \E i \in 1 .. n : q[i] = t
    OBVIOUS
  <2>1. f[t] = t
    BY <1>3
  <2>2. PICK i \in 1 .. n : q[i] = f[t]
    BY <1>5
  <2> QED
    BY <2>1, <2>2
<1>9. q \in Seq(Movements)
  BY <1>5, <1>7, ElementOfSeq, IsASeq, LenProperties
<1>10. Descends(q) /\ \A t : On(t, q) <=> t \in S
  BY <1>5, <1>6, <1>7, <1>8, <1>9 DEF Descends, On
<1>11. ListOf(S) = q
  BY <1>1, <1>2, Zenon DEF ListOf
<1> QED
  BY <1>10, <1>11

(* A page has one movement at most, of the store.                            *)
LEMMA PageFacts ==
    ASSUME lgServer \subseteq Movements, NEW s, NEW o \in Nat
    PROVE  /\ Descends(ServerPage(s, o)) /\ Len(ServerPage(s, o)) <= 1
           /\ \A t : On(t, ServerPage(s, o)) => t \in lgServer /\ storeOf[t] = s
<1>1. PICK S : S = {t \in lgServer : storeOf[t] = s}
  OBVIOUS
<1>2. PICK all : all = ListOf(S)
  OBVIOUS
<1>3. S \subseteq Movements
  BY <1>1
<1>4. Descends(all) /\ \A t : On(t, all) => t \in S
  BY <1>2, <1>3, ListOfFacts
<1>5. PICK n : n = Len(all)
  OBVIOUS
<1>6. all \in Seq(Movements) /\ n \in Nat
  BY <1>4, <1>5 DEF Descends
<1>7. PICK e : e = IF o + LIMIT < n THEN o + LIMIT ELSE n
  OBVIOUS
<1>8. PICK page : page = SubSeq(all, o + 1, e)
  OBVIOUS
<1>9. ServerPage(s, o) = page
  BY <1>1, <1>2, <1>5, <1>7, <1>8 DEF ServerPage
<1>10. e \in Nat /\ e <= n /\ e <= o + 1
  BY <1>6, <1>7 DEF LIMIT
<1>11. /\ page \in Seq(Movements)
       /\ Len(page) = IF o + 1 <= e THEN e - (o + 1) + 1 ELSE 0
       /\ \A i \in 1 .. Len(page) : page[i] = all[o + 1 + i - 1]
  <2>1. \A i \in o + 1 .. e : all[i] \in Movements
    BY <1>5, <1>6, <1>10
  <2> QED
    BY <1>5, <1>6, <1>8, <1>10, <2>1
<1>12. Len(page) \in Nat /\ Len(page) <= 1
  BY <1>10, <1>11
<1>13. \A i \in 1 .. Len(page) : i = 1 /\ page[i] = all[o + 1] /\ o + 1 \in 1 .. n
  BY <1>10, <1>11, <1>12
<1>14. Descends(page)
  BY <1>11, <1>12 DEF Descends
<1>15. \A t : On(t, page) => t \in S
  BY <1>4, <1>5, <1>13 DEF On
<1> QED
  BY <1>1, <1>9, <1>12, <1>14, <1>15

(* The page and what only the device has: everything once.                   *)
LEMMA MergedFacts ==
    ASSUME NEW page, NEW loc, Descends(page), Descends(loc)
    PROVE  /\ Descends(Merged(page, loc))
           /\ \A t : On(t, Merged(page, loc)) <=> On(t, page) \/ On(t, loc)
<1>1. PICK both : both = page \o loc
  OBVIOUS
<1>2. PICK K : K = {i \in DOMAIN both : i <= Len(page) \/ ~OnPage(page, both[i])}
  OBVIOUS
<1>3. PICK q : q = NewestFirst(both, K)
  OBVIOUS
<1>4. Merged(page, loc) = q
  BY <1>1, <1>2, <1>3, Zenon DEF Merged
<1>5. PICK k \in Nat, n \in Nat : k = Len(page) /\ n = Len(loc)
  BY DEF Descends
<1>6. /\ page \in Seq(Movements) /\ loc \in Seq(Movements)
      /\ \A i, j \in 1 .. k : i < j => page[i] > page[j]
      /\ \A i, j \in 1 .. n : i < j => loc[i] > loc[j]
  BY <1>5 DEF Descends
<1>7. /\ both \in Seq(Movements) /\ Len(both) = k + n /\ DOMAIN both = 1 .. k + n
      /\ \A i \in 1 .. k + n : both[i] = IF i <= k THEN page[i] ELSE loc[i - k]
  BY <1>1, <1>5, <1>6
<1>8. \A i \in 1 .. k + n : both[i] \in Movements /\ both[i] \in Int
  <2>1. \A i \in 1 .. k + n : both[i] \in Movements
    BY <1>7
  <2> QED
    BY <2>1, MovementsInt
<1>9. K \subseteq 1 .. k + n /\ IsFiniteSet(K) /\ \A i \in K : both[i] \in Int
  <2>1. IsFiniteSet(1 .. k + n)
    BY FS_Interval
  <2> QED
    BY <1>2, <1>7, <1>8, <2>1, FS_Subset
<1>10. \A i \in 1 .. k + n : i \in K <=> i <= k \/ ~On(both[i], page)
  <2>1. \A t : OnPage(page, t) <=> On(t, page)
    BY <1>5, <1>6 DEF OnPage, On
  <2> QED
    BY <1>2, <1>5, <1>7, <2>1
<1>11. IsList(q, both, K)
  BY <1>3, <1>9, NewestFirstLists
<1>12. PICK m \in Nat :
        /\ q \in Seq(Int) /\ Len(q) = m
        /\ \A i \in 1 .. m : \E x \in K : q[i] = both[x]
        /\ \A x \in K : \E i \in 1 .. m : q[i] = both[x]
        /\ (\A x, y \in K : both[x] = both[y] => x = y) => \A i, j \in 1 .. m : i < j => q[i] > q[j]
  BY <1>11 DEF IsList
<1>13. \A i, j \in 1 .. k : page[i] = page[j] => i = j
  <2> SUFFICES ASSUME NEW i \in 1 .. k, NEW j \in 1 .. k, page[i] = page[j], i # j PROVE FALSE
    OBVIOUS
  <2>1. page[i] \in Movements /\ page[j] \in Movements
    BY <1>5, <1>6
  <2>2. page[i] \in Int /\ page[j] \in Int
    BY <2>1, MovementsInt
  <2> QED
    BY <1>6, <2>2
<1>14. \A i, j \in 1 .. n : loc[i] = loc[j] => i = j
  <2> SUFFICES ASSUME NEW i \in 1 .. n, NEW j \in 1 .. n, loc[i] = loc[j], i # j PROVE FALSE
    OBVIOUS
  <2>1. loc[i] \in Movements /\ loc[j] \in Movements
    BY <1>5, <1>6
  <2>2. loc[i] \in Int /\ loc[j] \in Int
    BY <2>1, MovementsInt
  <2> QED
    BY <1>6, <2>2
<1>15. \A x, y \in K : both[x] = both[y] => x = y
  <2> SUFFICES ASSUME NEW x \in K, NEW y \in K, both[x] = both[y] PROVE x = y
    OBVIOUS
  <2>1. x \in 1 .. k + n /\ y \in 1 .. k + n
    BY <1>9
  <2>2. CASE x <= k /\ y <= k
    BY <1>7, <1>13, <2>1, <2>2
  <2>3. CASE ~(x <= k) /\ ~(y <= k)
    <3>1. x - k \in 1 .. n /\ y - k \in 1 .. n /\ loc[x - k] = loc[y - k]
      BY <1>7, <2>1, <2>3
    <3>2. x - k = y - k
      BY <1>14, <3>1
    <3> QED
      BY <2>1, <3>2
  <2>4. CASE x <= k /\ ~(y <= k)
    <3>1. On(both[x], page)
      BY <1>5, <1>7, <2>1, <2>4 DEF On
    <3> QED
      BY <1>10, <2>1, <2>4, <3>1
  <2>5. CASE y <= k /\ ~(x <= k)
    <3>1. On(both[y], page)
      BY <1>5, <1>7, <2>1, <2>5 DEF On
    <3> QED
      BY <1>10, <2>1, <2>5, <3>1
  <2> QED
    BY <2>2, <2>3, <2>4, <2>5
<1>16. \A i, j \in 1 .. m : i < j => q[i] > q[j]
  BY <1>12, <1>15
<1>17. \A i \in 1 .. m : q[i] \in Movements
  BY <1>8, <1>9, <1>12
<1>18. q \in Seq(Movements)
  BY <1>12, <1>17
<1>19. Descends(q)
  BY <1>12, <1>16, <1>18 DEF Descends
<1>20. \A i \in 1 .. k + n : On(both[i], page) \/ On(both[i], loc)
  <2> SUFFICES ASSUME NEW i \in 1 .. k + n PROVE On(both[i], page) \/ On(both[i], loc)
    OBVIOUS
  <2>1. CASE i <= k
    BY <1>5, <1>7, <2>1 DEF On
  <2>2. CASE ~(i <= k)
    <3>1. i - k \in 1 .. n /\ both[i] = loc[i - k]
      BY <1>7, <2>2
    <3> QED
      BY <1>5, <3>1 DEF On
  <2> QED
    BY <2>1, <2>2
<1>21. ASSUME NEW t, On(t, q) PROVE On(t, page) \/ On(t, loc)
  <2>1. PICK i \in 1 .. m : q[i] = t
    BY <1>12, <1>21 DEF On
  <2>2. PICK x \in K : q[i] = both[x]
    BY <1>12, <2>1
  <2>3. x \in 1 .. k + n
    BY <1>9
  <2>4. On(both[x], page) \/ On(both[x], loc)
    BY <1>20, <2>3
  <2> QED
    BY <2>1, <2>2, <2>4
<1>22. ASSUME NEW t, On(t, page) PROVE On(t, q)
  <2>1. PICK i \in 1 .. k : page[i] = t
    BY <1>5, <1>22 DEF On
  <2>2. i \in 1 .. k + n /\ i <= k /\ both[i] = t
    BY <1>7, <2>1
  <2>3. i \in K
    BY <1>10, <2>2
  <2> QED
    BY <1>12, <2>2, <2>3 DEF On
<1>23. ASSUME NEW t, On(t, loc) PROVE On(t, q)
  <2>1. PICK i \in 1 .. n : loc[i] = t
    BY <1>5, <1>23 DEF On
  <2>2. i + k \in 1 .. k + n /\ both[i + k] = t
    BY <1>7, <2>1
  <2>3. CASE On(t, page)
    BY <1>22, <2>3
  <2>4. CASE ~On(t, page)
    <3>1. i + k \in K
      BY <1>10, <2>2, <2>4
    <3> QED
      BY <1>12, <2>2, <3>1 DEF On
  <2> QED
    BY <2>3, <2>4
<1>24. \A t : On(t, q) <=> On(t, page) \/ On(t, loc)
  BY <1>21, <1>22, <1>23
<1> QED
  BY <1>4, <1>19, <1>24
-----------------------------------------------------------------------------
(* Whatever the device recorded for the store is on the list; the list is of *)
(* the store; and one movement at most is there because the server has it.   *)
HasOwn(q, s) == \A t \in lgLocal : storeOf[t] = s => On(t, q)
IsOf(q, s) == \A t : On(t, q) => storeOf[t] = s
IsLocal(q) == \A t : On(t, q) => t \in lgLocal
OneForeign(q) == \A t, u : On(t, q) /\ On(u, q) /\ t # u => t \in lgLocal \/ u \in lgLocal

LedgerSteps == {"local", "server", "fallback"}
LedgerLoads == [no : Nat, s : LedgerStores, o : Nat, step : LedgerSteps, loc : Seq(Movements)]
LedgerTypes ==
    /\ storeOf \in [Movements -> LedgerStores] /\ lgLocal \subseteq Movements /\ lgServer \subseteq Movements
    /\ lgActive \in LedgerStores /\ lgOffset \in Nat /\ lgLoading \in BOOLEAN /\ lgOffline \in BOOLEAN
    /\ lgAnswered \in Nat /\ lgCrossed \in BOOLEAN /\ lgBlind \in BOOLEAN /\ lgAstray \in BOOLEAN
    /\ lgLoads \subseteq LedgerLoads /\ IsFiniteSet(lgLoads)
    /\ Descends(lgShown) /\ (\A c \in lgCache : Descends(c)) /\ (lgCache = {} \/ \E c : lgCache = {c})

(* What a load has read of the device.                                       *)
ReadInv ==
    \A l \in lgLoads : /\ Descends(l.loc) /\ IsOf(l.loc, l.s) /\ IsLocal(l.loc)
                       /\ l.step # "local" /\ ~lgBlind => HasOwn(l.loc, l.s)

(* The loads have numbers of their own.                                      *)
OrderInv ==
    /\ \A l \in lgLoads : l.no # lgAnswered
    /\ \A l, m \in lgLoads : l.no = m.no => l = m

(* The newest load, if no newer one has ended, is for what is shown.         *)
IsNewest(l) == lgAnswered < l.no /\ \A m \in lgLoads : m.no <= l.no
NewestInv ==
    \A l \in lgLoads : IsNewest(l) =>
        l.s = lgActive /\ l.o = lgOffset /\ (l.step = "fallback" => lgOffline)

(* What is shown once the loads have ended in their order.                   *)
RestInv ==
    LedgerRests =>
        /\ ~lgBlind => HasOwn(lgShown, lgActive)
        /\ ~lgOffline => IsOf(lgShown, lgActive) /\ OneForeign(lgShown)

(* There is a second page only where the device has movements of the store.  *)
PagerInv == lgOffset # 0 /\ ~lgAstray => \E t \in lgLocal : storeOf[t] = lgActive

LedgerInv == LedgerTypes /\ ReadInv /\ OrderInv /\ NewestInv /\ RestInv /\ PagerInv

LEMMA LedgerMeans == LedgerInv => LedgerTypeOK /\ LedgerIsTrue
<1> SUFFICES ASSUME LedgerInv PROVE LedgerTypeOK /\ LedgerIsTrue
  OBVIOUS
<1>1. /\ lgShown \in Seq(Movements) /\ DOMAIN lgShown = 1 .. Len(lgShown) /\ Len(lgShown) \in Nat
      /\ \A i, j \in 1 .. Len(lgShown) : i < j => lgShown[i] > lgShown[j]
  BY DEF LedgerInv, LedgerTypes, Descends
<1>2. Cardinality(lgCache) <= 1
  <2>1. lgCache = {} \/ \E c : lgCache = {c}
    BY DEF LedgerInv, LedgerTypes
  <2>2. CASE lgCache = {}
    BY <2>2, FS_EmptySet
  <2>3. ASSUME NEW c, lgCache = {c} PROVE Cardinality(lgCache) <= 1
    <3>1. Cardinality({c}) = 1
      BY FS_Singleton
    <3> QED
      BY <2>3, <3>1
  <2> QED
    BY <2>1, <2>2, <2>3
<1>3. \A i \in DOMAIN lgShown : lgShown[i] \in Movements
  BY <1>1
<1>4. \A l \in lgLoads : l.step \in {"local", "server", "fallback"} /\ l.s \in LedgerStores
  BY DEF LedgerInv, LedgerTypes, LedgerLoads, LedgerSteps
<1>5. LedgerTypeOK
  BY <1>2, <1>3, <1>4 DEF LedgerInv, LedgerTypes, LedgerTypeOK
<1>6. ListedOnce
  BY <1>1 DEF ListedOnce
<1>7. \A t : On(t, lgShown) <=> t \in {lgShown[i] : i \in DOMAIN lgShown}
  BY <1>1 DEF On
<1>8. RecordedIsListed
  BY <1>7 DEF LedgerInv, RestInv, RecordedIsListed, HasOwn
<1>9. LedgerIsOfStore
  BY <1>7 DEF LedgerInv, RestInv, LedgerIsOfStore, IsOf
<1>10. PagerStrandsNobody
  <2> SUFFICES ASSUME LedgerRests, ~lgBlind, ~lgAstray, lgShown = <<>>, lgOffset # 0
               PROVE  FALSE
    BY DEF PagerStrandsNobody
  <2>1. PICK t \in lgLocal : storeOf[t] = lgActive
    BY DEF LedgerInv, PagerInv
  <2>2. On(t, lgShown)
    BY <2>1 DEF LedgerInv, RestInv, HasOwn
  <2> QED
    BY <2>2 DEF On
<1> QED
  BY <1>5, <1>6, <1>8, <1>9, <1>10 DEF LedgerIsTrue

LEMMA LedgerStarts == LedgerInit => LedgerInv
<1> SUFFICES ASSUME LedgerInit PROVE LedgerInv
  OBVIOUS
<1>1. PICK l : l = [no |-> 1, s |-> lgActive, o |-> 0, step |-> "local", loc |-> <<>>]
  OBVIOUS
<1>2. lgLoads = {l}
  BY <1>1, Zenon DEF LedgerInit
<1>3. l.no = 1 /\ l.s = lgActive /\ l.o = 0 /\ l.step = "local" /\ l.loc = <<>>
  BY <1>1
<1>4. lgActive \in LedgerStores /\ lgOffset = 0 /\ lgAnswered = 0
  BY Zenon DEF LedgerInit
<1>5. l \in LedgerLoads
  BY <1>1, <1>4 DEF LedgerLoads, LedgerSteps
<1>6. \A t : ~On(t, <<>>)
  BY DEF On
<1>7. Descends(<<>>)
  BY DEF Descends
<1>8. IsFiniteSet(lgLoads)
  BY <1>2, FS_Singleton
<1>9. LedgerTypes
  <2>1. storeOf \in [Movements -> LedgerStores] /\ lgLocal \subseteq Movements /\ lgServer \subseteq Movements
    BY DEF LedgerInit
  <2>2. lgLoads \subseteq LedgerLoads /\ lgOffset \in Nat /\ lgAnswered \in Nat
    BY <1>2, <1>4, <1>5
  <2>3. lgShown = <<>> /\ lgCache = {}
    BY DEF LedgerInit
  <2>4. /\ lgLoading \in BOOLEAN /\ lgOffline \in BOOLEAN
        /\ lgCrossed \in BOOLEAN /\ lgBlind \in BOOLEAN /\ lgAstray \in BOOLEAN
    BY Zenon DEF LedgerInit
  <2> QED
    BY <1>4, <1>7, <1>8, <2>1, <2>2, <2>3, <2>4, Zenon DEF LedgerTypes
<1>10. ReadInv
  BY <1>2, <1>3, <1>6, <1>7 DEF ReadInv, IsOf, IsLocal
<1>11. OrderInv /\ NewestInv
  BY <1>2, <1>3, <1>4 DEF OrderInv, NewestInv
<1>12. RestInv /\ PagerInv
  BY <1>2, <1>4 DEF RestInv, LedgerRests, PagerInv
<1> QED
  BY <1>9, <1>10, <1>11, <1>12 DEF LedgerInv

(* The number of a new load is above all others.                             *)
LEMMA NextNoFacts ==
    ASSUME lgLoads \subseteq LedgerLoads, IsFiniteSet(lgLoads), lgAnswered \in Nat
    PROVE  /\ NextLedgerNo \in Nat /\ lgAnswered < NextLedgerNo
           /\ \A l \in lgLoads : l.no < NextLedgerNo
<1>1. PICK S : S = {l.no : l \in lgLoads} \cup {lgAnswered}
  OBVIOUS
<1>2. S # {} /\ (\A n \in S : n \in Nat) /\ lgAnswered \in S /\ \A l \in lgLoads : l.no \in S
  BY <1>1 DEF LedgerLoads
<1>3. IsFiniteSet(S)
  <2>1. PICK f : f = [l \in lgLoads |-> l.no]
    OBVIOUS
  <2>2. PICK T : T = {f[l] : l \in lgLoads}
    OBVIOUS
  <2>3. f \in Surjection(lgLoads, T)
    BY <2>1, <2>2 DEF Surjection
  <2>4. IsFiniteSet(T)
    BY <2>3, FS_Surjection
  <2>5. S = T \cup {lgAnswered}
    BY <1>1, <2>1, <2>2
  <2> QED
    BY <2>4, <2>5, FS_AddElement
<1>4. PICK f : f = [n \in S |-> -n]
  OBVIOUS
<1>5. \A n \in S : f[n] = -n /\ f[n] \in Int
  BY <1>2, <1>4
<1>6. PICK x : Lowest(f, S, x)
  BY <1>2, <1>3, <1>5, LowestExists
<1>7. x \in S /\ \A y \in S : x >= y
  BY <1>2, <1>5, <1>6 DEF Lowest
<1>8. PICK n : n = LedgerSets!Max(S)
  OBVIOUS
<1>9. n \in S /\ \A y \in S : n >= y
  BY <1>7, <1>8, Zenon DEF LedgerSets!Max
<1>10. NextLedgerNo = n + 1
  BY <1>1, <1>8, Zenon DEF NextLedgerNo
<1>11. n \in Nat /\ lgAnswered \in Nat /\ lgAnswered <= n
  BY <1>2, <1>9
<1>12. \A l \in lgLoads : l.no \in Nat /\ l.no <= n
  BY <1>2, <1>9
<1>13. NextLedgerNo \in Nat /\ lgAnswered < NextLedgerNo
  BY <1>10, <1>11
<1>14. \A l \in lgLoads : l.no < NextLedgerNo
  BY <1>10, <1>11, <1>12
<1> QED
  BY <1>13, <1>14
(* A load starts and becomes the newest.                                     *)
LEMMA StartKeeps ==
    ASSUME LedgerInv, NEW s \in LedgerStores, NEW o \in Nat, StartLedgerLoad(s, o),
           lgActive' = s, lgOffset' = o, lgAstray' \in BOOLEAN, PagerInv'
    PROVE  LedgerInv'
<1>1. PICK l : l = [no |-> NextLedgerNo, s |-> s, o |-> o, step |-> "local", loc |-> <<>>]
  OBVIOUS
<1>2. /\ lgLoads' = lgLoads \cup {l} /\ lgLoading' = TRUE /\ lgOffline' = FALSE
      /\ lgCrossed' = (lgCrossed /\ lgLoads # {}) /\ lgBlind' = (lgBlind /\ lgLoads # {})
      /\ UNCHANGED <<storeOf, lgLocal, lgServer, lgShown, lgCache, lgArrivals, lgAnswered>>
  BY <1>1, Zenon DEF StartLedgerLoad
<1>3. /\ lgLoads \subseteq LedgerLoads /\ IsFiniteSet(lgLoads) /\ lgAnswered \in Nat
      /\ lgBlind \in BOOLEAN /\ lgCrossed \in BOOLEAN
  BY DEF LedgerInv, LedgerTypes
<1>4. /\ NextLedgerNo \in Nat /\ lgAnswered < NextLedgerNo
      /\ \A k \in lgLoads : k.no < NextLedgerNo
  BY <1>3, NextNoFacts
<1>5. /\ l.no \in Nat /\ lgAnswered < l.no /\ (\A k \in lgLoads : k.no < l.no /\ k.no \in Nat)
      /\ l.s = s /\ l.o = o /\ l.step = "local" /\ l.loc = <<>>
  <2>1. l.no = NextLedgerNo /\ l.s = s /\ l.o = o /\ l.step = "local" /\ l.loc = <<>>
    BY <1>1
  <2>2. \A k \in lgLoads : k.no \in Nat
    BY <1>3 DEF LedgerLoads
  <2> QED
    BY <1>4, <2>1, <2>2
<1>6. l \in LedgerLoads
  BY <1>1, <1>4 DEF LedgerLoads, LedgerSteps
<1>7. \A t : ~On(t, <<>>)
  BY DEF On
<1>8. Descends(<<>>)
  BY DEF Descends
<1>9. LedgerTypes'
  <2>1. IsFiniteSet(lgLoads') /\ lgLoads' \subseteq LedgerLoads
    BY <1>2, <1>3, <1>6, FS_AddElement
  <2>2. lgCrossed' \in BOOLEAN /\ lgBlind' \in BOOLEAN /\ lgLoading' \in BOOLEAN /\ lgOffline' \in BOOLEAN
    BY <1>2, Zenon
  <2> QED
    BY <1>2, <2>1, <2>2 DEF LedgerInv, LedgerTypes
<1>10. lgLoads # {} => lgBlind' = lgBlind
  BY <1>2, <1>3
<1>11. ReadInv'
  <2>1. ASSUME NEW k \in lgLoads
        PROVE  /\ Descends(k.loc) /\ IsOf(k.loc, k.s)' /\ IsLocal(k.loc)'
               /\ k.step # "local" /\ ~lgBlind' => HasOwn(k.loc, k.s)'
    BY <1>2, <1>10 DEF LedgerInv, ReadInv, IsOf, IsLocal, HasOwn
  <2>2. Descends(l.loc) /\ IsOf(l.loc, l.s)' /\ IsLocal(l.loc)' /\ l.step = "local"
    BY <1>5, <1>7, <1>8 DEF IsOf, IsLocal
  <2> QED
    BY <1>2, <2>1, <2>2 DEF ReadInv
<1>12. OrderInv'
  BY <1>2, <1>5 DEF LedgerInv, OrderInv
<1>13. NewestInv'
  <2> SUFFICES ASSUME NEW k \in lgLoads', IsNewest(k)'
               PROVE  k.s = lgActive' /\ k.o = lgOffset' /\ (k.step = "fallback" => lgOffline')
    BY DEF NewestInv
  <2>1. l.no <= k.no
    BY <1>2 DEF IsNewest
  <2>2. k = l
    BY <1>2, <1>5, <2>1
  <2> QED
    BY <1>5, <2>2
<1>14. RestInv'
  BY <1>2 DEF RestInv, LedgerRests
<1> QED
  BY <1>9, <1>11, <1>12, <1>13, <1>14 DEF LedgerInv

(* A load goes on.                                                           *)
Continues(l, m) == m \in LedgerLoads /\ m.no = l.no /\ m.s = l.s /\ m.o = l.o
LEMMA ReplaceKeeps ==
    ASSUME LedgerInv, NEW l \in lgLoads, NEW m, Continues(l, m), ReplaceLoad(l, m),
           Descends(m.loc), IsOf(m.loc, m.s), IsLocal(m.loc),
           m.step # "local" /\ ~lgBlind' => HasOwn(m.loc, m.s),
           lgBlind => lgBlind', lgOffline => lgOffline', m.step = "fallback" => lgOffline',
           lgBlind' \in BOOLEAN, lgOffline' \in BOOLEAN,
           UNCHANGED <<storeOf, lgLocal, lgServer, lgActive, lgOffset, lgShown, lgLoading, lgCache,
                       lgAnswered, lgCrossed, lgAstray>>
    PROVE  LedgerInv'
<1>1. lgLoads' = (lgLoads \ {l}) \cup {m} /\ m \in lgLoads'
  BY DEF ReplaceLoad
<1>2. m \in LedgerLoads /\ m.no = l.no /\ m.s = l.s /\ m.o = l.o
  BY DEF Continues
<1>3. LedgerTypes'
  <2>1. lgLoads \subseteq LedgerLoads /\ IsFiniteSet(lgLoads)
    BY DEF LedgerInv, LedgerTypes
  <2>2. PICK rest : rest = lgLoads \ {l}
    OBVIOUS
  <2>3. IsFiniteSet(rest)
    BY <2>1, <2>2, FS_RemoveElement
  <2>4. IsFiniteSet(lgLoads') /\ lgLoads' \subseteq LedgerLoads
    BY <1>1, <1>2, <2>1, <2>2, <2>3, FS_AddElement
  <2> QED
    BY <2>4 DEF LedgerInv, LedgerTypes
<1>4. ReadInv'
  <2>1. ASSUME NEW k \in lgLoads
        PROVE  /\ Descends(k.loc) /\ IsOf(k.loc, k.s)' /\ IsLocal(k.loc)'
               /\ k.step # "local" /\ ~lgBlind' => HasOwn(k.loc, k.s)'
    BY DEF LedgerInv, ReadInv, IsOf, IsLocal, HasOwn
  <2>2. /\ Descends(m.loc) /\ IsOf(m.loc, m.s)' /\ IsLocal(m.loc)'
        /\ m.step # "local" /\ ~lgBlind' => HasOwn(m.loc, m.s)'
    BY DEF IsOf, IsLocal, HasOwn
  <2> QED
    BY <1>1, <2>1, <2>2 DEF ReadInv
<1>5. OrderInv'
  BY <1>1, <1>2 DEF LedgerInv, OrderInv
<1>6. NewestInv'
  <2> SUFFICES ASSUME NEW k \in lgLoads', IsNewest(k)'
               PROVE  k.s = lgActive' /\ k.o = lgOffset' /\ (k.step = "fallback" => lgOffline')
    BY DEF NewestInv
  <2>1. \A j \in lgLoads : \E i \in lgLoads' : i.no = j.no
    BY <1>1, <1>2
  <2>2. \A j \in lgLoads : j.no <= k.no
    BY <2>1 DEF IsNewest
  <2>3. lgAnswered < k.no
    BY DEF IsNewest
  <2>4. CASE k = m
    <3>1. IsNewest(l)
      BY <1>2, <2>2, <2>3, <2>4 DEF IsNewest
    <3> QED
      BY <1>2, <2>4, <3>1 DEF LedgerInv, NewestInv
  <2>5. CASE k \in lgLoads
    <3>1. IsNewest(k)
      BY <2>2, <2>3 DEF IsNewest
    <3> QED
      BY <2>5, <3>1 DEF LedgerInv, NewestInv
  <2> QED
    BY <1>1, <2>4, <2>5
<1>7. RestInv'
  BY <1>1 DEF RestInv, LedgerRests
<1>8. PagerInv'
  BY DEF LedgerInv, PagerInv
<1> QED
  BY <1>3, <1>4, <1>5, <1>6, <1>7, <1>8 DEF LedgerInv

(* A load ends with a list.                                                  *)
LEMMA EndKeeps ==
    ASSUME LedgerInv, NEW l \in lgLoads, NEW q, EndLoad(l, q), Descends(q),
           lgCache' = lgCache \/ lgCache' = {q}, lgOffline' = lgOffline,
           lgBlind' \in BOOLEAN, lgBlind => lgBlind',
           ~lgBlind' => HasOwn(q, l.s),
           l.step # "fallback" => IsOf(q, l.s) /\ OneForeign(q)
    PROVE  LedgerInv'
<1>1. /\ lgShown' = q /\ lgLoading' = FALSE /\ lgLoads' = lgLoads \ {l}
      /\ lgAnswered' = IF lgLoads = {l} THEN 0 ELSE LedgerSets!Max({l.no, lgAnswered})
      /\ lgCrossed' = (lgCrossed \/ l.no < lgAnswered)
      /\ UNCHANGED <<storeOf, lgLocal, lgServer, lgActive, lgOffset, lgSteps, lgArrivals, lgAstray>>
  BY Zenon DEF EndLoad
<1>2. /\ lgLoads \subseteq LedgerLoads /\ IsFiniteSet(lgLoads) /\ lgAnswered \in Nat
      /\ lgBlind \in BOOLEAN /\ lgCrossed \in BOOLEAN
  BY DEF LedgerInv, LedgerTypes
<1>3. \A k \in lgLoads : k.no \in Nat
  BY <1>2 DEF LedgerLoads
<1>4. PICK n : n = LedgerSets!Max({l.no, lgAnswered})
  OBVIOUS
<1>5. n \in {l.no, lgAnswered} /\ l.no <= n /\ lgAnswered <= n /\ n \in Nat
  <2>1. \E x \in {l.no, lgAnswered} : \A y \in {l.no, lgAnswered} : x >= y
    BY <1>2, <1>3
  <2>2. n \in {l.no, lgAnswered} /\ \A y \in {l.no, lgAnswered} : n >= y
    BY <1>4, <2>1, Zenon DEF LedgerSets!Max
  <2> QED
    BY <1>2, <1>3, <2>2
<1>6. lgAnswered' = 0 \/ lgAnswered' = n
  BY <1>1, <1>4
<1>7. LedgerTypes'
  <2>1. IsFiniteSet(lgLoads') /\ lgLoads' \subseteq LedgerLoads
    BY <1>1, <1>2, FS_RemoveElement
  <2>2. (\A c \in lgCache' : Descends(c)) /\ (lgCache' = {} \/ \E c : lgCache' = {c})
    BY DEF LedgerInv, LedgerTypes
  <2>3. lgCrossed' \in BOOLEAN /\ lgLoading' \in BOOLEAN
    BY <1>1, Zenon
  <2>4. lgAnswered' \in Nat
    BY <1>5, <1>6
  <2> QED
    BY <1>1, <2>1, <2>2, <2>3, <2>4 DEF LedgerInv, LedgerTypes
<1>8. ReadInv'
  <2>1. ASSUME NEW k \in lgLoads
        PROVE  /\ Descends(k.loc) /\ IsOf(k.loc, k.s)' /\ IsLocal(k.loc)'
               /\ k.step # "local" /\ ~lgBlind' => HasOwn(k.loc, k.s)'
    BY <1>1 DEF LedgerInv, ReadInv, IsOf, IsLocal, HasOwn
  <2> QED
    BY <1>1, <2>1 DEF ReadInv
<1>9. \A k \in lgLoads' : k \in lgLoads /\ k # l /\ k.no # l.no /\ k.no # lgAnswered /\ lgAnswered' = n
  BY <1>1, <1>4 DEF LedgerInv, OrderInv
<1>10. OrderInv'
  <2>1. \A k \in lgLoads' : k.no # lgAnswered'
    BY <1>5, <1>9
  <2> QED
    BY <1>1, <2>1 DEF LedgerInv, OrderInv
<1>11. NewestInv'
  <2> SUFFICES ASSUME NEW k \in lgLoads', IsNewest(k)'
               PROVE  k.s = lgActive' /\ k.o = lgOffset' /\ (k.step = "fallback" => lgOffline')
    BY DEF NewestInv
  <2>1. n < k.no /\ \A j \in lgLoads' : j.no <= k.no
    BY <1>9 DEF IsNewest
  <2>2. lgAnswered < k.no /\ l.no <= k.no
    BY <1>2, <1>3, <1>5, <1>9, <2>1
  <2>3. IsNewest(k)
    BY <1>1, <2>1, <2>2 DEF IsNewest
  <2> QED
    BY <1>1, <1>9, <2>3 DEF LedgerInv, NewestInv
<1>12. RestInv'
  <2> SUFFICES ASSUME LedgerRests'
               PROVE  /\ ~lgBlind' => HasOwn(q, lgActive)
                      /\ ~lgOffline' => IsOf(q, lgActive) /\ OneForeign(q)
    BY <1>1 DEF RestInv, HasOwn, IsOf, OneForeign
  <2>1. lgLoads = {l} /\ ~(l.no < lgAnswered)
    BY <1>1 DEF LedgerRests
  <2>2. l.no # lgAnswered
    BY DEF LedgerInv, OrderInv
  <2>3. IsNewest(l)
    BY <1>2, <1>3, <2>1, <2>2 DEF IsNewest
  <2> QED
    BY <2>3 DEF LedgerInv, NewestInv
<1>13. PagerInv'
  BY <1>1 DEF LedgerInv, PagerInv
<1> QED
  BY <1>7, <1>8, <1>10, <1>11, <1>12, <1>13 DEF LedgerInv
LEMMA LocalOfFacts ==
    ASSUME LedgerTypes, NEW s
    PROVE  Descends(LocalOf(s)) /\ IsOf(LocalOf(s), s) /\ IsLocal(LocalOf(s)) /\ HasOwn(LocalOf(s), s)
<1>1. PICK S : S = {t \in lgLocal : storeOf[t] = s}
  OBVIOUS
<1>2. S \subseteq Movements
  BY <1>1 DEF LedgerTypes
<1>3. PICK q : q = ListOf(S)
  OBVIOUS
<1>4. Descends(q) /\ \A t : On(t, q) <=> t \in S
  BY <1>2, <1>3, ListOfFacts
<1>5. LocalOf(s) = q
  BY <1>1, <1>3, Zenon DEF LocalOf
<1> QED
  BY <1>1, <1>4, <1>5 DEF IsOf, IsLocal, HasOwn

(* A turned page: on from a list with more than the page itself, of which    *)
(* the rest is the device's own.                                             *)
LEMMA TurnKeeps ==
    ASSUME LedgerInv, NEW o \in Nat, Turn(o), lgAstray' \in BOOLEAN,
           o # 0 /\ ~lgAstray' => \E t \in lgLocal : storeOf[t] = lgActive
    PROVE  LedgerInv'
<1>1. lgActive \in LedgerStores
  BY DEF LedgerInv, LedgerTypes
<1>2. lgActive' = lgActive /\ lgOffset' = o /\ StartLedgerLoad(lgActive, o)
  BY DEF Turn
<1>3. UNCHANGED <<storeOf, lgLocal>>
  BY <1>2 DEF StartLedgerLoad
<1>4. PagerInv'
  BY <1>2, <1>3 DEF PagerInv
<1> QED
  BY <1>1, <1>2, <1>4, StartKeeps

LEMMA NextPageKeeps ==
    ASSUME LedgerInv, NextPage
    PROVE  LedgerInv'
<1>1. /\ HasNext /\ Turn(lgOffset + LIMIT)
      /\ lgAstray' = (lgAstray \/ lgOffline \/ lgCrossed \/ lgLoads # {})
  BY DEF NextPage
<1>2. lgOffset \in Nat /\ lgShown \in Seq(Movements) /\ Descends(lgShown)
  BY DEF LedgerInv, LedgerTypes, Descends
<1>3. PICK o \in Nat : o = lgOffset + LIMIT
  BY <1>2 DEF LIMIT
<1>4. lgAstray' \in BOOLEAN
  BY <1>1, Zenon
<1>5. ASSUME ~lgAstray'
      PROVE  \E t \in lgLocal : storeOf[t] = lgActive
  <2>1. LedgerRests /\ ~lgOffline
    BY <1>1, <1>5 DEF LedgerRests
  <2>2. 1 \in 1 .. Len(lgShown) /\ 2 \in 1 .. Len(lgShown)
    BY <1>1, <1>2 DEF HasNext, lgTotal, LIMIT
  <2>3. lgShown[1] > lgShown[2] /\ lgShown[1] \in Movements /\ lgShown[2] \in Movements
    BY <1>2, <2>2 DEF Descends
  <2>4. lgShown[1] # lgShown[2]
    BY <2>3, MovementsInt
  <2>5. On(lgShown[1], lgShown) /\ On(lgShown[2], lgShown)
    BY <2>2 DEF On
  <2>6. IsOf(lgShown, lgActive) /\ OneForeign(lgShown)
    BY <2>1 DEF LedgerInv, RestInv
  <2>7. lgShown[1] \in lgLocal \/ lgShown[2] \in lgLocal
    BY <2>4, <2>5, <2>6 DEF OneForeign
  <2>8. storeOf[lgShown[1]] = lgActive /\ storeOf[lgShown[2]] = lgActive
    BY <2>5, <2>6 DEF IsOf
  <2> QED
    BY <2>7, <2>8
<1>6. Turn(o)
  BY <1>1, <1>3
<1> QED
  BY <1>4, <1>5, <1>6, TurnKeeps

LEMMA LocalReadKeeps ==
    ASSUME LedgerInv, NEW l \in lgLoads, NEW ok \in BOOLEAN, LocalRead(l, ok)
    PROVE  LedgerInv'
<1>1. PICK q : q = IF ok THEN LocalOf(l.s) ELSE <<>>
  OBVIOUS
<1>2. PICK m : m = [l EXCEPT !.step = "server", !.loc = q]
  OBVIOUS
<1>3. /\ ReplaceLoad(l, m) /\ lgBlind' = (lgBlind \/ ~ok)
      /\ UNCHANGED <<storeOf, lgLocal, lgServer, lgActive, lgOffset, lgShown, lgLoading, lgOffline, lgCache,
                     lgAnswered, lgCrossed, lgAstray>>
  BY <1>1, <1>2 DEF LocalRead
<1>4. LedgerTypes /\ l \in LedgerLoads /\ lgBlind \in BOOLEAN /\ lgOffline \in BOOLEAN
  BY DEF LedgerInv, LedgerTypes
<1>5. Descends(LocalOf(l.s)) /\ IsOf(LocalOf(l.s), l.s) /\ IsLocal(LocalOf(l.s)) /\ HasOwn(LocalOf(l.s), l.s)
  BY <1>4, LocalOfFacts
<1>6. Descends(<<>>) /\ IsOf(<<>>, l.s) /\ IsLocal(<<>>)
  BY DEF Descends, IsOf, IsLocal, On
<1>7. Descends(q) /\ IsOf(q, l.s) /\ IsLocal(q) /\ (ok => HasOwn(q, l.s))
  BY <1>1, <1>5, <1>6, Zenon
<1>8. q \in Seq(Movements)
  BY <1>7 DEF Descends
<1>9. m.no = l.no /\ m.s = l.s /\ m.o = l.o /\ m.loc = q /\ m.step = "server" /\ m \in LedgerLoads
  BY <1>2, <1>4, <1>8 DEF LedgerLoads, LedgerSteps
<1>10. lgBlind' \in BOOLEAN /\ (lgBlind => lgBlind') /\ (~lgBlind' => ok)
  BY <1>3, Zenon
<1>11. Continues(l, m)
  BY <1>9 DEF Continues
<1>12. Descends(m.loc) /\ IsOf(m.loc, m.s) /\ IsLocal(m.loc) /\ (~lgBlind' => HasOwn(m.loc, m.s))
  BY <1>7, <1>9, <1>10
<1>13. m.step # "fallback" /\ lgOffline' \in BOOLEAN /\ (lgOffline => lgOffline')
  BY <1>3, <1>4, <1>9
<1> QED
  BY <1>3, <1>10, <1>11, <1>12, <1>13, ReplaceKeeps

LEMMA ServerFailsKeeps ==
    ASSUME LedgerInv, NEW l \in lgLoads, ServerFails(l)
    PROVE  LedgerInv'
<1>1. PICK m : m = [l EXCEPT !.step = "fallback"]
  OBVIOUS
<1>2. /\ l.step = "server" /\ lgOffline' = TRUE /\ ReplaceLoad(l, m)
      /\ UNCHANGED <<storeOf, lgLocal, lgServer, lgActive, lgOffset, lgShown, lgLoading, lgCache,
                     lgAnswered, lgCrossed, lgBlind, lgAstray>>
  BY <1>1 DEF ServerFails
<1>3. l \in LedgerLoads /\ lgBlind \in BOOLEAN
  BY DEF LedgerInv, LedgerTypes
<1>4. m.no = l.no /\ m.s = l.s /\ m.o = l.o /\ m.loc = l.loc /\ m \in LedgerLoads
  BY <1>1, <1>3 DEF LedgerLoads, LedgerSteps
<1>5. /\ Descends(l.loc) /\ IsOf(l.loc, l.s) /\ IsLocal(l.loc)
      /\ ~lgBlind => HasOwn(l.loc, l.s)
  BY <1>2 DEF LedgerInv, ReadInv
<1>6. Continues(l, m)
  BY <1>4 DEF Continues
<1>7. /\ Descends(m.loc) /\ IsOf(m.loc, m.s) /\ IsLocal(m.loc)
      /\ ~lgBlind' => HasOwn(m.loc, m.s)
  BY <1>2, <1>4, <1>5
<1>8. lgBlind' \in BOOLEAN /\ lgOffline' \in BOOLEAN /\ lgOffline' /\ (lgBlind => lgBlind')
  BY <1>2, <1>3
<1> QED
  BY <1>2, <1>6, <1>7, <1>8, ReplaceKeeps

LEMMA PageAnswersKeeps ==
    ASSUME LedgerInv, NEW l \in lgLoads, PageAnswers(l)
    PROVE  LedgerInv'
<1>1. PICK page : page = ServerPage(l.s, l.o)
  OBVIOUS
<1>2. PICK q : q = Merged(page, l.loc)
  OBVIOUS
<1>3. l.step = "server" /\ EndLoad(l, q) /\ lgCache' = {q} /\ UNCHANGED <<lgOffline, lgBlind>>
  BY <1>1, <1>2, Zenon DEF PageAnswers
<1>4. l \in LedgerLoads /\ lgServer \subseteq Movements /\ lgBlind \in BOOLEAN
  BY DEF LedgerInv, LedgerTypes
<1>5. l.o \in Nat
  BY <1>4 DEF LedgerLoads
<1>6. Descends(page) /\ Len(page) <= 1 /\ \A t : On(t, page) => storeOf[t] = l.s
  BY <1>1, <1>4, <1>5, PageFacts
<1>7. /\ Descends(l.loc) /\ IsOf(l.loc, l.s) /\ IsLocal(l.loc)
      /\ ~lgBlind => HasOwn(l.loc, l.s)
  BY <1>3 DEF LedgerInv, ReadInv
<1>8. Descends(q) /\ \A t : On(t, q) <=> On(t, page) \/ On(t, l.loc)
  BY <1>2, <1>6, <1>7, MergedFacts
<1>9. ~lgBlind => HasOwn(q, l.s)
  BY <1>7, <1>8 DEF HasOwn
<1>10. IsOf(q, l.s)
  BY <1>6, <1>7, <1>8 DEF IsOf
<1>11. OneForeign(q)
  <2>1. Len(page) \in Nat
    BY <1>6 DEF Descends
  <2>2. \A t, u : On(t, page) /\ On(u, page) => t = u
    BY <1>6, <2>1 DEF On
  <2> QED
    BY <1>7, <1>8, <2>2 DEF OneForeign, IsLocal
<1>12. (~lgBlind' => HasOwn(q, l.s)) /\ lgBlind' \in BOOLEAN /\ (lgBlind => lgBlind') /\ lgOffline' = lgOffline
  BY <1>3, <1>4, <1>9
<1> QED
  BY <1>3, <1>8, <1>10, <1>11, <1>12, EndKeeps

LEMMA FallbackKeeps ==
    ASSUME LedgerInv, NEW l \in lgLoads, NEW ok \in BOOLEAN, FallbackRead(l, ok)
    PROVE  LedgerInv'
<1>1. PICK q : q = Fallback(ok)
  OBVIOUS
<1>2. /\ l.step = "fallback" /\ EndLoad(l, q) /\ lgBlind' = (lgBlind \/ ~ok)
      /\ UNCHANGED <<lgOffline, lgCache>>
  BY <1>1, Zenon DEF FallbackRead
<1>3. /\ LedgerTypes /\ lgLocal \subseteq Movements /\ Descends(lgShown)
      /\ (\A c \in lgCache : Descends(c)) /\ (lgCache = {} \/ \E c : lgCache = {c})
  BY DEF LedgerInv, LedgerTypes
<1>4. Descends(ListOf(lgLocal)) /\ \A t : On(t, ListOf(lgLocal)) <=> t \in lgLocal
  BY <1>3, ListOfFacts
<1>5. lgCache # {} => Descends(CHOOSE c \in lgCache : TRUE)
  BY <1>3
<1>6. Descends(q)
  BY <1>1, <1>3, <1>4, <1>5, Zenon DEF Fallback
<1>7. ok => HasOwn(q, l.s)
  <2>1. CASE lgLocal = {}
    BY <2>1 DEF HasOwn
  <2>2. CASE ok /\ lgLocal # {}
    <3>1. q = ListOf(lgLocal)
      BY <1>1, <2>2, Zenon DEF Fallback
    <3> QED
      BY <1>4, <3>1 DEF HasOwn
  <2> QED
    BY <2>1, <2>2
<1>8. /\ ~lgBlind' => HasOwn(q, l.s)
      /\ lgBlind' \in BOOLEAN /\ (lgBlind => lgBlind') /\ lgOffline' = lgOffline /\ lgCache' = lgCache
  BY <1>2, <1>7, Zenon
<1> QED
  BY <1>2, <1>6, <1>8, EndKeeps

LEMMA LedgerKeeps == LedgerInv /\ [LedgerNext]_ledgerVars => LedgerInv'
<1> SUFFICES ASSUME LedgerInv, [LedgerNext]_ledgerVars PROVE LedgerInv'
  OBVIOUS
<1>1. CASE UNCHANGED ledgerVars
  BY <1>1 DEF ledgerVars, LedgerInv, LedgerTypes, ReadInv, OrderInv, NewestInv, IsNewest, RestInv, LedgerRests,
              PagerInv, HasOwn, IsOf, IsLocal, OneForeign
<1>2. ASSUME NEW s \in LedgerStores, SwitchLedgerStore(s) PROVE LedgerInv'
  <2>1. lgActive' = s /\ lgOffset' = 0 /\ lgAstray' = FALSE /\ StartLedgerLoad(s, 0)
    BY <1>2 DEF SwitchLedgerStore
  <2>2. PagerInv'
    BY <2>1 DEF PagerInv
  <2> QED
    BY <2>1, <2>2, StartKeeps
<1>3. CASE RefreshLedger
  <2>1. Turn(lgOffset) /\ lgAstray' = lgAstray /\ lgAstray \in BOOLEAN /\ lgOffset \in Nat
    BY <1>3 DEF RefreshLedger, LedgerInv, LedgerTypes
  <2>2. lgOffset # 0 /\ ~lgAstray => \E t \in lgLocal : storeOf[t] = lgActive
    BY DEF LedgerInv, PagerInv
  <2> QED
    BY <2>1, <2>2, TurnKeeps
<1>4. CASE PreviousPage
  <2>1. lgOffset \in Nat /\ lgOffset > 0 /\ lgAstray' = lgAstray /\ lgAstray \in BOOLEAN
    BY <1>4 DEF PreviousPage, LedgerInv, LedgerTypes
  <2>2. PICK o : o = IF lgOffset > LIMIT THEN lgOffset - LIMIT ELSE 0
    OBVIOUS
  <2>3. o \in Nat /\ Turn(o)
    BY <1>4, <2>1, <2>2 DEF PreviousPage, LIMIT
  <2>4. ~lgAstray => \E t \in lgLocal : storeOf[t] = lgActive
    BY <2>1 DEF LedgerInv, PagerInv
  <2> QED
    BY <2>1, <2>3, <2>4, TurnKeeps
<1>5. CASE NextPage
  BY <1>5, NextPageKeeps
<1>6. ASSUME NEW l \in lgLoads,
             \/ PageAnswers(l) \/ ServerFails(l) \/ \E ok \in BOOLEAN : LocalRead(l, ok) \/ FallbackRead(l, ok)
      PROVE  LedgerInv'
  BY <1>6, PageAnswersKeeps, ServerFailsKeeps, LocalReadKeeps, FallbackKeeps
<1>7. ASSUME NEW t \in Movements, Arrives(t) PROVE LedgerInv'
  <2>1. /\ lgServer' = lgServer \cup {t}
        /\ UNCHANGED <<storeOf, lgLocal, lgActive, lgOffset, lgShown, lgLoading, lgOffline, lgCache, lgLoads,
                       lgAnswered, lgCrossed, lgBlind, lgAstray>>
    BY <1>7 DEF Arrives
  <2>2. LedgerTypes'
    BY <2>1 DEF LedgerInv, LedgerTypes
  <2>3. ReadInv' /\ RestInv'
    BY <2>1 DEF LedgerInv, ReadInv, RestInv, LedgerRests, HasOwn, IsOf, IsLocal, OneForeign
  <2>4. OrderInv' /\ NewestInv' /\ PagerInv'
    BY <2>1 DEF LedgerInv, OrderInv, NewestInv, IsNewest, PagerInv
  <2> QED
    BY <2>2, <2>3, <2>4 DEF LedgerInv
<1> QED
  BY <1>1, <1>2, <1>3, <1>4, <1>5, <1>6, <1>7, Zenon DEF LedgerNext

(* The transaction list has every movement of the device for the active      *)
(* store, each once and in the order of time, none of another store, and a   *)
(* way back from every page (loadTransactions), for any stores, movements,   *)
(* loads and page turns, however late the loads end.                         *)
THEOREM LedgerTrue == LedgerInit /\ [][LedgerNext]_ledgerVars => [](LedgerTypeOK /\ LedgerIsTrue)
  BY LedgerStarts, LedgerKeeps, LedgerMeans, PTL

(***************************************************************************)
(* DayBooks                                                                *)
(***************************************************************************)
BookTxs == [n : Nat, s : BookStores, d : Days, q : {1, -1}, k : Kinds]
IsBook(b) ==
    /\ b = [s |-> b.s, d |-> b.d, loc |-> b.loc, o |-> b.o, c |-> b.c]
    /\ b.s \in BookStores /\ b.d \in Days /\ b.loc \in BOOLEAN
IsDetail(x) == x = [book |-> x.book, es |-> x.es, gen |-> x.gen] /\ IsBook(x.book)
IsLoad(l) ==
    /\ l = [s |-> l.s, ph |-> l.ph, got |-> l.got, txs |-> l.txs, bal |-> l.bal]
    /\ l.s \in BookStores /\ l.txs \subseteq BookTxs
IsEdit(o) == o = [kind |-> o.kind, n |-> o.n, sel |-> o.sel, ph |-> o.ph] /\ IsDetail(o.sel)
AtMostOne(S) == \A x, y \in S : x = y

LogTypes ==
    /\ bkTx \subseteq BookTxs /\ IsFiniteSet(bkTx) /\ bkSrv \subseteq BookTxs
    /\ bkAvail \in [BookStores -> Int] /\ bkMoves \in Nat
    /\ bkActive \in BookStores /\ bkReads \subseteq BookStores
    /\ bkLoading \in BOOLEAN /\ bkSheet \in BOOLEAN /\ bkBadSheet = FALSE
    /\ bkFresh \in BOOLEAN /\ bkLiveOld \in BOOLEAN /\ bkCrossed \in BOOLEAN /\ bkOverlap \in BOOLEAN
ViewTypes ==
    /\ bkCache = [s \in BookStores |-> bkCache[s]]
    /\ \A s \in BookStores : \A b \in bkCache[s] : IsBook(b) /\ b.s = s
    /\ (\A l \in bkLoads : IsLoad(l)) /\ (\A b \in bkList : IsBook(b)) /\ (\A o \in bkEdits : IsEdit(o))
    /\ (\A b \in bkOpening : IsBook(b)) /\ AtMostOne(bkOpening)
DetailInv ==
    /\ \A m \in bkMem : IsDetail(m)
    /\ \A x, y \in bkMem : SameId(x.book, y.book) => x = y
    /\ (\A x \in bkSel : IsDetail(x)) /\ AtMostOne(bkSel)
LogNumbersInv ==
    /\ \A t \in bkTx : t.n \in 1 .. (bkMoves + 1) /\ t.n \notin bkDeleted
    /\ \A t, u \in bkTx : t.n = u.n => t = u
    /\ bkDeleted \subseteq 1 .. (bkMoves + 1)
Clean(x) == \A e \in x.es : e.n \notin bkDeleted
GoneInv ==
    ~bkOverlap =>
        /\ \A m \in bkMem : Clean(m)
        /\ \A x \in bkSel : Clean(x)
        /\ \A o \in bkEdits : o.kind = "delete" /\ o.ph = "command" => Clean(o.sel)
        /\ \A o, p \in bkEdits : o.kind = "delete" /\ p.kind = "delete" => o = p
Switching ==
    /\ AtMostOne(bkLoads) /\ (\A l \in bkLoads : l.ph = "local") /\ bkLoads # {}
    /\ bkLoading /\ bkSel = {} /\ bkOpening = {} /\ bkEdits = {} /\ ~bkSheet
OfActive ==
    ~bkCrossed =>
        /\ (\A l \in bkLoads : l.s = bkActive) /\ (\A o \in bkEdits : o.sel.book.s = bkActive)
        /\ (\A b \in bkOpening : b.s = bkActive) /\ (\A x \in bkSel : x.book.s = bkActive)
        /\ (\A b \in bkList : b.s = bkActive) \/ Switching
ListedInv ==
    bkFresh /\ ~bkCrossed => {b \in bkList : b.loc} = LocalBooks(bkTx, bkAvail[bkActive], bkActive)
LiveInv ==
    bkReads = {} /\ ~bkLiveOld => \A x \in bkSel : x.es # {} => bkLive = {bkAvail[x.book.s]}
BooksInv == LogTypes /\ ViewTypes /\ DetailInv /\ LogNumbersInv /\ GoneInv /\ OfActive /\ ListedInv /\ LiveInv

(* What a local book is.                                                     *)
LEMMA LocalBookFacts ==
    ASSUME NEW txs, txs \subseteq BookTxs, NEW bal, NEW s \in BookStores
    PROVE  \A b \in LocalBooks(txs, bal, s) :
               IsBook(b) /\ b.s = s /\ b.loc = TRUE
<1> SUFFICES ASSUME NEW b \in LocalBooks(txs, bal, s)
             PROVE  IsBook(b) /\ b.s = s /\ b.loc = TRUE
  OBVIOUS
<1>1. PICK t \in txs : b = DayBookOf(OfStore(txs, s), bal, s, t.d)
  BY DEF LocalBooks, DaysOf, OfStore
<1>2. t.d \in Days
  BY DEF BookTxs
<1>3. PICK oo, cc : b = [s |-> s, d |-> t.d, loc |-> TRUE, o |-> oo, c |-> cc]
  BY <1>1 DEF DayBookOf
<1> QED
  BY <1>2, <1>3 DEF IsBook

(* What a local detail is: there is one of each day.                         *)
LocalDetail(x, txs, s) ==
    IsDetail(x) /\ x.book.s = s /\ x.book.loc = TRUE /\ \A e \in x.es : \E t \in txs : t.n = e.n
LEMMA LocalDetailFacts ==
    ASSUME NEW txs, txs \subseteq BookTxs, NEW bal, NEW s \in BookStores
    PROVE  /\ \A x \in LocalDetails(txs, bal, s) : LocalDetail(x, txs, s)
           /\ \A x, y \in LocalDetails(txs, bal, s) : x.book.d = y.book.d => x = y
<1>1. \A x \in LocalDetails(txs, bal, s) :
        \E t \in txs : x = DetailOf(OfStore(txs, s), bal, s, t.d)
  BY DEF LocalDetails, DaysOf, OfStore
<1>2. ASSUME NEW d PROVE DetailOf(OfStore(txs, s), bal, s, d).book.d = d
  BY DEF DetailOf, DayBookOf
<1>3. ASSUME NEW x \in LocalDetails(txs, bal, s), NEW y \in LocalDetails(txs, bal, s), x.book.d = y.book.d
      PROVE  x = y
  BY <1>1, <1>2, <1>3
<1>4. ASSUME NEW x \in LocalDetails(txs, bal, s) PROVE LocalDetail(x, txs, s)
  <2>1. PICK t \in txs : x = DetailOf(OfStore(txs, s), bal, s, t.d)
    BY <1>1
  <2>2. t.d \in Days
    BY DEF BookTxs
  <2>3. PICK es : es = EntriesOf(OfStore(txs, s), bal, t.d)
    OBVIOUS
  <2>4. PICK b : b = DayBookOf(OfStore(txs, s), bal, s, t.d)
    OBVIOUS
  <2>5. PICK oo, cc : b = [s |-> s, d |-> t.d, loc |-> TRUE, o |-> oo, c |-> cc]
    BY <2>4 DEF DayBookOf
  <2>6. IsBook(b) /\ b.s = s /\ b.loc = TRUE
    BY <2>2, <2>5 DEF IsBook
  <2>7. x = [book |-> b, es |-> es, gen |-> FALSE]
    BY <2>1, <2>3, <2>4 DEF DetailOf
  <2>8. \A e \in es : \E u \in txs : u.n = e.n
    <3> SUFFICES ASSUME NEW e \in es PROVE \E u \in txs : u.n = e.n
      OBVIOUS
    <3>1. PICK u \in OfStore(txs, s) : \E r : e = [n |-> u.n, q |-> u.q, r |-> r]
      BY <2>3, Zenon DEF EntriesOf
    <3> QED
      BY <3>1 DEF OfStore
  <2> QED
    BY <2>6, <2>7, <2>8 DEF LocalDetail, IsDetail
<1> QED
  BY <1>3, <1>4

(* What a book of the server is.                                             *)
LEMMA ServerBookFacts ==
    ASSUME bkSrv \subseteq BookTxs, NEW s \in BookStores
    PROVE  \A b \in ServerBooks(s) : IsBook(b) /\ b.s = s /\ b.loc = FALSE
<1> SUFFICES ASSUME NEW b \in ServerBooks(s) PROVE IsBook(b) /\ b.s = s /\ b.loc = FALSE
  OBVIOUS
<1>1. PICK t \in bkSrv : b = [s |-> s, d |-> t.d, loc |-> FALSE, o |-> 0, c |-> 0]
  BY DEF ServerBooks, DaysOf, OfStore
<1>2. t.d \in Days
  BY DEF BookTxs
<1> QED
  BY <1>1, <1>2 DEF IsBook

(* What is remembered, after ms was.                                         *)
Details(ms) == (\A x \in ms : IsDetail(x)) /\ \A x, y \in ms : SameId(x.book, y.book) => x = y
LEMMA RememberFacts ==
    ASSUME DetailInv, NEW ms, Details(ms), Remember(ms)
    PROVE  /\ \A m \in bkMem' : IsDetail(m)
           /\ \A x, y \in bkMem' : SameId(x.book, y.book) => x = y
           /\ \A m \in bkMem' : m \in ms \/ (m \in bkMem /\ ~\E x \in ms : SameId(x.book, m.book))
<1>1. \A m \in bkMem' : m \in ms \/ (m \in bkMem /\ ~\E x \in ms : SameId(x.book, m.book))
  BY Zenon DEF Remember
<1>2. \A x, y : SameId(x, y) => SameId(y, x)
  BY DEF SameId
<1> QED
  BY <1>1, <1>2, Zenon DEF DetailInv, Details

(* The open book is set.                                                     *)
Shown(sel) == (\A x \in sel : IsDetail(x)) /\ AtMostOne(sel)
LEMMA SelectedFacts ==
    ASSUME LogTypes, NEW sel, Shown(sel), setSelectedDayBook(sel)
    PROVE  /\ bkSel' = sel /\ bkReads' \subseteq BookStores /\ bkReads \subseteq bkReads'
           /\ (\A x \in bkSel' : IsDetail(x)) /\ AtMostOne(bkSel')
           /\ bkReads' # {} \/ bkSel' = bkSel \/ \A x \in bkSel' : x.es = {}
<1>1. \A x \in sel : x.book.s \in BookStores
  BY DEF Shown, IsDetail, IsBook
<1>2. bkReads' = bkReads \cup {x.book.s : x \in {x \in sel : x.es # {} /\ sel # bkSel}} /\ bkSel' = sel
  BY DEF setSelectedDayBook
<1>3. bkReads \subseteq BookStores
  BY DEF LogTypes
<1> QED
  BY <1>1, <1>2, <1>3 DEF Shown

LEMMA RememberedShown ==
    ASSUME DetailInv, NEW b
    PROVE  Shown(Remembered(b)) /\ Details(Remembered(b)) /\ Remembered(b) \subseteq bkMem
           /\ \A m \in Remembered(b) : m.book.s = b.s
  BY DEF DetailInv, Shown, Details, Remembered, AtMostOne, SameId

(* The live balance stays that of the open book.                             *)
LEMMA LiveKept ==
    ASSUME LiveInv, bkLive' = bkLive, bkReads \subseteq bkReads',
           bkReads' # {} \/ bkSel' = bkSel \/ \A x \in bkSel' : x.es = {},
           bkLiveOld' \/ (bkAvail' = bkAvail /\ bkLiveOld' = bkLiveOld)
    PROVE  LiveInv'
  BY DEF LiveInv

(* Elsewhere nothing of the screen changes.                                  *)
ViewStill ==
    /\ UNCHANGED <<bkActive, bkLoads, bkList, bkCache, bkMem, bkSel, bkOpening, bkEdits, bkLoading>>
    /\ UNCHANGED <<bkLive, bkReads, bkSheet, bkBadSheet, bkCrossed, bkOverlap, bkDeleted>>
LEMMA StillKeeps == BooksInv /\ ViewStill => ViewTypes' /\ DetailInv' /\ GoneInv' /\ OfActive'
<1> SUFFICES ASSUME BooksInv, ViewStill PROVE ViewTypes' /\ DetailInv' /\ GoneInv' /\ OfActive'
  OBVIOUS
<1>1. ViewTypes'
  BY DEF BooksInv, ViewStill, ViewTypes
<1>2. DetailInv'
  BY DEF BooksInv, ViewStill, DetailInv
<1>3. GoneInv'
  BY DEF BooksInv, ViewStill, GoneInv, Clean
<1>4. OfActive'
  BY DEF BooksInv, ViewStill, OfActive, Switching
<1> QED
  BY <1>1, <1>2, <1>3, <1>4

LEMMA MovementKeeps ==
    ASSUME BooksInv, NEW s \in BookStores, NEW d \in Days, NEW k \in BookKinds, Movement(s, d, k)
    PROVE  BooksInv'
<1>1. PICK t : t = [n |-> bkMoves + 2, s |-> s, d |-> d, q |-> 1, k |-> k]
  OBVIOUS
<1>2. /\ ViewStill /\ bkFresh' = FALSE /\ bkLiveOld' = TRUE /\ bkSrv' = bkSrv
      /\ bkMoves' = bkMoves + 1 /\ bkTx' = bkTx \cup {t}
      /\ bkAvail' = IF k = "bucket" THEN bkAvail ELSE [bkAvail EXCEPT ![s] = @ + 1]
  BY <1>1 DEF Movement, Elsewhere, StockChanges, ViewStill, bookViewVars, bookSheetVars
<1>3. k \in Kinds
  BY BookAssumption DEF Kinds
<1>4. LogTypes
  BY DEF BooksInv
<1>5. t \in BookTxs /\ t.n = bkMoves + 2 /\ bkMoves \in Nat
  BY <1>1, <1>3, <1>4 DEF BookTxs, LogTypes
<1>6. LogTypes'
  <2>1. bkAvail' \in [BookStores -> Int]
    BY <1>2, <1>4 DEF LogTypes
  <2>2. IsFiniteSet(bkTx')
    BY <1>2, <1>4, FS_AddElement DEF LogTypes
  <2>3. bkTx' \subseteq BookTxs /\ bkMoves' \in Nat
    BY <1>2, <1>4, <1>5 DEF LogTypes
  <2>4. /\ UNCHANGED <<bkSrv, bkActive, bkReads, bkLoading, bkSheet, bkBadSheet, bkCrossed, bkOverlap>>
        /\ bkFresh' = FALSE /\ bkLiveOld' = TRUE
    BY <1>2 DEF ViewStill
  <2> QED
    BY <1>4, <2>1, <2>2, <2>3, <2>4 DEF LogTypes
<1>7. LogNumbersInv'
  <2>1. LogNumbersInv
    BY DEF BooksInv
  <2> QED
    BY <1>2, <1>5, <2>1 DEF LogNumbersInv, ViewStill
<1>8. ListedInv' /\ LiveInv'
  BY <1>2 DEF ListedInv, LiveInv
<1> QED
  BY <1>2, <1>6, <1>7, <1>8, StillKeeps DEF BooksInv

LEMMA LogPushedKeeps == ASSUME BooksInv, LogPushed PROVE BooksInv'
<1>1. /\ ViewStill /\ bkSrv' = bkTx \cup {t \in bkSrv : t.n = Foreign}
      /\ UNCHANGED <<bkTx, bkAvail, bkMoves, bkFresh, bkLiveOld>>
  BY DEF LogPushed, Elsewhere, ViewStill, bookViewVars, bookSheetVars
<1>2. LogTypes'
  BY <1>1 DEF BooksInv, LogTypes, ViewStill
<1>3. LogNumbersInv'
  BY <1>1 DEF BooksInv, LogNumbersInv, ViewStill
<1>4. ListedInv'
  BY <1>1 DEF BooksInv, ListedInv, ViewStill
<1>5. LiveInv'
  BY <1>1 DEF BooksInv, LiveInv, ViewStill
<1> QED
  BY <1>1, <1>2, <1>3, <1>4, <1>5, StillKeeps DEF BooksInv

(* The database is not touched.                                              *)
DbStill == UNCHANGED <<bkTx, bkAvail, bkSrv, bkMoves, bkDeleted, bkBadSheet>>
LEMMA NumbersStill == LogNumbersInv /\ DbStill => LogNumbersInv'
  BY DEF LogNumbersInv, DbStill

(* Neither the details in memory nor the open book.                          *)
OpenStill == UNCHANGED <<bkMem, bkSel, bkReads, bkLive>>
LEMMA DetailStill == DetailInv /\ OpenStill => DetailInv'
  BY DEF DetailInv, OpenStill
LEMMA LiveStill == LiveInv /\ OpenStill /\ UNCHANGED <<bkAvail, bkLiveOld>> => LiveInv'
  BY DEF LiveInv, OpenStill
LEMMA GoneStill ==
    GoneInv /\ OpenStill /\ UNCHANGED <<bkEdits, bkDeleted>> /\ (bkOverlap => bkOverlap') => GoneInv'
  BY DEF GoneInv, OpenStill, Clean

LEMMA LoadReadsKeeps ==
    ASSUME BooksInv, NEW l \in bkLoads, NEW what \in {"txs", "bal"}, LoadReads(l, what) PROVE BooksInv'
<1>1. PICK new : new = IF what = "txs" THEN [l EXCEPT !.got = what, !.txs = bkTx]
                       ELSE [l EXCEPT !.got = what, !.bal = bkAvail[l.s]]
  OBVIOUS
<1>2. /\ DbStill /\ OpenStill /\ bkLoads' = (bkLoads \ {l}) \cup {new} /\ l.ph = "local"
      /\ UNCHANGED <<bkActive, bkList, bkCache, bkOpening, bkEdits, bkLoading, bkSheet>>
      /\ UNCHANGED <<bkFresh, bkLiveOld, bkCrossed, bkOverlap>>
  BY <1>1 DEF LoadReads, DbStill, OpenStill, bookDbVars, bookSheetVars
<1>3. IsLoad(l) /\ bkTx \subseteq BookTxs
  BY DEF BooksInv, ViewTypes, LogTypes
<1>4. IsLoad(new) /\ new.s = l.s /\ new.ph = l.ph
  <2>1. PICK a, b, c, e, f : l = [s |-> a, ph |-> b, got |-> c, txs |-> e, bal |-> f]
    BY <1>3 DEF IsLoad
  <2>2. a \in BookStores /\ e \subseteq BookTxs /\ l.s = a /\ l.ph = b
    BY <1>3, <2>1 DEF IsLoad
  <2>3. CASE what = "txs"
    <3>1. new = [s |-> a, ph |-> b, got |-> what, txs |-> bkTx, bal |-> f]
      BY <1>1, <2>1, <2>3
    <3> QED
      BY <3>1, <2>2, <1>3 DEF IsLoad
  <2>4. CASE what # "txs"
    <3>1. new = [s |-> a, ph |-> b, got |-> what, txs |-> e, bal |-> bkAvail[l.s]]
      BY <1>1, <2>1, <2>4
    <3> QED
      BY <3>1, <2>2 DEF IsLoad
  <2> QED
    BY <2>3, <2>4
<1>5. LogTypes'
  BY <1>2 DEF BooksInv, LogTypes, DbStill, OpenStill
<1>6. ViewTypes'
  BY <1>2, <1>4 DEF BooksInv, ViewTypes
<1>7. OfActive'
  <2>1. OfActive
    BY DEF BooksInv
  <2> QED
    BY <1>2, <1>4, <2>1 DEF OfActive, Switching, AtMostOne, OpenStill
<1>8. ListedInv'
  BY <1>2 DEF BooksInv, ListedInv, DbStill
<1> QED
  BY <1>2, <1>5, <1>6, <1>7, <1>8, NumbersStill, DetailStill, LiveStill, GoneStill DEF BooksInv, DbStill

LEMMA LoadOfFacts ==
    ASSUME NEW s \in BookStores, NEW ph
    PROVE  IsLoad(LoadOf(s, ph)) /\ LoadOf(s, ph).s = s /\ LoadOf(s, ph).ph = ph
  BY DEF IsLoad, LoadOf

LEMMA RefreshBooksKeeps == ASSUME BooksInv, RefreshBooks PROVE BooksInv'
<1>1. PICK new : new = LoadOf(bkActive, "local")
  OBVIOUS
<1>2. /\ DbStill /\ OpenStill /\ bkLoads' = bkLoads \cup {new} /\ bkLoading' = TRUE /\ ~bkLoading
      /\ UNCHANGED <<bkActive, bkList, bkCache, bkOpening, bkEdits, bkSheet>>
      /\ UNCHANGED <<bkFresh, bkLiveOld, bkCrossed, bkOverlap>>
  BY <1>1 DEF RefreshBooks, loadDayBooks, DbStill, OpenStill, bookDbVars, bookSheetVars
<1>3. IsLoad(new) /\ new.s = bkActive
  BY <1>1, LoadOfFacts DEF BooksInv, LogTypes
<1>5. LogTypes'
  BY <1>2 DEF BooksInv, LogTypes, DbStill, OpenStill
<1>6. ViewTypes'
  BY <1>2, <1>3 DEF BooksInv, ViewTypes
<1>7. OfActive'
  BY <1>2, <1>3 DEF BooksInv, OfActive, Switching, OpenStill
<1>8. ListedInv'
  BY <1>2 DEF BooksInv, ListedInv, DbStill
<1> QED
  BY <1>2, <1>5, <1>6, <1>7, <1>8, NumbersStill, DetailStill, LiveStill, GoneStill DEF BooksInv, DbStill

(* No book open is a book to show.                                           *)
LEMMA NothingShown == Shown({})
  BY DEF Shown, AtMostOne

LEMMA BookStoreSwitchKeeps ==
    ASSUME BooksInv, NEW s \in BookStores, BookStoreSwitch(s) PROVE BooksInv'
<1>1. PICK new : new = LoadOf(s, "local")
  OBVIOUS
<1>2. /\ DbStill /\ bkLoads' = bkLoads \cup {new} /\ bkLoading' = TRUE /\ bkActive' = s
      /\ setSelectedDayBook({}) /\ bkFresh' = FALSE
      /\ bkCache' = [bkCache EXCEPT ![s] = {}]
      /\ bkCrossed' = (bkCrossed \/ UnderWay)
      /\ UNCHANGED <<bkList, bkMem, bkOpening, bkEdits, bkSheet, bkLive, bkLiveOld, bkOverlap>>
  BY <1>1 DEF BookStoreSwitch, loadDayBooks, Deselected, DbStill, bookDbVars
<1>3. IsLoad(new) /\ new.s = s /\ new.ph = "local"
  BY <1>1, LoadOfFacts
<1>4. /\ bkSel' = {} /\ bkReads' \subseteq BookStores /\ bkReads \subseteq bkReads'
  BY <1>2, SelectedFacts, NothingShown DEF BooksInv
<1>5. LogTypes'
  <2>1. UnderWay \in BOOLEAN
    BY DEF UnderWay, BooksInv, LogTypes
  <2> QED
    BY <1>2, <1>4, <2>1 DEF BooksInv, LogTypes, DbStill
<1>6. ViewTypes'
  <2>1. ViewTypes
    BY DEF BooksInv
  <2>2. /\ bkCache' = [x \in BookStores |-> bkCache'[x]]
        /\ \A x \in BookStores : bkCache'[x] = IF x = s THEN {} ELSE bkCache[x]
    BY <1>2, <2>1 DEF ViewTypes
  <2> QED
    BY <1>2, <1>3, <2>1, <2>2 DEF ViewTypes
<1>7. OfActive'
  BY <1>2, <1>3, <1>4 DEF OfActive, Switching, UnderWay, AtMostOne
<1>8. ListedInv' /\ LiveInv'
  BY <1>2, <1>4 DEF ListedInv, LiveInv
<1>9. DetailInv'
  BY <1>2, <1>4 DEF BooksInv, DetailInv, AtMostOne
<1>10. GoneInv'
  BY <1>2, <1>4 DEF BooksInv, GoneInv, Clean, DbStill
<1> QED
  BY <1>2, <1>5, <1>6, <1>7, <1>8, <1>9, <1>10, NumbersStill DEF BooksInv

LEMMA BackToListKeeps == ASSUME BooksInv, BackToList PROVE BooksInv'
<1>2. /\ DbStill /\ setSelectedDayBook({})
      /\ UNCHANGED <<bkActive, bkLoads, bkList, bkCache, bkMem, bkOpening, bkEdits, bkLoading, bkSheet, bkLive>>
      /\ UNCHANGED <<bkFresh, bkLiveOld, bkCrossed, bkOverlap>>
  BY DEF BackToList, DbStill, bookDbVars
<1>4. bkSel' = {} /\ bkReads' \subseteq BookStores
  BY <1>2, SelectedFacts, NothingShown DEF BooksInv
<1>5. LogTypes'
  BY <1>2, <1>4 DEF BooksInv, LogTypes, DbStill
<1>6. ViewTypes'
  BY <1>2 DEF BooksInv, ViewTypes
<1>7. OfActive'
  BY <1>2, <1>4 DEF BooksInv, OfActive, Switching
<1>8. ListedInv' /\ LiveInv'
  BY <1>2, <1>4 DEF BooksInv, ListedInv, LiveInv, DbStill
<1>9. DetailInv'
  BY <1>2, <1>4 DEF BooksInv, DetailInv, AtMostOne
<1>10. GoneInv'
  BY <1>2, <1>4 DEF BooksInv, GoneInv, Clean, DbStill
<1> QED
  BY <1>2, <1>5, <1>6, <1>7, <1>8, <1>9, <1>10, NumbersStill DEF BooksInv

(* Local books and their details are of their store; the details of a log    *)
(* without a deleted movement are clean.                                     *)
DayDetails(txs, bal, s, d) == {m \in LocalDetails(txs, bal, s) : m.book.d = d}
LEMMA LocalDetailsShown ==
    ASSUME NEW txs, txs \subseteq BookTxs, NEW bal, NEW s \in BookStores, NEW d, NEW ms,
           ms = DayDetails(txs, bal, s, d)
    PROVE  Details(ms) /\ Shown(ms) /\ \A m \in ms : LocalDetail(m, txs, s)
<1>1. /\ \A x \in LocalDetails(txs, bal, s) : LocalDetail(x, txs, s)
      /\ \A x, y \in LocalDetails(txs, bal, s) : x.book.d = y.book.d => x = y
  BY LocalDetailFacts
<1>2. PICK L : L = LocalDetails(txs, bal, s)
  OBVIOUS
<1> QED
  BY <1>1, <1>2 DEF DayDetails, Details, Shown, AtMostOne, SameId, LocalDetail

LEMMA LocalDetailsAll ==
    ASSUME NEW txs, txs \subseteq BookTxs, NEW bal, NEW s \in BookStores, NEW ms,
           ms = LocalDetails(txs, bal, s)
    PROVE  Details(ms) /\ \A m \in ms : LocalDetail(m, txs, s)
<1>1. /\ \A x \in ms : LocalDetail(x, txs, s)
      /\ \A x, y \in ms : x.book.d = y.book.d => x = y
  BY LocalDetailFacts
<1> QED
  BY <1>1 DEF Details, SameId, LocalDetail

(* A list is shown.                                                          *)
LEMMA ShowBooksFacts ==
    ASSUME BooksInv, NEW s \in BookStores, NEW txs, txs \subseteq BookTxs, NEW bal, NEW books,
           \A b \in books : IsBook(b) /\ b.s = s, ShowBooks(s, txs, bal, books)
    PROVE  /\ bkList' = books
           /\ bkCache' = [x \in BookStores |-> bkCache'[x]]
           /\ \A x \in BookStores : \A b \in bkCache'[x] : IsBook(b) /\ b.s = x
           /\ \A m \in bkMem' : IsDetail(m)
           /\ \A x, y \in bkMem' : SameId(x.book, y.book) => x = y
           /\ \A m \in bkMem' : m \in bkMem \/ LocalDetail(m, txs, s)
           /\ bkFresh' = (txs = bkTx /\ bal = bkAvail[s])
<1>1. PICK ms : ms = LocalDetails(txs, bal, s)
  OBVIOUS
<1>2. Details(ms) /\ \A m \in ms : LocalDetail(m, txs, s)
  BY <1>1, LocalDetailsAll
<1>3. /\ bkList' = books /\ bkCache' = [bkCache EXCEPT ![s] = books] /\ Remember(ms)
      /\ bkFresh' = (txs = bkTx /\ bal = bkAvail[s])
  BY <1>1, Zenon DEF ShowBooks
<1>4. ViewTypes /\ DetailInv
  BY DEF BooksInv
<1>5. /\ bkCache' = [x \in BookStores |-> bkCache'[x]]
      /\ \A x \in BookStores : bkCache'[x] = IF x = s THEN books ELSE bkCache[x]
  BY <1>3, <1>4 DEF ViewTypes
<1>6. \A x \in BookStores : \A b \in bkCache'[x] : IsBook(b) /\ b.s = x
  BY <1>4, <1>5 DEF ViewTypes
<1>7. /\ \A m \in bkMem' : IsDetail(m)
      /\ \A x, y \in bkMem' : SameId(x.book, y.book) => x = y
      /\ \A m \in bkMem' : m \in ms \/ (m \in bkMem /\ ~\E x \in ms : SameId(x.book, m.book))
  BY <1>2, <1>3, <1>4, RememberFacts
<1>8. \A m \in bkMem' : m \in bkMem \/ LocalDetail(m, txs, s)
  BY <1>2, <1>7
<1> QED
  BY <1>3, <1>5, <1>6, <1>7, <1>8

LEMMA LoadShowsKeeps ==
    ASSUME BooksInv, NEW l \in bkLoads, LoadShows(l) PROVE BooksInv'
<1>1. PICK txs, bal, books, new :
        /\ txs = (IF l.got = "txs" THEN l.txs ELSE bkTx)
        /\ bal = (IF l.got = "bal" THEN l.bal ELSE bkAvail[l.s])
        /\ books = LocalBooks(txs, bal, l.s) /\ new = LoadOf(l.s, "server")
  OBVIOUS
<1>2. /\ DbStill /\ bkLoads' = (bkLoads \ {l}) \cup {new}
      /\ UNCHANGED <<bkActive, bkSel, bkOpening, bkEdits, bkReads, bkLive, bkSheet, bkLiveOld>>
  BY <1>1 DEF LoadShows, DbStill, bookDbVars, bookSheetVars
<1>3. /\ IF books # {} THEN ShowBooks(l.s, txs, bal, books) /\ bkLoading' = FALSE
         ELSE /\ bkList' = IF bkCache[l.s] # {} THEN bkCache[l.s] ELSE bkList
              /\ bkFresh' = FALSE /\ UNCHANGED <<bkCache, bkMem, bkLoading>>
      /\ bkCrossed' = (bkCrossed \/ (books = {} /\ \E b \in bkList' : b.s # l.s))
      /\ bkOverlap' = (bkOverlap \/ \E t \in txs : t.n \in bkDeleted)
  BY <1>1, Zenon DEF LoadShows
<1>4. IsLoad(l) /\ bkTx \subseteq BookTxs /\ l.s \in BookStores /\ txs \subseteq BookTxs
  <2>1. IsLoad(l) /\ bkTx \subseteq BookTxs
    BY DEF BooksInv, ViewTypes, LogTypes
  <2> QED
    BY <1>1, <2>1 DEF IsLoad
<1>5. IsLoad(new) /\ new.s = l.s
  BY <1>1, <1>4, LoadOfFacts
<1>6. \A b \in books : IsBook(b) /\ b.s = l.s /\ b.loc = TRUE
  <2>1. \A b \in LocalBooks(txs, bal, l.s) : IsBook(b) /\ b.s = l.s /\ b.loc = TRUE
    BY <1>4, LocalBookFacts
  <2> QED
    BY <1>1, <2>1, Zenon
<1>7. LogTypes /\ ViewTypes /\ DetailInv /\ OfActive /\ GoneInv /\ LiveInv /\ LogNumbersInv
  BY DEF BooksInv
<1>8. /\ \A b \in bkList' : IsBook(b)
      /\ bkCache' = [x \in BookStores |-> bkCache'[x]]
      /\ \A x \in BookStores : \A b \in bkCache'[x] : IsBook(b) /\ b.s = x
      /\ \A m \in bkMem' : IsDetail(m)
      /\ \A x, y \in bkMem' : SameId(x.book, y.book) => x = y
      /\ \A m \in bkMem' : m \in bkMem \/ LocalDetail(m, txs, l.s)
      /\ bkLoading' \in BOOLEAN /\ bkFresh' \in BOOLEAN
      /\ books # {} => bkList' = books
      /\ bkFresh' => bkList' = books /\ txs = bkTx /\ bal = bkAvail[l.s]
      /\ bkList' = books \/ bkList' = bkCache[l.s] \/ bkList' = bkList
  <2>1. CASE books # {}
    <3>1. ShowBooks(l.s, txs, bal, books) /\ bkLoading' = FALSE
      BY <1>3, <2>1
    <3>2. /\ bkList' = books
          /\ bkCache' = [x \in BookStores |-> bkCache'[x]]
          /\ \A x \in BookStores : \A b \in bkCache'[x] : IsBook(b) /\ b.s = x
          /\ \A m \in bkMem' : IsDetail(m)
          /\ \A x, y \in bkMem' : SameId(x.book, y.book) => x = y
          /\ \A m \in bkMem' : m \in bkMem \/ LocalDetail(m, txs, l.s)
          /\ bkFresh' = (txs = bkTx /\ bal = bkAvail[l.s])
      BY <3>1, <1>4, <1>6, ShowBooksFacts
    <3> QED
      BY <3>1, <3>2, <1>6
  <2>2. CASE books = {}
    <3>1. /\ bkList' = (IF bkCache[l.s] # {} THEN bkCache[l.s] ELSE bkList) /\ bkFresh' = FALSE
          /\ bkCache' = bkCache /\ bkMem' = bkMem /\ bkLoading' = bkLoading
      BY <1>3, <2>2
    <3> QED
      BY <3>1, <1>4, <1>7, <2>2 DEF ViewTypes, DetailInv, LogTypes
  <2> QED
    BY <2>1, <2>2
<1>9. /\ bkCrossed' \in BOOLEAN /\ bkOverlap' \in BOOLEAN /\ (~bkCrossed' => ~bkCrossed)
      /\ ~bkOverlap' => ~bkOverlap /\ \A t \in txs : t.n \notin bkDeleted
  BY <1>3, <1>7 DEF LogTypes
<1>10. LogTypes'
  BY <1>2, <1>7, <1>8, <1>9 DEF LogTypes, DbStill
<1>11. ViewTypes'
  BY <1>2, <1>5, <1>7, <1>8 DEF ViewTypes
<1>12. DetailInv'
  BY <1>2, <1>7, <1>8 DEF DetailInv
<1>13. GoneInv'
  <2>1. bkDeleted' = bkDeleted
    BY <1>2 DEF DbStill
  <2>2. ASSUME ~bkOverlap', NEW m \in bkMem' PROVE Clean(m)'
    <3>1. \A e \in m.es : e.n \notin bkDeleted
      BY <1>7, <1>8, <1>9, <2>2 DEF GoneInv, Clean, LocalDetail
    <3> QED
      BY <2>1, <3>1 DEF Clean
  <2> QED
    BY <1>2, <1>7, <1>9, <2>1, <2>2 DEF GoneInv, Clean
<1>14. ~bkCrossed' => \A b \in bkList' : b.s = l.s
  BY <1>3, <1>6, <1>8
<1>15. OfActive'
  BY <1>2, <1>5, <1>7, <1>9, <1>14 DEF OfActive
<1>16. ListedInv'
  <2> SUFFICES ASSUME bkFresh', ~bkCrossed'
               PROVE  {b \in bkList' : b.loc} = LocalBooks(bkTx', bkAvail'[bkActive'], bkActive')
    BY DEF ListedInv
  <2>1. l.s = bkActive
    BY <1>7, <1>9 DEF OfActive
  <2>2. bkList' = LocalBooks(bkTx, bkAvail[bkActive], bkActive)
    BY <1>1, <1>8, <2>1
  <2>3. {b \in bkList' : b.loc} = bkList'
    BY <1>6, <1>8
  <2> QED
    BY <1>2, <2>2, <2>3 DEF DbStill
<1>17. LiveInv'
  BY <1>2, <1>7 DEF LiveInv, DbStill
<1> QED
  BY <1>2, <1>7, <1>10, <1>11, <1>12, <1>13, <1>15, <1>16, <1>17, NumbersStill DEF BooksInv

LEMMA ServerAnswersKeeps ==
    ASSUME BooksInv, NEW l \in bkLoads, NEW ok \in BOOLEAN, ServerAnswers(l, ok) PROVE BooksInv'
<1>1. PICK bal, own, theirs, books :
        /\ bal = bkAvail[l.s] /\ own = LocalBooks(bkTx, bal, l.s) /\ theirs = ServerBooks(l.s)
        /\ books = Merge(own, theirs)
  OBVIOUS
<1>2. /\ DbStill /\ bkLoads' = bkLoads \ {l} /\ l.ph = "server" /\ bkLoading' = FALSE
      /\ UNCHANGED <<bkActive, bkSel, bkOpening, bkEdits, bkReads, bkLive, bkSheet, bkLiveOld, bkCrossed, bkOverlap>>
  BY DEF ServerAnswers, DbStill, bookDbVars, bookSheetVars
<1>3. IF ok THEN ShowBooks(l.s, bkTx, bal, books) ELSE UNCHANGED <<bkList, bkCache, bkMem, bkFresh>>
  BY <1>1, Zenon DEF ServerAnswers
<1>4. IsLoad(l) /\ bkTx \subseteq BookTxs /\ l.s \in BookStores /\ bkSrv \subseteq BookTxs
  BY DEF BooksInv, ViewTypes, LogTypes, IsLoad
<1>6. /\ \A b \in own : IsBook(b) /\ b.s = l.s /\ b.loc = TRUE
      /\ \A b \in theirs : IsBook(b) /\ b.s = l.s /\ b.loc = FALSE
  <2>1. \A b \in LocalBooks(bkTx, bal, l.s) : IsBook(b) /\ b.s = l.s /\ b.loc = TRUE
    BY <1>4, LocalBookFacts
  <2>2. \A b \in ServerBooks(l.s) : IsBook(b) /\ b.s = l.s /\ b.loc = FALSE
    BY <1>4, ServerBookFacts
  <2> QED
    BY <1>1, <2>1, <2>2, Zenon
<1>7. LogTypes /\ ViewTypes /\ DetailInv /\ OfActive /\ GoneInv /\ LiveInv /\ LogNumbersInv /\ ListedInv
  BY DEF BooksInv
<1>8. (\A b \in books : IsBook(b) /\ b.s = l.s) /\ {b \in books : b.loc} = own
  BY <1>1, <1>6 DEF Merge
<1>9. CASE ~ok
  <2>1. UNCHANGED <<bkList, bkCache, bkMem, bkFresh>>
    BY <1>3, <1>9
  <2>2. OpenStill
    BY <1>2, <2>1 DEF OpenStill
  <2>3. LogTypes'
    BY <1>2, <1>7, <2>1 DEF LogTypes, DbStill
  <2>4. ViewTypes'
    BY <1>2, <1>7, <2>1 DEF ViewTypes
  <2>5. OfActive'
    BY <1>2, <1>7, <2>1 DEF OfActive, Switching
  <2>6. ListedInv'
    BY <1>2, <1>7, <2>1 DEF ListedInv, DbStill
  <2> QED
    BY <1>2, <1>7, <2>2, <2>3, <2>4, <2>5, <2>6, NumbersStill, DetailStill, LiveStill, GoneStill
       DEF BooksInv, DbStill
<1>10. CASE ok
  <2>1. /\ bkList' = books
        /\ bkCache' = [x \in BookStores |-> bkCache'[x]]
        /\ \A x \in BookStores : \A b \in bkCache'[x] : IsBook(b) /\ b.s = x
        /\ \A m \in bkMem' : IsDetail(m)
        /\ \A x, y \in bkMem' : SameId(x.book, y.book) => x = y
        /\ \A m \in bkMem' : m \in bkMem \/ LocalDetail(m, bkTx, l.s)
        /\ bkFresh' = (bkTx = bkTx /\ bal = bkAvail[l.s])
    BY <1>3, <1>4, <1>8, <1>10, ShowBooksFacts
  <2>3. LogTypes'
    BY <1>2, <1>7, <2>1 DEF LogTypes, DbStill
  <2>4. ViewTypes'
    BY <1>2, <1>7, <1>8, <2>1 DEF ViewTypes
  <2>5. DetailInv'
    BY <1>2, <1>7, <2>1 DEF DetailInv
  <2>6. OfActive'
    BY <1>2, <1>7, <1>8, <2>1 DEF OfActive
  <2>7. ListedInv'
    <3> SUFFICES ASSUME ~bkCrossed'
                 PROVE  {b \in bkList' : b.loc} = LocalBooks(bkTx', bkAvail'[bkActive'], bkActive')
      BY DEF ListedInv
    <3>1. l.s = bkActive
      BY <1>2, <1>7 DEF OfActive
    <3> QED
      BY <1>1, <1>2, <1>8, <2>1, <3>1 DEF DbStill
  <2>8. GoneInv'
    <3>1. bkDeleted' = bkDeleted /\ \A t \in bkTx : t.n \notin bkDeleted
      BY <1>2, <1>7 DEF DbStill, LogNumbersInv
    <3>2. ASSUME ~bkOverlap, NEW m \in bkMem' PROVE \A e \in m.es : e.n \notin bkDeleted
      BY <1>7, <2>1, <3>1, <3>2 DEF GoneInv, Clean, LocalDetail
    <3> QED
      BY <1>2, <1>7, <3>1, <3>2 DEF GoneInv, Clean
  <2>9. LiveInv'
    BY <1>2, <1>7 DEF LiveInv, DbStill
  <2> QED
    BY <1>2, <1>7, <2>3, <2>4, <2>5, <2>6, <2>7, <2>8, <2>9, NumbersStill DEF BooksInv
<1> QED
  BY <1>9, <1>10

LEMMA loadDayBookDetailKeeps ==
    ASSUME BooksInv, NEW b \in bkList, loadDayBookDetail(b) PROVE BooksInv'
<1>1. /\ DbStill /\ bkSel = {} /\ ~bkLoading
      /\ UNCHANGED <<bkActive, bkLoads, bkList, bkCache, bkEdits, bkLive, bkSheet>>
      /\ UNCHANGED <<bkFresh, bkLiveOld, bkCrossed, bkOverlap>>
  BY DEF loadDayBookDetail, BookOffered, DbStill, bookDbVars
<1>2. /\ LogTypes /\ ViewTypes /\ DetailInv /\ OfActive /\ GoneInv /\ LiveInv /\ LogNumbersInv /\ ListedInv
      /\ IsBook(b) /\ b.s \in BookStores /\ bkTx \subseteq BookTxs
  BY DEF BooksInv, ViewTypes, IsBook, LogTypes
<1>3. ~bkCrossed => b.s = bkActive
  BY <1>1, <1>2 DEF OfActive, Switching
<1>4. ListedInv'
  BY <1>1, <1>2 DEF ListedInv, DbStill
<1>5. CASE ~b.loc
  <2>1. bkOpening' = {b} /\ bkLoading' = TRUE /\ UNCHANGED <<bkMem, bkSel, bkReads>>
    BY <1>5 DEF loadDayBookDetail
  <2>2. OpenStill
    BY <1>1, <2>1 DEF OpenStill
  <2>3. LogTypes'
    BY <1>1, <1>2, <2>1 DEF LogTypes, DbStill
  <2>4. ViewTypes'
    BY <1>1, <1>2, <2>1 DEF ViewTypes, AtMostOne
  <2>5. OfActive'
    BY <1>1, <1>2, <1>3, <2>1 DEF OfActive, Switching
  <2> QED
    BY <1>1, <1>2, <1>4, <2>2, <2>3, <2>4, <2>5, NumbersStill, DetailStill, LiveStill, GoneStill
       DEF BooksInv, DbStill
<1>6. CASE b.loc
  <2>1. PICK opened : opened = IF Remembered(b) # {} THEN Remembered(b)
                             ELSE {m \in LocalDetails(bkTx, bkAvail[b.s], b.s) : m.book.d = b.d}
    OBVIOUS
  <2>2. Remember(opened) /\ setSelectedDayBook(opened) /\ UNCHANGED <<bkOpening, bkLoading>>
    BY <1>6, <2>1, Zenon DEF loadDayBookDetail
  <2>3. /\ Shown(opened) /\ Details(opened) /\ \A x \in opened : x.book.s = b.s
        /\ \A x \in opened : x \in bkMem \/ LocalDetail(x, bkTx, b.s)
    <3>1. CASE Remembered(b) # {}
      BY <1>2, <2>1, <3>1, RememberedShown
    <3>2. CASE Remembered(b) = {}
      <4>1. opened = DayDetails(bkTx, bkAvail[b.s], b.s, b.d)
        BY <2>1, <3>2, Zenon DEF DayDetails
      <4>2. Details(opened) /\ Shown(opened) /\ \A m \in opened : LocalDetail(m, bkTx, b.s)
        BY <1>2, <4>1, LocalDetailsShown
      <4> QED
        BY <4>2 DEF LocalDetail
    <3> QED
      BY <3>1, <3>2
  <2>4. /\ \A m \in bkMem' : IsDetail(m)
        /\ \A x, y \in bkMem' : SameId(x.book, y.book) => x = y
        /\ \A m \in bkMem' : m \in opened \/ (m \in bkMem /\ ~\E x \in opened : SameId(x.book, m.book))
    BY <1>2, <2>2, <2>3, RememberFacts
  <2>5. /\ bkSel' = opened /\ bkReads' \subseteq BookStores /\ bkReads \subseteq bkReads'
        /\ (\A x \in bkSel' : IsDetail(x)) /\ AtMostOne(bkSel')
        /\ bkReads' # {} \/ bkSel' = bkSel \/ \A x \in bkSel' : x.es = {}
    BY <1>2, <2>2, <2>3, SelectedFacts
  <2>6. LogTypes'
    BY <1>1, <1>2, <2>2, <2>5 DEF LogTypes, DbStill
  <2>7. ViewTypes'
    BY <1>1, <1>2, <2>2 DEF ViewTypes
  <2>8. DetailInv'
    BY <2>4, <2>5 DEF DetailInv
  <2>9. OfActive'
    BY <1>1, <1>2, <1>3, <2>2, <2>3, <2>5 DEF OfActive, Switching
  <2>10. GoneInv'
    <3>1. bkDeleted' = bkDeleted /\ \A t \in bkTx : t.n \notin bkDeleted
      BY <1>1, <1>2 DEF DbStill, LogNumbersInv
    <3>2. ASSUME ~bkOverlap, NEW m \in opened PROVE \A e \in m.es : e.n \notin bkDeleted
      BY <1>2, <2>3, <3>1, <3>2 DEF GoneInv, Clean, LocalDetail
    <3>3. ASSUME ~bkOverlap, NEW m \in bkMem' PROVE \A e \in m.es : e.n \notin bkDeleted
      BY <1>2, <2>4, <3>2, <3>3 DEF GoneInv, Clean
    <3> QED
      BY <1>1, <1>2, <2>5, <3>1, <3>2, <3>3 DEF GoneInv, Clean
  <2>11. LiveInv'
    BY <1>1, <1>2, <2>5, LiveKept DEF DbStill
  <2> QED
    BY <1>1, <1>2, <1>4, <2>6, <2>7, <2>8, <2>9, <2>10, <2>11, NumbersStill DEF BooksInv
<1> QED
  BY <1>5, <1>6

LEMMA DetailAnswersKeeps ==
    ASSUME BooksInv, NEW b \in bkOpening, NEW ok \in BOOLEAN, DetailAnswers(b, ok) PROVE BooksInv'
<1>1. /\ DbStill /\ bkOpening' = {} /\ bkLoading' = FALSE
      /\ UNCHANGED <<bkActive, bkLoads, bkList, bkCache, bkMem, bkEdits, bkLive, bkSheet>>
      /\ UNCHANGED <<bkFresh, bkLiveOld, bkCrossed, bkOverlap>>
  BY DEF DetailAnswers, DbStill, bookDbVars
<1>2. /\ LogTypes /\ ViewTypes /\ DetailInv /\ OfActive /\ GoneInv /\ LiveInv /\ LogNumbersInv /\ ListedInv
      /\ IsBook(b) /\ bkTx \subseteq BookTxs
  BY DEF BooksInv, ViewTypes, LogTypes
<1>3. ~bkCrossed => b.s = bkActive
  BY <1>2 DEF OfActive
<1>4. /\ bkReads' \subseteq BookStores /\ bkReads \subseteq bkReads'
      /\ (\A x \in bkSel' : IsDetail(x)) /\ AtMostOne(bkSel')
      /\ bkReads' # {} \/ bkSel' = bkSel \/ \A x \in bkSel' : x.es = {}
      /\ bkSel' = bkSel \/ \A x \in bkSel' : x.book.s = b.s
      /\ bkSel' = bkSel \/ \A x \in bkSel' : x \in bkMem \/ \A e \in x.es : \E t \in bkTx : t.n = e.n
  <2>1. CASE ok
    <3>1. PICK es : es = Reconciled(ServerEntries(b))
      OBVIOUS
    <3>2. \A e \in es : \E t \in bkTx : t.n = e.n
      BY <3>1 DEF Reconciled
    <3>3. PICK x : x = [book |-> b, es |-> es, gen |-> FALSE]
      OBVIOUS
    <3>4. setSelectedDayBook({x})
      BY <2>1, <3>1, <3>3 DEF DetailAnswers
    <3>5. IsDetail(x) /\ x.book = b /\ x.es = es
      BY <1>2, <3>3 DEF IsDetail
    <3>6. Shown({x})
      BY <3>5 DEF Shown, AtMostOne
    <3>7. /\ bkSel' = {x} /\ bkReads' \subseteq BookStores /\ bkReads \subseteq bkReads'
          /\ (\A y \in bkSel' : IsDetail(y)) /\ AtMostOne(bkSel')
          /\ bkReads' # {} \/ bkSel' = bkSel \/ \A y \in bkSel' : y.es = {}
      BY <1>2, <3>4, <3>6, SelectedFacts
    <3> QED
      BY <3>2, <3>5, <3>7
  <2>2. CASE ~ok /\ Remembered(b) # {}
    <3>1. setSelectedDayBook(Remembered(b))
      BY <2>2 DEF DetailAnswers
    <3>2. PICK R : R = Remembered(b)
      OBVIOUS
    <3>3. Shown(R) /\ R \subseteq bkMem /\ \A m \in R : m.book.s = b.s
      BY <1>2, <3>2, RememberedShown
    <3>4. /\ bkSel' = R /\ bkReads' \subseteq BookStores /\ bkReads \subseteq bkReads'
          /\ (\A y \in bkSel' : IsDetail(y)) /\ AtMostOne(bkSel')
          /\ bkReads' # {} \/ bkSel' = bkSel \/ \A y \in bkSel' : y.es = {}
      BY <1>2, <3>1, <3>2, <3>3, SelectedFacts
    <3> QED
      BY <3>3, <3>4
  <2>3. CASE ~ok /\ Remembered(b) = {}
    <3>1. bkSel' = bkSel /\ bkReads' = bkReads
      BY <2>3 DEF DetailAnswers
    <3> QED
      BY <1>2, <3>1 DEF LogTypes, DetailInv, AtMostOne
  <2> QED
    BY <2>1, <2>2, <2>3
<1>5. LogTypes'
  BY <1>1, <1>2, <1>4 DEF LogTypes, DbStill
<1>6. ViewTypes'
  BY <1>1, <1>2 DEF ViewTypes, AtMostOne
<1>7. DetailInv'
  BY <1>1, <1>2, <1>4 DEF DetailInv
<1>8. OfActive'
  BY <1>1, <1>2, <1>3, <1>4 DEF OfActive, Switching
<1>9. GoneInv'
  <2>1. bkDeleted' = bkDeleted /\ \A t \in bkTx : t.n \notin bkDeleted
    BY <1>1, <1>2 DEF DbStill, LogNumbersInv
  <2>2. ASSUME ~bkOverlap, NEW x \in bkSel' PROVE \A e \in x.es : e.n \notin bkDeleted
    BY <1>2, <1>4, <2>1, <2>2 DEF GoneInv, Clean
  <2> QED
    BY <1>1, <1>2, <2>1, <2>2 DEF GoneInv, Clean
<1>10. LiveInv'
  BY <1>1, <1>2, <1>4, LiveKept DEF DbStill
<1>11. ListedInv'
  BY <1>1, <1>2 DEF ListedInv, DbStill
<1> QED
  BY <1>1, <1>2, <1>5, <1>6, <1>7, <1>8, <1>9, <1>10, <1>11, NumbersStill DEF BooksInv

LEMMA EditOfFacts ==
    ASSUME NEW kind, NEW x, IsDetail(x), NEW e, NEW o, o = EditOf(kind, x, e)
    PROVE  IsEdit(o) /\ o.kind = kind /\ o.sel = x /\ o.ph = "command"
  BY DEF IsEdit, EditOf

LEMMA StartEditKeeps ==
    ASSUME BooksInv, NEW x \in bkSel, NEW e \in x.es,
           handleSaveEntryEdit(x, e) \/ handleDeleteEntry(x, e)
    PROVE  BooksInv'
<1>1. PICK o : o = EditOf(IF handleSaveEntryEdit(x, e) THEN "edit" ELSE "delete", x, e)
  OBVIOUS
<1>2. /\ DbStill /\ OpenStill /\ bkEdits' = bkEdits \cup {o}
      /\ UNCHANGED <<bkActive, bkLoads, bkList, bkCache, bkOpening, bkLoading, bkSheet>>
      /\ UNCHANGED <<bkFresh, bkLiveOld, bkCrossed>>
  BY <1>1 DEF handleSaveEntryEdit, handleDeleteEntry, StartEdit, DbStill, OpenStill, bookDbVars, bookSheetVars
<1>3. LogTypes /\ ViewTypes /\ DetailInv /\ OfActive /\ GoneInv /\ LiveInv /\ LogNumbersInv /\ ListedInv
  BY DEF BooksInv
<1>4. /\ bkOverlap' \in BOOLEAN /\ (~bkOverlap' => ~bkOverlap)
      /\ o.kind = "delete" /\ ~bkOverlap' => bkEdits = {}
      /\ IsEdit(o) /\ o.sel = x /\ o.ph = "command"
  <2>1. IsDetail(x) /\ bkOverlap \in BOOLEAN
    BY <1>3 DEF DetailInv, LogTypes
  <2>2. CASE handleSaveEntryEdit(x, e)
    <3>1. bkOverlap' = bkOverlap
      BY <2>2 DEF handleSaveEntryEdit
    <3>2. o = EditOf("edit", x, e)
      BY <1>1, <2>2
    <3> QED
      BY <2>1, <3>1, <3>2, EditOfFacts
  <2>3. CASE ~handleSaveEntryEdit(x, e)
    <3>1. bkOverlap' = (bkOverlap \/ bkEdits # {})
      BY <2>3 DEF handleDeleteEntry
    <3>3. bkOverlap' \in BOOLEAN /\ (~bkOverlap' => ~bkOverlap /\ bkEdits = {})
      BY <2>1, <3>1
    <3>2. o = EditOf("delete", x, e)
      BY <1>1, <2>3
    <3> QED
      BY <2>1, <3>2, <3>3, EditOfFacts
  <2> QED
    BY <2>2, <2>3
<1>5. LogTypes'
  BY <1>2, <1>3, <1>4 DEF LogTypes, DbStill, OpenStill
<1>6. ViewTypes'
  BY <1>2, <1>3, <1>4 DEF ViewTypes
<1>7. OfActive'
  BY <1>2, <1>3, <1>4 DEF OfActive, Switching, OpenStill
<1>8. GoneInv'
  <2> SUFFICES ASSUME ~bkOverlap' PROVE GoneInv'
    BY DEF GoneInv
  <2>1. \A y : Clean(y)' <=> Clean(y)
    BY <1>2 DEF Clean, DbStill
  <2>2. /\ \A m \in bkMem : Clean(m)
        /\ \A y \in bkSel : Clean(y)
        /\ \A p \in bkEdits : p.kind = "delete" /\ p.ph = "command" => Clean(p.sel)
        /\ \A p, q \in bkEdits : p.kind = "delete" /\ q.kind = "delete" => p = q
    BY <1>3, <1>4 DEF GoneInv
  <2>3. Clean(o.sel)
    BY <1>4, <2>2
  <2>4. \A p, q \in bkEdits' : p.kind = "delete" /\ q.kind = "delete" => p = q
    BY <1>2, <1>4, <2>2
  <2> QED
    BY <1>2, <1>4, <2>1, <2>2, <2>3, <2>4 DEF GoneInv, OpenStill
<1>9. ListedInv'
  BY <1>2, <1>3 DEF ListedInv, DbStill
<1> QED
  BY <1>2, <1>3, <1>5, <1>6, <1>7, <1>8, <1>9, NumbersStill, DetailStill, LiveStill
     DEF BooksInv, DbStill

LEMMA EditPhase ==
    ASSUME NEW o, IsEdit(o), NEW ph, NEW new, new = [o EXCEPT !.ph = ph]
    PROVE  IsEdit(new) /\ new.kind = o.kind /\ new.sel = o.sel /\ new.ph = ph /\ new.n = o.n
<1>1. PICK a, b, c, d : o = [kind |-> a, n |-> b, sel |-> c, ph |-> d]
  BY DEF IsEdit
<1>2. new = [kind |-> a, n |-> b, sel |-> c, ph |-> ph] /\ IsDetail(c)
  BY <1>1 DEF IsEdit
<1> QED
  BY <1>1, <1>2 DEF IsEdit

(* The command refuses: the edit is over.                                    *)
LEMMA EditRefusedKeeps ==
    ASSUME BooksInv, NEW o \in bkEdits, DbStill, OpenStill, bkEdits' = bkEdits \ {o},
           UNCHANGED <<bkActive, bkLoads, bkList, bkCache, bkOpening, bkLoading, bkSheet>>,
           UNCHANGED <<bkFresh, bkLiveOld, bkCrossed, bkOverlap>>
    PROVE  BooksInv'
<1>1. LogTypes /\ ViewTypes /\ DetailInv /\ OfActive /\ GoneInv /\ LiveInv /\ LogNumbersInv /\ ListedInv
  BY DEF BooksInv
<1>2. LogTypes'
  BY <1>1 DEF LogTypes, DbStill, OpenStill
<1>3. ViewTypes'
  BY <1>1 DEF ViewTypes
<1>4. OfActive'
  BY <1>1 DEF OfActive, Switching, OpenStill
<1>5. GoneInv'
  BY <1>1 DEF GoneInv, Clean, DbStill, OpenStill
<1>6. ListedInv'
  BY <1>1 DEF ListedInv, DbStill
<1> QED
  BY <1>1, <1>2, <1>3, <1>4, <1>5, <1>6, NumbersStill, DetailStill, LiveStill DEF BooksInv, DbStill

(* The command changes the movement t of the log and its balance.            *)
LogChanged(o, t) ==
    /\ bkTx' = (bkTx \ {t}) \cup (IF o.kind = "edit" THEN {[t EXCEPT !.q = -@]} ELSE {})
    /\ bkAvail' = IF t.k = "bucket" THEN bkAvail
                  ELSE [bkAvail EXCEPT ![t.s] = @ - (IF o.kind = "edit" THEN 2 * t.q ELSE t.q)]
LEMMA LogChangedFacts ==
    ASSUME LogTypes, LogNumbersInv, NEW o, NEW t \in bkTx, LogChanged(o, t)
    PROVE  /\ bkTx' \subseteq BookTxs /\ IsFiniteSet(bkTx') /\ bkAvail' \in [BookStores -> Int]
           /\ \A u \in bkTx' : \E v \in bkTx : v.n = u.n /\ (o.kind # "edit" => v # t)
           /\ \A u, v \in bkTx' : u.n = v.n => u = v
<1>1. t \in BookTxs /\ bkTx \subseteq BookTxs /\ IsFiniteSet(bkTx) /\ bkAvail \in [BookStores -> Int]
  BY DEF LogTypes
<1>2. t.s \in BookStores /\ t.q \in {1, -1} /\ t.n \in Nat
  BY <1>1 DEF BookTxs
<1>3. PICK new : new = [t EXCEPT !.q = -@]
  OBVIOUS
<1>4. new \in BookTxs /\ new.n = t.n
  BY <1>1, <1>2, <1>3 DEF BookTxs
<1>5. bkAvail' \in [BookStores -> Int]
  <2>1. CASE t.k = "bucket"
    BY <1>1, <2>1 DEF LogChanged
  <2>2. CASE t.k # "bucket"
    <3>1. PICK a \in Int : a = bkAvail[t.s] - (IF o.kind = "edit" THEN 2 * t.q ELSE t.q)
      BY <1>1, <1>2
    <3>2. bkAvail' = [bkAvail EXCEPT ![t.s] = a]
      BY <2>2, <3>1 DEF LogChanged
    <3> QED
      BY <1>1, <1>2, <3>1, <3>2
  <2> QED
    BY <2>1, <2>2
<1>6. PICK rest : rest = bkTx \ {t}
  OBVIOUS
<1>7. bkTx' = rest \cup {new} \/ (o.kind # "edit" /\ bkTx' = rest)
  BY <1>3, <1>6 DEF LogChanged
<1>8. IsFiniteSet(rest) /\ IsFiniteSet(rest \cup {new})
  BY <1>1, <1>6, FS_Subset, FS_AddElement
<1>9. o.kind # "edit" => bkTx' = rest
  BY <1>6 DEF LogChanged
<1>10. /\ \A u, v \in bkTx : u.n = v.n => u = v
       /\ rest \subseteq bkTx /\ t \notin rest /\ rest \subseteq BookTxs
  BY <1>1, <1>6 DEF LogNumbersInv
<1>11. bkTx' \subseteq BookTxs /\ IsFiniteSet(bkTx')
  BY <1>4, <1>7, <1>8, <1>10
<1>12. \A u \in bkTx' : \E v \in bkTx : v.n = u.n /\ (o.kind # "edit" => v # t)
  BY <1>4, <1>7, <1>9, <1>10
<1>13. \A u, v \in bkTx' : u.n = v.n => u = v
  BY <1>4, <1>7, <1>10
<1> QED
  BY <1>5, <1>11, <1>12, <1>13

LEMMA EditRunsKeeps ==
    ASSUME BooksInv, NEW o \in bkEdits, NEW ok \in BOOLEAN, EditRuns(o, ok) PROVE BooksInv'
<1>1. /\ UNCHANGED <<bkSrv, bkMoves, bkActive, bkLoads, bkList, bkCache, bkOpening, bkLoading, bkLive>>
      /\ UNCHANGED <<bkSheet, bkBadSheet, bkCrossed>> /\ o.ph = "command"
  BY DEF EditRuns
<1>2. PICK ts : ts = {t \in bkTx : t.n = o.n}
  OBVIOUS
<1>3. CASE ~(ok /\ ts # {})
  <2>1. /\ bkEdits' = bkEdits \ {o}
        /\ UNCHANGED <<bkTx, bkAvail, bkMem, bkSel, bkReads, bkDeleted, bkOverlap, bkFresh, bkLiveOld>>
    BY <1>2, <1>3, Zenon DEF EditRuns
  <2>2. DbStill /\ OpenStill
    BY <1>1, <2>1 DEF DbStill, OpenStill
  <2> QED
    BY <1>1, <2>1, <2>2, EditRefusedKeeps
<1>4. CASE ok /\ ts # {}
  <2>1. PICK new : new = [o EXCEPT !.ph = "rebuild"]
    OBVIOUS
  <2>2. /\ \E t \in ts : LogChanged(o, t)
        /\ IF o.kind = "delete"
           THEN LET x == [o.sel EXCEPT !.es = {e \in @ : e.n # o.n}] IN
                /\ Remember({x}) /\ setSelectedDayBook({x}) /\ bkDeleted' = bkDeleted \cup {o.n}
                /\ bkOverlap' = (bkOverlap \/ InOtherBook(o))
           ELSE UNCHANGED <<bkMem, bkSel, bkReads, bkDeleted, bkOverlap>>
        /\ bkFresh' = FALSE /\ bkLiveOld' = TRUE
        /\ bkEdits' = (bkEdits \ {o}) \cup {new}
    BY <1>2, <1>4, <2>1, Zenon DEF EditRuns, StockChanges, LogChanged
  <2>3. PICK t \in bkTx : t.n = o.n /\ LogChanged(o, t)
    BY <1>2, <2>2
  <2>4. LogTypes /\ ViewTypes /\ DetailInv /\ OfActive /\ GoneInv /\ LiveInv /\ LogNumbersInv
    BY DEF BooksInv
  <2>5. /\ bkTx' \subseteq BookTxs /\ IsFiniteSet(bkTx') /\ bkAvail' \in [BookStores -> Int]
        /\ \A u \in bkTx' : \E v \in bkTx : v.n = u.n /\ (o.kind # "edit" => v # t)
        /\ \A u, v \in bkTx' : u.n = v.n => u = v
    BY <2>3, <2>4, LogChangedFacts
  <2>6. /\ IsEdit(o) /\ IsEdit(new) /\ new.kind = o.kind /\ new.sel = o.sel /\ new.ph = "rebuild"
        /\ IsDetail(o.sel)
    <3>1. IsEdit(o)
      BY <2>4 DEF ViewTypes
    <3> QED
      BY <2>1, <3>1, EditPhase DEF IsEdit
  <2>7. ViewTypes'
    BY <1>1, <2>2, <2>4, <2>6 DEF ViewTypes
  <2>8. ListedInv'
    BY <2>2 DEF ListedInv
  <2>9. LiveInv'
    BY <2>2 DEF LiveInv
  <2>10. CASE o.kind # "delete"
    <3>1. UNCHANGED <<bkMem, bkSel, bkReads, bkDeleted, bkOverlap>>
      BY <2>2, <2>10
    <3>2. LogTypes'
      BY <1>1, <2>2, <2>4, <2>5, <3>1 DEF LogTypes
    <3>3. DetailInv'
      BY <2>4, <3>1 DEF DetailInv
    <3>4. LogNumbersInv'
      BY <1>1, <2>4, <2>5, <3>1 DEF LogNumbersInv
    <3>5. OfActive'
      BY <1>1, <2>2, <2>4, <2>6, <3>1 DEF OfActive, Switching
    <3>6. GoneInv'
      BY <2>2, <2>4, <2>6, <2>10, <3>1 DEF GoneInv, Clean
    <3> QED
      BY <2>7, <2>8, <2>9, <3>2, <3>3, <3>4, <3>5, <3>6 DEF BooksInv
  <2>11. CASE o.kind = "delete"
    <3>1. PICK x : x = [o.sel EXCEPT !.es = {e \in @ : e.n # o.n}]
      OBVIOUS
    <3>2. /\ Remember({x}) /\ setSelectedDayBook({x}) /\ bkDeleted' = bkDeleted \cup {o.n}
          /\ bkOverlap' = (bkOverlap \/ InOtherBook(o))
      BY <2>2, <2>11, <3>1, Zenon
    <3>3. IsDetail(x) /\ x.book = o.sel.book /\ \A e \in x.es : e \in o.sel.es /\ e.n # o.n
      <4>1. PICK a, b, c : o.sel = [book |-> a, es |-> b, gen |-> c]
        BY <2>6 DEF IsDetail
      <4>2. PICK es : es = {e \in o.sel.es : e.n # o.n}
        OBVIOUS
      <4>5. x = [o.sel EXCEPT !.es = es]
        BY <3>1, <4>2, Zenon
      <4>3. x = [book |-> a, es |-> es, gen |-> c]
        BY <4>1, <4>5
      <4> QED
        BY <2>6, <4>1, <4>2, <4>3 DEF IsDetail
    <3>4. Details({x}) /\ Shown({x})
      BY <3>3 DEF Details, Shown, AtMostOne
    <3>5. /\ \A m \in bkMem' : IsDetail(m)
          /\ \A y, z \in bkMem' : SameId(y.book, z.book) => y = z
          /\ \A m \in bkMem' : m \in {x} \/ (m \in bkMem /\ ~\E y \in {x} : SameId(y.book, m.book))
      BY <2>4, <3>2, <3>4, RememberFacts
    <3>6. /\ bkSel' = {x} /\ bkReads' \subseteq BookStores /\ bkReads \subseteq bkReads'
          /\ (\A y \in bkSel' : IsDetail(y)) /\ AtMostOne(bkSel')
      BY <2>4, <3>2, <3>4, SelectedFacts
    <3>7. bkOverlap' \in BOOLEAN /\ (~bkOverlap' => ~bkOverlap /\ ~InOtherBook(o))
      <4>1. InOtherBook(o) \in BOOLEAN
        BY DEF InOtherBook
      <4> QED
        BY <2>4, <3>2, <4>1 DEF LogTypes
    <3>8. LogTypes'
      BY <1>1, <2>2, <2>4, <2>5, <3>6, <3>7 DEF LogTypes
    <3>9. DetailInv'
      BY <3>5, <3>6 DEF DetailInv
    <3>10. LogNumbersInv'
      <4>1. o.n \in 1 .. (bkMoves + 1) /\ \A v \in bkTx : v # t => v.n # o.n
        BY <2>3, <2>4 DEF LogNumbersInv
      <4> QED
        BY <1>1, <2>4, <2>5, <2>11, <3>2, <4>1 DEF LogNumbersInv
    <3>11. OfActive'
      <4>1. ~bkCrossed => o.sel.book.s = bkActive /\ ~Switching
        BY <2>4 DEF OfActive, Switching
      <4> QED
        BY <1>1, <2>2, <2>4, <2>6, <3>3, <3>6, <4>1 DEF OfActive
    <3>12. GoneInv'
      <4> SUFFICES ASSUME ~bkOverlap' PROVE GoneInv'
        BY DEF GoneInv
      <4>1. /\ \A m \in bkMem : Clean(m)
            /\ Clean(o.sel)
            /\ \A p \in bkEdits : p.kind = "delete" => p = o
        BY <1>1, <2>4, <2>11, <3>7 DEF GoneInv
      <4>2. \A p \in bkEdits' : p.kind = "delete" => p = new
        BY <2>2, <4>1
      <4>3. Clean(x)'
        BY <3>2, <3>3, <4>1 DEF Clean
      <4>4. ASSUME NEW m \in bkMem' PROVE Clean(m)'
        <5>1. CASE m = x
          BY <4>3, <5>1
        <5>2. CASE m # x
          <6>1. m \in bkMem /\ ~SameId(x.book, m.book)
            BY <3>5, <5>2
          <6>2. ~SameId(m.book, o.sel.book)
            BY <3>3, <6>1 DEF SameId
          <6>3. \A e \in m.es : e.n # o.n
            BY <3>7, <6>1, <6>2 DEF InOtherBook
          <6> QED
            BY <3>2, <4>1, <6>1, <6>3 DEF Clean
        <5> QED
          BY <5>1, <5>2
      <4>5. \A y \in bkSel' : Clean(y)'
        BY <3>6, <4>3
      <4> QED
        BY <2>6, <4>2, <4>4, <4>5 DEF GoneInv
    <3> QED
      BY <2>7, <2>8, <2>9, <3>8, <3>9, <3>10, <3>11, <3>12 DEF BooksInv
  <2> QED
    BY <2>10, <2>11
<1> QED
  BY <1>3, <1>4

LEMMA refreshDetailAfterMutationKeeps ==
    ASSUME BooksInv, NEW o \in bkEdits, refreshDetailAfterMutation(o) PROVE BooksInv'
<1>1. PICK b, s, books, rebuilt, new :
        /\ b = o.sel.book /\ s = b.s /\ books = LocalBooks(bkTx, bkAvail[s], s)
        /\ rebuilt = (IF b.loc THEN DayDetails(bkTx, bkAvail[s], s, b.d) ELSE {})
        /\ new = [o EXCEPT !.ph = "server"]
  OBVIOUS
<1>2. /\ DbStill
      /\ bkList' = (IF books # {} THEN Merge(books, bkList) ELSE bkList)
      /\ bkCache' = [bkCache EXCEPT ![s] = {}]
      /\ bkEdits' = (bkEdits \ {o}) \cup (IF b.loc THEN {} ELSE {new})
      /\ UNCHANGED <<bkActive, bkLoads, bkOpening, bkLoading, bkLive, bkSheet>>
      /\ UNCHANGED <<bkFresh, bkLiveOld, bkCrossed, bkOverlap>> /\ o.ph = "rebuild"
  BY <1>1, Zenon DEF refreshDetailAfterMutation, DbStill, bookDbVars
<1>3. IF rebuilt # {} THEN Remember(rebuilt) /\ setSelectedDayBook(rebuilt)
      ELSE UNCHANGED <<bkMem, bkSel, bkReads>>
  BY <1>1, Zenon DEF refreshDetailAfterMutation, RebuildDetail, DayDetails
<1>4. LogTypes /\ ViewTypes /\ DetailInv /\ OfActive /\ GoneInv /\ LiveInv /\ LogNumbersInv /\ ListedInv
  BY DEF BooksInv
<1>5. /\ IsEdit(o) /\ IsDetail(o.sel) /\ IsBook(b) /\ s \in BookStores /\ bkTx \subseteq BookTxs
      /\ IsEdit(new) /\ new.kind = o.kind /\ new.sel = o.sel /\ new.ph = "server"
  <2>1. IsEdit(o) /\ bkTx \subseteq BookTxs
    BY <1>4 DEF ViewTypes, LogTypes
  <2>2. IsDetail(o.sel)
    BY <2>1 DEF IsEdit
  <2>3. IsBook(b) /\ s \in BookStores
    BY <1>1, <2>2 DEF IsDetail, IsBook
  <2> QED
    BY <1>1, <2>1, <2>2, <2>3, EditPhase
<1>6. ~bkCrossed => s = bkActive /\ ~Switching
  BY <1>1, <1>4 DEF OfActive, Switching
<1>7. \A x \in books : IsBook(x) /\ x.s = s /\ x.loc = TRUE
  <2>1. \A x \in LocalBooks(bkTx, bkAvail[s], s) : IsBook(x) /\ x.s = s /\ x.loc = TRUE
    BY <1>5, LocalBookFacts
  <2> QED
    BY <1>1, <2>1, Zenon
<1>8. bkList' \subseteq books \cup bkList
  BY <1>2 DEF Merge
<1>9. /\ Shown(rebuilt) /\ Details(rebuilt) /\ \A x \in rebuilt : LocalDetail(x, bkTx, s)
  <2>1. CASE b.loc
    BY <1>1, <1>5, <2>1, LocalDetailsShown
  <2>2. CASE ~b.loc
    BY <1>1, <2>2 DEF Shown, Details, AtMostOne
  <2> QED
    BY <2>1, <2>2
<1>10. /\ \A m \in bkMem' : IsDetail(m)
       /\ \A x, y \in bkMem' : SameId(x.book, y.book) => x = y
       /\ \A m \in bkMem' : m \in rebuilt \/ m \in bkMem
       /\ bkReads' \subseteq BookStores /\ bkReads \subseteq bkReads'
       /\ (\A x \in bkSel' : IsDetail(x)) /\ AtMostOne(bkSel')
       /\ bkReads' # {} \/ bkSel' = bkSel \/ \A x \in bkSel' : x.es = {}
       /\ bkSel' = bkSel \/ bkSel' = rebuilt
  <2>1. CASE rebuilt = {}
    <3>1. bkMem' = bkMem /\ bkSel' = bkSel /\ bkReads' = bkReads
      BY <1>3, <2>1
    <3> QED
      BY <1>4, <3>1 DEF DetailInv, LogTypes, AtMostOne
  <2>2. CASE rebuilt # {}
    <3>1. Remember(rebuilt) /\ setSelectedDayBook(rebuilt)
      BY <1>3, <2>2
    <3>2. /\ \A m \in bkMem' : IsDetail(m)
          /\ \A x, y \in bkMem' : SameId(x.book, y.book) => x = y
          /\ \A m \in bkMem' : m \in rebuilt \/ (m \in bkMem /\ ~\E x \in rebuilt : SameId(x.book, m.book))
      BY <1>4, <1>9, <3>1, RememberFacts
    <3>3. /\ bkSel' = rebuilt /\ bkReads' \subseteq BookStores /\ bkReads \subseteq bkReads'
          /\ (\A x \in bkSel' : IsDetail(x)) /\ AtMostOne(bkSel')
          /\ bkReads' # {} \/ bkSel' = bkSel \/ \A x \in bkSel' : x.es = {}
      BY <1>4, <1>9, <3>1, SelectedFacts
    <3> QED
      BY <3>2, <3>3
  <2> QED
    BY <2>1, <2>2
<1>11. LogTypes'
  BY <1>2, <1>4, <1>10 DEF LogTypes, DbStill
<1>12. ViewTypes'
  <2>1. /\ bkCache' = [x \in BookStores |-> bkCache'[x]]
        /\ \A x \in BookStores : bkCache'[x] = IF x = s THEN {} ELSE bkCache[x]
    BY <1>2, <1>4 DEF ViewTypes
  <2>2. \A p \in bkEdits' : p = new \/ p \in bkEdits
    BY <1>2
  <2>3. bkLoads' = bkLoads /\ bkOpening' = bkOpening
    BY <1>2
  <2> QED
    BY <1>4, <1>5, <1>7, <1>8, <2>1, <2>2, <2>3 DEF ViewTypes
<1>13. DetailInv'
  BY <1>10 DEF DetailInv
<1>14. OfActive'
  <2>1. \A p \in bkEdits' : p = new \/ p \in bkEdits
    BY <1>2
  <2>2. bkLoads' = bkLoads /\ bkOpening' = bkOpening /\ bkActive' = bkActive /\ bkCrossed' = bkCrossed
    BY <1>2
  <2>3. \A x \in rebuilt : x.book.s = s
    BY <1>9 DEF LocalDetail
  <2> QED
    BY <1>1, <1>4, <1>5, <1>6, <1>7, <1>8, <1>10, <2>1, <2>2, <2>3 DEF OfActive
<1>15. GoneInv'
  <2>1. bkDeleted' = bkDeleted /\ \A t \in bkTx : t.n \notin bkDeleted
    BY <1>2, <1>4 DEF DbStill, LogNumbersInv
  <2>2. \A x \in rebuilt : \A e \in x.es : e.n \notin bkDeleted
    BY <1>9, <2>1 DEF LocalDetail
  <2>3. \A p \in bkEdits' : p = new \/ (p \in bkEdits /\ p # o)
    BY <1>2
  <2>4. bkOverlap' = bkOverlap
    BY <1>2
  <2> SUFFICES ASSUME ~bkOverlap PROVE GoneInv'
    BY <2>4 DEF GoneInv
  <2>5. \A x \in bkMem' \cup bkSel' : Clean(x)'
    BY <1>4, <1>10, <2>1, <2>2 DEF GoneInv, Clean
  <2>6. \A p \in bkEdits' : p.kind = "delete" /\ p.ph = "command" => Clean(p.sel)'
    BY <1>4, <1>5, <2>1, <2>3 DEF GoneInv, Clean
  <2>7. \A p, q \in bkEdits' : p.kind = "delete" /\ q.kind = "delete" => p = q
    BY <1>4, <1>5, <2>3 DEF GoneInv
  <2> QED
    BY <2>5, <2>6, <2>7 DEF GoneInv
<1>16. LiveInv'
  BY <1>2, <1>4, <1>10, LiveKept DEF DbStill
<1>17. ListedInv'
  <2> SUFFICES ASSUME bkFresh, ~bkCrossed
               PROVE  {x \in bkList' : x.loc} = books
    <3>1. bkTx' = bkTx /\ bkAvail' = bkAvail /\ bkActive' = bkActive /\ bkFresh' = bkFresh /\ bkCrossed' = bkCrossed
      BY <1>2 DEF DbStill
    <3> QED
      BY <1>1, <1>6, <3>1 DEF ListedInv
  <2>1. {x \in bkList : x.loc} = books
    BY <1>1, <1>4, <1>6 DEF ListedInv
  <2> QED
    BY <1>2, <1>7, <2>1 DEF Merge
<1> QED
  BY <1>2, <1>4, <1>11, <1>12, <1>13, <1>14, <1>15, <1>16, <1>17, NumbersStill DEF BooksInv

LEMMA RefreshFromServerKeeps ==
    ASSUME BooksInv, NEW o \in bkEdits, NEW ok \in BOOLEAN, RefreshFromServer(o, ok) PROVE BooksInv'
<1>1. PICK b, books, es, x, sel :
        /\ b = o.sel.book /\ books = ServerBooks(b.s) /\ es = ServerEntries(b)
        /\ x = [book |-> b, es |-> es, gen |-> FALSE]
        /\ sel = (IF Remembered(b) # {} THEN Remembered(b) ELSE {x})
  OBVIOUS
<1>2. /\ DbStill /\ bkEdits' = bkEdits \ {o}
      /\ UNCHANGED <<bkActive, bkLoads, bkMem, bkOpening, bkLoading, bkLive, bkSheet, bkLiveOld, bkCrossed>>
  BY DEF RefreshFromServer, DbStill, bookDbVars
<1>3. IF ok THEN /\ setSelectedDayBook(sel)
                 /\ bkList' = books /\ bkCache' = [bkCache EXCEPT ![b.s] = books]
                 /\ bkFresh' = FALSE
                 /\ bkOverlap' = (bkOverlap \/ (Remembered(b) = {} /\ \E e \in es : e.n \in bkDeleted))
      ELSE UNCHANGED <<bkSel, bkReads, bkList, bkCache, bkFresh, bkOverlap>>
  BY <1>1, Zenon DEF RefreshFromServer
<1>4. CASE ~ok
  <2>1. OpenStill /\ UNCHANGED <<bkActive, bkLoads, bkList, bkCache, bkOpening, bkLoading, bkSheet>>
        /\ UNCHANGED <<bkFresh, bkLiveOld, bkCrossed, bkOverlap>>
    BY <1>2, <1>3, <1>4 DEF OpenStill
  <2> QED
    BY <1>2, <2>1, EditRefusedKeeps
<1>5. CASE ok
  <2>1. LogTypes /\ ViewTypes /\ DetailInv /\ OfActive /\ GoneInv /\ LiveInv /\ LogNumbersInv
    BY DEF BooksInv
  <2>2. IsBook(b) /\ b.s \in BookStores /\ bkSrv \subseteq BookTxs
    BY <1>1, <2>1 DEF ViewTypes, IsEdit, IsDetail, IsBook, LogTypes
  <2>3. ~bkCrossed => b.s = bkActive /\ ~Switching
    BY <1>1, <2>1 DEF OfActive, Switching
  <2>4. \A y \in books : IsBook(y) /\ y.s = b.s
    <3>1. \A y \in ServerBooks(b.s) : IsBook(y) /\ y.s = b.s
      BY <2>2, ServerBookFacts
    <3> QED
      BY <1>1, <3>1, Zenon
  <2>5. IsDetail(x) /\ x.book = b /\ x.es = es
    BY <1>1, <2>2 DEF IsDetail
  <2>6. /\ Shown(sel) /\ \A y \in sel : y.book.s = b.s
        /\ (sel \subseteq bkMem \/ (sel = {x} /\ Remembered(b) = {}))
    <3>1. CASE Remembered(b) # {}
      BY <1>1, <2>1, <3>1, RememberedShown
    <3>2. CASE Remembered(b) = {}
      BY <1>1, <2>5, <3>2 DEF Shown, AtMostOne
    <3> QED
      BY <3>1, <3>2
  <2>7. /\ setSelectedDayBook(sel) /\ bkList' = books /\ bkCache' = [bkCache EXCEPT ![b.s] = books]
        /\ bkFresh' = FALSE
        /\ bkOverlap' = (bkOverlap \/ (Remembered(b) = {} /\ \E e \in es : e.n \in bkDeleted))
    BY <1>3, <1>5
  <2>8. /\ bkSel' = sel /\ bkReads' \subseteq BookStores /\ bkReads \subseteq bkReads'
        /\ (\A y \in bkSel' : IsDetail(y)) /\ AtMostOne(bkSel')
        /\ bkReads' # {} \/ bkSel' = bkSel \/ \A y \in bkSel' : y.es = {}
    BY <2>1, <2>6, <2>7, SelectedFacts
  <2>9. /\ bkOverlap' \in BOOLEAN /\ (~bkOverlap' => ~bkOverlap)
        /\ ~bkOverlap' /\ Remembered(b) = {} => \A e \in es : e.n \notin bkDeleted
    BY <2>1, <2>7 DEF LogTypes
  <2>10. LogTypes'
    BY <1>2, <2>1, <2>7, <2>8, <2>9 DEF LogTypes, DbStill
  <2>11. ViewTypes'
    <3>1. /\ bkCache' = [y \in BookStores |-> bkCache'[y]]
          /\ \A y \in BookStores : bkCache'[y] = IF y = b.s THEN books ELSE bkCache[y]
      BY <2>1, <2>7 DEF ViewTypes
    <3>2. bkLoads' = bkLoads /\ bkOpening' = bkOpening /\ bkEdits' = bkEdits \ {o} /\ bkList' = books
      BY <1>2, <2>7
    <3> QED
      BY <2>1, <2>4, <3>1, <3>2 DEF ViewTypes
  <2>12. DetailInv'
    BY <1>2, <2>1, <2>8 DEF DetailInv
  <2>13. OfActive'
    BY <1>2, <2>1, <2>3, <2>4, <2>6, <2>7, <2>8 DEF OfActive
  <2>14. GoneInv'
    <3>1. bkDeleted' = bkDeleted /\ bkMem' = bkMem /\ bkEdits' = bkEdits \ {o}
      BY <1>2 DEF DbStill
    <3>2. ASSUME ~bkOverlap', NEW y \in sel PROVE \A e \in y.es : e.n \notin bkDeleted
      BY <2>1, <2>5, <2>6, <2>9, <3>2 DEF GoneInv, Clean
    <3> QED
      BY <2>1, <2>8, <2>9, <3>1, <3>2 DEF GoneInv, Clean
  <2>15. LiveInv'
    BY <1>2, <2>1, <2>8, LiveKept DEF DbStill
  <2>16. ListedInv'
    BY <2>7 DEF ListedInv
  <2> QED
    BY <1>2, <2>1, <2>10, <2>11, <2>12, <2>13, <2>14, <2>15, <2>16, NumbersStill DEF BooksInv
<1> QED
  BY <1>4, <1>5

LEMMA BalanceReadKeeps ==
    ASSUME BooksInv, NEW s \in BookStores, BalanceRead(s) PROVE BooksInv'
<1>1. /\ DbStill /\ bkReads' = bkReads \ {s} /\ bkLive' = {bkAvail[s]}
      /\ bkLiveOld' = (bkReads' # {} \/ \E x \in bkSel : x.book.s # s)
      /\ UNCHANGED <<bkActive, bkLoads, bkList, bkCache, bkMem, bkSel, bkOpening, bkEdits, bkLoading, bkSheet>>
      /\ UNCHANGED <<bkFresh, bkCrossed, bkOverlap>>
  BY DEF BalanceRead, DbStill, bookDbVars, bookViewVars
<1>2. LogTypes /\ ViewTypes /\ DetailInv /\ OfActive /\ GoneInv /\ LiveInv /\ LogNumbersInv /\ ListedInv
  BY DEF BooksInv
<1>3. LogTypes'
  BY <1>1, <1>2 DEF LogTypes, DbStill
<1>4. ViewTypes'
  BY <1>1, <1>2 DEF ViewTypes
<1>5. DetailInv'
  BY <1>1, <1>2 DEF DetailInv
<1>6. OfActive'
  BY <1>1, <1>2 DEF OfActive, Switching
<1>7. GoneInv'
  BY <1>1, <1>2 DEF GoneInv, Clean, DbStill
<1>8. ListedInv'
  BY <1>1, <1>2 DEF ListedInv, DbStill
<1>9. LiveInv'
  BY <1>1 DEF LiveInv, DbStill
<1> QED
  BY <1>1, <1>2, <1>3, <1>4, <1>5, <1>6, <1>7, <1>8, <1>9, NumbersStill DEF BooksInv

(* What the movements of a log add up to, and those of its parts.            *)
LEMMA SumOfParts ==
    ASSUME NEW ts, ts \subseteq BookTxs, IsFiniteSet(ts), NEW P, P \subseteq ts
    PROVE  SumOf(ts) \in Int /\ SumOf(P) \in Int /\ SumOf(ts \ P) \in Int
           /\ SumOf(ts) = SumOf(P) + SumOf(ts \ P)
<1>1. PICK f : f = [t \in ts |-> t.q]
  OBVIOUS
<1>2. \A t \in ts : f[t] \in Int
  BY <1>1 DEF BookTxs
<1>3. ASSUME NEW Q, Q \subseteq ts PROVE SumOf(Q) = SumOver(f, Q) /\ SumOf(Q) \in Int
  <2>1. IsFiniteSet(Q) /\ \A t \in Q : f[t] \in Int
    BY <1>2, <1>3, FS_Subset
  <2>2. PICK g : g = [t \in Q |-> t.q]
    OBVIOUS
  <2>3. \A t \in Q : g[t] = f[t]
    BY <1>1, <1>3, <2>2
  <2>4. SumOver(g, Q) = SumOver(f, Q)
    BY <2>1, <2>3, SumSame
  <2>5. SumOver(f, Q) \in Int
    BY <2>1, SumType
  <2> QED
    BY <2>2, <2>4, <2>5 DEF SumOf
<1>4. SumOver(f, ts) = SumOver(f, P) + SumOver(f, ts \ P)
  BY <1>2, SumSplit
<1> QED
  BY <1>3, <1>4

(* The replay up to a day ends at the balance less what was moved later.     *)
LEMMA ReplayEnds ==
    ASSUME NEW ts, ts \subseteq BookTxs, IsFiniteSet(ts), NEW bal \in Int, NEW d \in Int
    PROVE  CarryOver(ts, bal) + SumOf(UpTo(ts, d)) = bal - SumOf({t \in ts : t.d > d})
<1>1. PICK P : P = UpTo(ts, d)
  OBVIOUS
<1>2. P \subseteq ts /\ ts \ P = {t \in ts : t.d > d}
  <2>1. \A t \in ts : t.d \in Int
    BY DEF BookTxs, Days
  <2> QED
    BY <1>1, <2>1 DEF UpTo
<1>3. SumOf(ts) \in Int /\ SumOf(P) \in Int /\ SumOf(ts \ P) \in Int /\ SumOf(ts) = SumOf(P) + SumOf(ts \ P)
  BY <1>2, SumOfParts
<1>4. PICK a \in Int, b \in Int, c \in Int : a = SumOf(ts) /\ b = SumOf(P) /\ c = SumOf(ts \ P) /\ a = b + c
  BY <1>3
<1>5. (bal - a) + b = bal - c
  BY <1>4
<1>6. CarryOver(ts, bal) + SumOf(P) = bal - SumOf(ts \ P)
  BY <1>4, <1>5, Zenon DEF CarryOver
<1> QED
  BY <1>1, <1>2, <1>6, Zenon

(* Of every day the local books have one, which opens and closes there.      *)
LEMMA BooksBalance ==
    ASSUME LogTypes, NEW s \in BookStores
    PROVE  /\ {b.d : b \in LocalBooks(bkTx, bkAvail[s], s)} = DaysOf(OfStore(bkTx, s))
           /\ \A b \in LocalBooks(bkTx, bkAvail[s], s) :
                  b.c = ClosingOf(s, b.d) /\ b.o = ClosingOf(s, b.d - 1)
<1>1. PICK ts : ts = OfStore(bkTx, s)
  OBVIOUS
<1>2. PICK bal \in Int : bal = bkAvail[s]
  BY DEF LogTypes
<1>3. ts \subseteq BookTxs /\ IsFiniteSet(ts)
  <2>1. ts \subseteq bkTx
    BY <1>1 DEF OfStore
  <2> QED
    BY <2>1, FS_Subset DEF LogTypes
<1>4. LocalBooks(bkTx, bal, s) = {DayBookOf(ts, bal, s, d) : d \in DaysOf(ts)}
  BY <1>1 DEF LocalBooks
<1>5. \A d \in DaysOf(ts) : d \in Int
  BY <1>3 DEF DaysOf, BookTxs, Days
<1>6. ASSUME NEW d \in DaysOf(ts)
      PROVE  /\ DayBookOf(ts, bal, s, d).d = d
             /\ DayBookOf(ts, bal, s, d).c = ClosingOf(s, d)
             /\ DayBookOf(ts, bal, s, d).o = ClosingOf(s, d - 1)
  <2>1. d \in Int /\ d - 1 \in Int
    BY <1>5
  <2>2. /\ CarryOver(ts, bal) + SumOf(UpTo(ts, d)) = bal - SumOf({t \in ts : t.d > d})
        /\ CarryOver(ts, bal) + SumOf(UpTo(ts, d - 1)) = bal - SumOf({t \in ts : t.d > d - 1})
    BY <1>3, <2>1, ReplayEnds
  <2>3. /\ ClosingOf(s, d) = bal - SumOf({t \in ts : t.d > d})
        /\ ClosingOf(s, d - 1) = bal - SumOf({t \in ts : t.d > d - 1})
    BY <1>1, <1>2, Zenon DEF ClosingOf
  <2>4. PICK oo, cc : /\ oo = CarryOver(ts, bal) + SumOf(UpTo(ts, d - 1))
                      /\ cc = CarryOver(ts, bal) + SumOf(UpTo(ts, d))
    OBVIOUS
  <2>5. DayBookOf(ts, bal, s, d) = [s |-> s, d |-> d, loc |-> TRUE, o |-> oo, c |-> cc]
    BY <2>4 DEF DayBookOf
  <2> QED
    BY <2>2, <2>3, <2>4, <2>5
<1>7. {b.d : b \in LocalBooks(bkTx, bal, s)} = DaysOf(ts)
  <2>1. ASSUME NEW d PROVE d \in {b.d : b \in LocalBooks(bkTx, bal, s)} <=> d \in DaysOf(ts)
    BY <1>4, <1>6
  <2> QED
    BY <2>1
<1>8. \A b \in LocalBooks(bkTx, bal, s) : b.c = ClosingOf(s, b.d) /\ b.o = ClosingOf(s, b.d - 1)
  BY <1>4, <1>6
<1> QED
  BY <1>1, <1>2, <1>7, <1>8

LEMMA generateBalanceSheetKeeps ==
    ASSUME BooksInv, NEW x \in bkSel, generateBalanceSheet(x) PROVE BooksInv'
<1>1. /\ UNCHANGED <<bkTx, bkAvail, bkSrv, bkMoves, bkDeleted>> /\ OpenStill
      /\ bkSheet' = TRUE /\ bkLoading' = TRUE /\ x.es # {}
      /\ UNCHANGED <<bkActive, bkLoads, bkList, bkCache, bkOpening, bkEdits>>
      /\ UNCHANGED <<bkFresh, bkLiveOld, bkCrossed, bkOverlap>>
  BY DEF generateBalanceSheet, SheetOffered, OpenStill, bookDbVars
<1>2. LogTypes /\ ViewTypes /\ DetailInv /\ OfActive /\ GoneInv /\ LiveInv /\ LogNumbersInv /\ ListedInv
  BY DEF BooksInv
<1>3. bkBadSheet' = FALSE
  <2>1. /\ bkBadSheet = FALSE
        /\ bkBadSheet' = (bkBadSheet \/ (/\ bkReads = {} /\ ~bkLiveOld /\ ~bkCrossed
                                         /\ LastDay(x) /\ UpToDate(x)
                                         /\ SheetClosing(x) # x.book.c))
    BY <1>2 DEF generateBalanceSheet, LogTypes
  <2>2. ASSUME bkReads = {}, ~bkLiveOld, LastDay(x), UpToDate(x) PROVE SheetClosing(x) = x.book.c
    <3>1. PICK b : b = x.book
      OBVIOUS
    <3>2. PICK s \in BookStores : s = b.s
      BY <1>2, <3>1 DEF DetailInv, IsDetail, IsBook
    <3>3. bkLive = {bkAvail[s]}
      BY <1>1, <1>2, <2>2, <3>1, <3>2 DEF LiveInv
    <3>4. SheetClosing(x) = bkAvail[s]
      BY <3>3 DEF SheetClosing
    <3>5. b \in LocalBooks(bkTx, bkAvail[s], s) /\ b.d \in Int
      <4>1. b.d \in Int
        <5>1. IsBook(b)
          BY <1>2, <3>1 DEF DetailInv, IsDetail
        <5>2. b.d \in Days
          BY <5>1 DEF IsBook
        <5> QED
          BY <5>2 DEF Days
      <4>2. b \in LocalBooks(bkTx, bkAvail[s], s)
        BY <2>2, <3>1, <3>2, Zenon DEF UpToDate
      <4> QED
        BY <4>1, <4>2
    <3>6. b.c = ClosingOf(s, b.d)
      BY <1>2, <3>5, BooksBalance
    <3>7. {t \in OfStore(bkTx, s) : t.d > b.d} = {}
      <4>1. \A t \in OfStore(bkTx, s) : t.d <= b.d /\ t.d \in Int
        BY <1>2, <2>2, <3>1, <3>2 DEF LastDay, OfStore, LogTypes, BookTxs, Days
      <4> QED
        BY <3>5, <4>1
    <3>8. SumOf({}) = 0
      BY SumEmpty DEF SumOf
    <3>9. bkAvail[s] \in Int
      BY <1>2 DEF LogTypes
    <3>10. ClosingOf(s, b.d) = bkAvail[s] - SumOf({})
      BY <3>7, Zenon DEF ClosingOf
    <3> QED
      BY <3>1, <3>4, <3>6, <3>8, <3>9, <3>10
  <2> QED
    BY <2>1, <2>2
<1>4. LogTypes'
  BY <1>1, <1>2, <1>3 DEF LogTypes, OpenStill
<1>5. ViewTypes'
  BY <1>1, <1>2 DEF ViewTypes
<1>6. OfActive'
  BY <1>1, <1>2 DEF OfActive, Switching, OpenStill
<1>7. LogNumbersInv'
  BY <1>1, <1>2 DEF LogNumbersInv
<1>8. ListedInv'
  BY <1>1, <1>2 DEF ListedInv
<1> QED
  BY <1>1, <1>2, <1>4, <1>5, <1>6, <1>7, <1>8, DetailStill, LiveStill, GoneStill DEF BooksInv

LEMMA saveOrDownloadPdfKeeps ==
    ASSUME BooksInv, NEW saved \in BOOLEAN, saveOrDownloadPdf(saved) PROVE BooksInv'
<1>1. /\ DbStill /\ bkSheet /\ bkSheet' = FALSE /\ bkLoading' = FALSE
      /\ UNCHANGED <<bkActive, bkLoads, bkList, bkCache, bkMem, bkOpening, bkEdits, bkLive>>
      /\ UNCHANGED <<bkFresh, bkLiveOld, bkCrossed, bkOverlap>>
  BY DEF saveOrDownloadPdf, DbStill, bookDbVars
<1>2. LogTypes /\ ViewTypes /\ DetailInv /\ OfActive /\ GoneInv /\ LiveInv /\ LogNumbersInv /\ ListedInv
  BY DEF BooksInv
<1>3. /\ bkReads' \subseteq BookStores /\ bkReads \subseteq bkReads'
      /\ (\A x \in bkSel' : IsDetail(x)) /\ AtMostOne(bkSel')
      /\ bkReads' # {} \/ bkSel' = bkSel \/ \A x \in bkSel' : x.es = {}
      /\ \A x \in bkSel' : \E y \in bkSel : x.book = y.book /\ x.es = y.es
  <2>1. CASE ~saved
    <3>1. bkSel' = bkSel /\ bkReads' = bkReads
      BY <2>1 DEF saveOrDownloadPdf
    <3> QED
      BY <1>2, <3>1 DEF LogTypes, DetailInv, AtMostOne
  <2>2. CASE saved
    <3>1. PICK sel : sel = {[x EXCEPT !.gen = TRUE] : x \in bkSel}
      OBVIOUS
    <3>2. setSelectedDayBook(sel)
      BY <2>2, <3>1 DEF saveOrDownloadPdf
    <3>3. ASSUME NEW y \in bkSel, NEW x, x = [y EXCEPT !.gen = TRUE]
          PROVE  IsDetail(x) /\ x.book = y.book /\ x.es = y.es
      <4>1. PICK a, b, c : y = [book |-> a, es |-> b, gen |-> c]
        BY <1>2 DEF DetailInv, IsDetail
      <4>2. x = [book |-> a, es |-> b, gen |-> TRUE] /\ IsBook(a)
        BY <1>2, <3>3, <4>1 DEF DetailInv, IsDetail
      <4> QED
        BY <4>1, <4>2 DEF IsDetail
    <3>4. \A x \in sel : IsDetail(x) /\ \E y \in bkSel : x.book = y.book /\ x.es = y.es
      BY <3>1, <3>3
    <3>5. AtMostOne(sel)
      BY <1>2, <3>1 DEF DetailInv, AtMostOne
    <3>6. /\ bkSel' = sel /\ bkReads' \subseteq BookStores /\ bkReads \subseteq bkReads'
          /\ (\A x \in bkSel' : IsDetail(x)) /\ AtMostOne(bkSel')
          /\ bkReads' # {} \/ bkSel' = bkSel \/ \A x \in bkSel' : x.es = {}
      BY <1>2, <3>2, <3>4, <3>5, SelectedFacts DEF Shown
    <3> QED
      BY <3>4, <3>6
  <2> QED
    BY <2>1, <2>2
<1>4. LogTypes'
  BY <1>1, <1>2, <1>3 DEF LogTypes, DbStill
<1>5. ViewTypes'
  BY <1>1, <1>2 DEF ViewTypes
<1>6. DetailInv'
  BY <1>1, <1>2, <1>3 DEF DetailInv
<1>7. OfActive'
  BY <1>1, <1>2, <1>3 DEF OfActive, Switching
<1>8. GoneInv'
  BY <1>1, <1>2, <1>3 DEF GoneInv, Clean, DbStill
<1>9. ListedInv'
  BY <1>1, <1>2 DEF ListedInv, DbStill
<1>10. LiveInv'
  BY <1>1, <1>2, <1>3, LiveKept DEF DbStill
<1> QED
  BY <1>1, <1>2, <1>4, <1>5, <1>6, <1>7, <1>8, <1>9, <1>10, NumbersStill DEF BooksInv

LEMMA BooksStart == BookInit => BooksInv
<1> SUFFICES ASSUME BookInit PROVE BooksInv
  OBVIOUS
<1>1. PICK l : l = LoadOf(bkActive, "local")
  OBVIOUS
<1>2. /\ bkActive \in BookStores /\ bkMoves = 0 /\ bkLoads = {l} /\ bkLoading = TRUE
      /\ bkList = {} /\ bkCache = [s \in BookStores |-> {}] /\ bkMem = {} /\ bkSel = {}
      /\ bkOpening = {} /\ bkEdits = {} /\ bkReads = {} /\ bkSheet = FALSE /\ bkBadSheet = FALSE
      /\ bkFresh = FALSE /\ bkLiveOld = FALSE /\ bkCrossed = FALSE /\ bkOverlap = FALSE /\ bkDeleted = {}
      /\ bkAvail = [s \in BookStores |-> 1]
  BY <1>1 DEF BookInit
<1>3. IsLoad(l) /\ l.s = bkActive /\ l.ph = "local"
  BY <1>1, <1>2, LoadOfFacts
<1>4. 1 \in Days
  BY BookAssumption DEF Days
<1>5. /\ bkTx \subseteq BookTxs /\ IsFiniteSet(bkTx)
      /\ \A t \in bkTx : t.n = 1
      /\ \A t, u \in bkTx : t = u
  <2>1. CASE bkTx = {}
    BY <2>1, FS_EmptySet
  <2>2. ASSUME NEW k \in BookKinds, bkTx = {[n |-> 1, s |-> bkActive, d |-> 1, q |-> 1, k |-> k]}
        PROVE  /\ bkTx \subseteq BookTxs /\ IsFiniteSet(bkTx)
               /\ \A t \in bkTx : t.n = 1
               /\ \A t, u \in bkTx : t = u
    <3>1. PICK t : t = [n |-> 1, s |-> bkActive, d |-> 1, q |-> 1, k |-> k]
      OBVIOUS
    <3>2. t \in BookTxs /\ t.n = 1
      BY <1>2, <1>4, <3>1, BookAssumption DEF BookTxs, Kinds
    <3>3. IsFiniteSet({t})
      BY FS_Singleton
    <3> QED
      BY <2>2, <3>1, <3>2, <3>3
  <2>3. bkTx = {} \/ \E k \in BookKinds : bkTx = {[n |-> 1, s |-> bkActive, d |-> 1, q |-> 1, k |-> k]}
    BY DEF BookInit
  <2> QED
    BY <2>1, <2>2, <2>3
<1>6. bkSrv \subseteq BookTxs
  BY <1>2, <1>4 DEF BookInit, BookTxs, Kinds, Foreign
<1>7. LogTypes
  <2>1. bkAvail \in [BookStores -> Int]
    BY <1>2
  <2> QED
    BY <1>2, <1>5, <1>6, <2>1 DEF LogTypes
<1>8. ViewTypes
  BY <1>2, <1>3 DEF ViewTypes, AtMostOne
<1>9. DetailInv
  BY <1>2 DEF DetailInv, AtMostOne
<1>10. LogNumbersInv
  BY <1>2, <1>5 DEF LogNumbersInv
<1>11. GoneInv /\ OfActive /\ ListedInv /\ LiveInv
  BY <1>2, <1>3 DEF GoneInv, OfActive, ListedInv, LiveInv
<1> QED
  BY <1>7, <1>8, <1>9, <1>10, <1>11 DEF BooksInv

LEMMA BooksStutter == BooksInv /\ UNCHANGED bookVars => BooksInv'
<1> SUFFICES ASSUME BooksInv, UNCHANGED bookVars PROVE BooksInv'
  OBVIOUS
<1>1. /\ ViewStill /\ UNCHANGED <<bkTx, bkAvail, bkSrv, bkMoves, bkFresh, bkLiveOld>>
  BY DEF bookVars, bookDbVars, bookViewVars, bookSheetVars, ViewStill
<1>2. LogTypes'
  BY <1>1 DEF BooksInv, LogTypes, ViewStill
<1>3. LogNumbersInv'
  BY <1>1 DEF BooksInv, LogNumbersInv, ViewStill
<1>4. ListedInv'
  BY <1>1 DEF BooksInv, ListedInv, ViewStill
<1>5. LiveInv'
  BY <1>1 DEF BooksInv, LiveInv, ViewStill
<1> QED
  BY <1>1, <1>2, <1>3, <1>4, <1>5, StillKeeps DEF BooksInv

LEMMA BooksKeep == BooksInv /\ [BookNext]_bookVars => BooksInv'
<1> SUFFICES ASSUME BooksInv, [BookNext]_bookVars PROVE BooksInv'
  OBVIOUS
<1>1. ASSUME NEW s \in BookStores, NEW d \in Days, NEW k \in BookKinds, Movement(s, d, k) PROVE BooksInv'
  BY <1>1, MovementKeeps
<1>2. ASSUME NEW s \in BookStores, BookStoreSwitch(s) \/ BalanceRead(s) PROVE BooksInv'
  BY <1>2, BookStoreSwitchKeeps, BalanceReadKeeps
<1>3. CASE LogPushed \/ RefreshBooks \/ BackToList
  BY <1>3, LogPushedKeeps, RefreshBooksKeeps, BackToListKeeps
<1>4. ASSUME NEW l \in bkLoads, \/ \E what \in {"txs", "bal"} : LoadReads(l, what)
                                \/ LoadShows(l) \/ \E ok \in BOOLEAN : ServerAnswers(l, ok)
      PROVE  BooksInv'
  BY <1>4, LoadReadsKeeps, LoadShowsKeeps, ServerAnswersKeeps
<1>5. ASSUME NEW b \in bkList, loadDayBookDetail(b) PROVE BooksInv'
  BY <1>5, loadDayBookDetailKeeps
<1>6. ASSUME NEW b \in bkOpening, NEW ok \in BOOLEAN, DetailAnswers(b, ok) PROVE BooksInv'
  BY <1>6, DetailAnswersKeeps
<1>7. ASSUME NEW x \in bkSel, \/ \E e \in x.es : handleSaveEntryEdit(x, e) \/ handleDeleteEntry(x, e)
                              \/ generateBalanceSheet(x)
      PROVE  BooksInv'
  BY <1>7, StartEditKeeps, generateBalanceSheetKeeps
<1>8. ASSUME NEW o \in bkEdits, \/ refreshDetailAfterMutation(o)
                                \/ \E ok \in BOOLEAN : EditRuns(o, ok) \/ RefreshFromServer(o, ok)
      PROVE  BooksInv'
  BY <1>8, refreshDetailAfterMutationKeeps, EditRunsKeeps, RefreshFromServerKeeps
<1>9. ASSUME NEW saved \in BOOLEAN, saveOrDownloadPdf(saved) PROVE BooksInv'
  BY <1>9, saveOrDownloadPdfKeeps
<1>10. CASE UNCHANGED bookVars
  BY <1>10, BooksStutter
<1> QED
  BY <1>1, <1>2, <1>3, <1>4, <1>5, <1>6, <1>7, <1>8, <1>9, <1>10, Zenon DEF BookNext

LEMMA BooksMean == BooksInv => BookTypeOK /\ BooksAreTrue
<1> SUFFICES ASSUME BooksInv PROVE BookTypeOK /\ BooksAreTrue
  OBVIOUS
<1>1. LogTypes /\ ViewTypes /\ DetailInv /\ OfActive /\ GoneInv /\ ListedInv
  BY DEF BooksInv
<1>2. ASSUME NEW S, AtMostOne(S) PROVE Cardinality(S) <= 1
  <2>1. CASE S = {}
    BY <2>1, FS_EmptySet
  <2>2. ASSUME NEW x \in S PROVE Cardinality(S) <= 1
    <3>1. S = {x}
      BY <1>2 DEF AtMostOne
    <3>2. Cardinality({x}) = 1
      BY FS_Singleton
    <3> QED
      BY <3>1, <3>2
  <2> QED
    BY <2>1, <2>2
<1>3. BookTypeOK
  <2>1. Cardinality(bkSel) <= 1 /\ Cardinality(bkOpening) <= 1
    BY <1>1, <1>2 DEF ViewTypes, DetailInv
  <2>2. \A b \in bkList : b.s \in BookStores /\ b.d \in Days
    BY <1>1 DEF ViewTypes, IsBook
  <2>3. \A t \in bkTx : t.s \in BookStores /\ t.k \in Kinds /\ t.q \in {1, -1}
    BY <1>1 DEF LogTypes, BookTxs
  <2> QED
    BY <1>1, <2>1, <2>2, <2>3 DEF BookTypeOK, LogTypes
<1>4. BooksAddUp
  <2> SUFFICES ASSUME bkFresh, ~bkCrossed
               PROVE  /\ DaysOf(OfStore(bkTx, bkActive)) = {b.d : b \in {b \in bkList : b.loc}}
                      /\ \A b \in bkList : b.loc => /\ b.c = ClosingOf(bkActive, b.d)
                                                   /\ b.o = ClosingOf(bkActive, b.d - 1)
    BY DEF BooksAddUp
  <2>1. PICK L : L = {b \in bkList : b.loc}
    OBVIOUS
  <2>2. L = LocalBooks(bkTx, bkAvail[bkActive], bkActive) /\ bkActive \in BookStores
    BY <1>1, <2>1 DEF ListedInv, LogTypes
  <2>3. /\ {b.d : b \in L} = DaysOf(OfStore(bkTx, bkActive))
        /\ \A b \in L : b.c = ClosingOf(bkActive, b.d) /\ b.o = ClosingOf(bkActive, b.d - 1)
    BY <1>1, <2>2, BooksBalance
  <2> QED
    BY <2>1, <2>3
<1>5. DeletedStaysGone
  BY <1>1 DEF GoneInv, Clean, DeletedStaysGone
<1>6. OpenBookIsOfStore
  BY <1>1 DEF OfActive, OpenBookIsOfStore
<1>7. SheetAgreesWithBook
  BY <1>1 DEF LogTypes, SheetAgreesWithBook
<1> QED
  BY <1>3, <1>4, <1>5, <1>6, <1>7 DEF BooksAreTrue

(* The day-book screen tells the truth (DayBooksView loadDayBooks,           *)
(* loadDayBookDetail, refreshDetailAfterMutation): a list read from one      *)
(* state of the database adds up, what was deleted stays away, the open book *)
(* is of the active store and the sheet of its last day closes where the     *)
(* book does, for any stores, days, movements, loads and edits.              *)
THEOREM BooksTrue == BookInit /\ [][BookNext]_bookVars => [](BookTypeOK /\ BooksAreTrue)
  BY BooksStart, BooksKeep, BooksMean, PTL

=============================================================================
