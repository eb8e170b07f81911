---------------------------- MODULE ProductSearch ----------------------------
(***************************************************************************)
(* Finding a product in the stock-entry views of the desktop application.   *)
(* Every view keeps the list of products loaded for a store, debounces what *)
(* is typed, asks the local full-text index and shows the answers.          *)
(*   - Receive, Sale and Count (grid views) filter the list at once, ask    *)
(*     the index only on a miss, and number their searches (searchSeqRef);   *)
(*   - Transfer drops the answer of a search whose effect was cleaned up;    *)
(*   - Return and Damage cancel only the timer: an answer under way lands.   *)
(* get_products_by_store (external) returns every product, with the          *)
(* quantities of the store asked for: a list is modelled by that store.      *)
(***************************************************************************)
EXTENDS Integers, FiniteSets

CONSTANTS Items,        \* the products
          Places,       \* the stores
          Nowhere,      \* no store
          MaxTyped,     \* bound: queries typed
          MaxSwitches   \* bound: changes of the active store

ASSUME SearchAssumption == /\ Nowhere \notin Places
                           /\ MaxTyped \in Nat /\ MaxSwitches \in Nat

VARIABLES
    searchView,  \* the view that is mounted
    place,       \* activeStoreId
    mountPlace,  \* activeStoreId when the view mounted (captured by loadAllProducts)
    eventDue,    \* the store whose 'stores-updated' event is still to come
    loads,       \* product loads under way, by the store they ask for
    listed,      \* the store whose products and quantities are in the list
    typed,       \* the query in the input
    due,         \* the query waiting for the debounce timer
    lastRun,     \* the last query the view searched for
    searches,    \* searches under way: [q, live, scoped]
    found,       \* searchResults / matchingProducts
    picked,      \* the selected product
    typings, switches,
    crossed,     \* history: a load failed, two overlapped, or none was asked for
    searchOverlapped   \* history: a search began with another under way

searchVars == <<searchView, place, mountPlace, eventDue, loads, listed, typed, due,
                lastRun, searches, found, picked, typings, switches, crossed, searchOverlapped>>

GridViews == {"receive", "sale", "count"}
SearchViews == GridViews \cup {"transfer", "return", "damage"}
NoItem == "none"
Blank == <<>>           \* the empty query
Off == <<"off">>        \* no timer is running
(* A query finds one product: by its name, which the local filter sees too,  *)
(* or by its SKU or barcode, which only the index holds.                     *)
Queries == {Blank} \cup (Items \X {"name", "code"})

(* searchProductsFts5 and searchProducts, with the fallback to the LIKE      *)
(* search: the products that match.                                          *)
searchProductsFts5(q) == IF q = Blank THEN {} ELSE {q[1]}
searchProducts(q) == searchProductsFts5(q)

(* The filter on the list, by label and subtitle.                            *)
localMatches(q) == {p \in Items : listed # Nowhere /\ q = <<p, "name">>}

Dead(ss) == {[t EXCEPT !.live = FALSE] : t \in ss}
-----------------------------------------------------------------------------
(* Loading the list. The store of the event, else the one captured when the  *)
(* view mounted.                                                             *)
\* mutant: the event's store is not passed on (the stale closure)
loadTargetStale(s) == mountPlace
loadTarget(s) == IF s = Nowhere THEN mountPlace ELSE s

BeginLoad(s) ==
    /\ loads' = loads \cup {loadTarget(s)}
    /\ crossed' = (crossed \/ loads # {})

(* loadAllProducts of Receive and Sale empties the pane before it asks.      *)
loadAllProducts(s) == BeginLoad(s) /\ found' = {}
SaleLoadAllProducts(s) == BeginLoad(s) /\ found' = {}
loadProductsWithQty(s) == BeginLoad(s) /\ UNCHANGED found
loadStoreProducts(s) == BeginLoad(s) /\ UNCHANGED found
fetchData(s) == BeginLoad(s) /\ UNCHANGED found

(* App.handleSelectStoreAndReload: the active store changes at once; Count   *)
(* loads on that change, and Damage restarts its search timer.               *)
SwitchStore(s) ==
    /\ s # place /\ eventDue = Nowhere
    /\ switches < MaxSwitches
    /\ place' = s /\ eventDue' = s
    /\ switches' = switches + 1
    /\ IF searchView = "count" THEN loadProductsWithQty(s)
       ELSE UNCHANGED <<loads, found, crossed>>
    /\ due' = IF searchView = "damage" THEN typed ELSE due
    /\ UNCHANGED <<searchView, mountPlace, listed, typed, lastRun, searches,
                   picked, typings, searchOverlapped>>

(* The store list came back: the event reaches the listening views.          *)
StoresUpdated ==
    /\ eventDue # Nowhere
    /\ eventDue' = Nowhere
    /\ CASE searchView = "receive" -> loadAllProducts(eventDue)
         [] searchView = "sale" -> SaleLoadAllProducts(eventDue)
         [] searchView = "return" -> loadStoreProducts(eventDue)
         [] searchView = "transfer" -> fetchData(eventDue)
         [] OTHER -> UNCHANGED <<loads, found, crossed>>
    /\ UNCHANGED <<searchView, place, mountPlace, listed, typed, due, lastRun, searches,
                   picked, typings, switches, searchOverlapped>>

(* App.fetchStores finds the active store gone from the list and takes the   *)
(* first one instead: no event names it, so only Count loads again.          *)
ActiveStoreReplaced(s) ==
    /\ s # place /\ eventDue = Nowhere
    /\ switches < MaxSwitches
    /\ place' = s
    /\ switches' = switches + 1
    /\ IF searchView = "count" THEN loadProductsWithQty(s)
       ELSE crossed' = TRUE /\ UNCHANGED <<loads, found>>
    /\ due' = IF searchView = "damage" THEN typed ELSE due
    /\ UNCHANGED <<searchView, mountPlace, eventDue, listed, typed, lastRun, searches,
                   picked, typings, searchOverlapped>>

(* getProductsByStore answers, or fails (the error is swallowed and the list *)
(* stays). The new list restarts the search of Return and Transfer.          *)
getProductsByStore(s, ok) ==
    /\ s \in loads
    /\ loads' = loads \ {s}
    /\ listed' = IF ok THEN s ELSE listed
    /\ crossed' = (crossed \/ ~ok)
    /\ IF ok /\ searchView \in {"return", "transfer"}
       THEN /\ searches' = IF searchView = "transfer" THEN Dead(searches) ELSE searches
            /\ IF searchView = "transfer" /\ typed = Blank
               THEN found' = {} /\ due' = Off
               ELSE due' = typed /\ UNCHANGED found
       ELSE UNCHANGED <<searches, due, found>>
    /\ UNCHANGED <<searchView, place, mountPlace, eventDue, typed, lastRun, picked,
                   typings, switches, searchOverlapped>>
-----------------------------------------------------------------------------
(* Typing. In the grid the timer belongs to the keyboard hook and an emptied *)
(* query only stops it; Transfer drops the search under way and an emptied    *)
(* query clears the list at once.                                            *)
GridTypes(q) ==
    /\ due' = IF q = Blank THEN Off ELSE q
    /\ UNCHANGED <<searches, found, picked>>

TransferTypes(q) ==
    /\ searches' = Dead(searches)
    /\ picked' = NoItem
    /\ IF q = Blank \/ place = Nowhere
       THEN found' = {} /\ due' = Off
       ELSE due' = q /\ UNCHANGED found

ReturnTypes(q) ==
    /\ picked = NoItem
    /\ due' = q
    /\ UNCHANGED <<searches, found, picked>>

DamageTypes(q) == ReturnTypes(q)

TypeQuery(q) ==
    /\ q # typed /\ typings < MaxTyped
    /\ typed' = q /\ typings' = typings + 1
    /\ \/ searchView \in GridViews /\ GridTypes(q)
       \/ searchView = "transfer" /\ TransferTypes(q)
       \/ searchView = "return" /\ ReturnTypes(q)
       \/ searchView = "damage" /\ DamageTypes(q)
    /\ UNCHANGED <<searchView, place, mountPlace, eventDue, loads, listed, lastRun,
                   switches, crossed, searchOverlapped>>
-----------------------------------------------------------------------------
(* The timer fires. handleProductSearch (Receive; the other grid views have  *)
(* the same handler): every earlier search is outdated, the list is filtered *)
(* at once, and only a miss goes to the index. An empty query clears.        *)
handleProductSearch(q) ==
    /\ found' = localMatches(q)
    /\ searches' = Dead(searches) \cup
         (IF q # Blank /\ localMatches(q) = {}
          THEN {[q |-> q, live |-> TRUE, scoped |-> listed # Nowhere]} ELSE {})
SaleProductSearch(q) == handleProductSearch(q)
CountHandleSearch(q) == handleProductSearch(q)

(* Return, Damage and Transfer always go to the index; Damage keeps every    *)
(* active product, the others only those of their list.                      *)
ReturnSearch(q) ==
    IF q = Blank THEN found' = {} /\ UNCHANGED searches
    ELSE /\ searches' = searches \cup {[q |-> q, live |-> TRUE, scoped |-> listed # Nowhere]}
         /\ UNCHANGED found

DamageSearch(q) ==
    IF q = Blank THEN found' = {} /\ UNCHANGED searches
    ELSE searches' = searches \cup {[q |-> q, live |-> TRUE, scoped |-> TRUE]}
         /\ UNCHANGED found

TransferSearch(q) ==
    /\ searches' = searches \cup {[q |-> q, live |-> TRUE, scoped |-> listed # Nowhere]}
    /\ UNCHANGED found

DebounceFires ==
    /\ due # Off
    /\ due' = Off /\ lastRun' = due
    /\ CASE searchView = "receive" -> handleProductSearch(due)
         [] searchView = "sale" -> SaleProductSearch(due)
         [] searchView = "count" -> CountHandleSearch(due)
         [] searchView = "return" -> ReturnSearch(due)
         [] searchView = "damage" -> DamageSearch(due)
         [] searchView = "transfer" -> TransferSearch(due)
    /\ searchOverlapped' = (searchOverlapped \/ searches # {})
    /\ UNCHANGED <<searchView, place, mountPlace, eventDue, loads, listed, typed,
                   picked, typings, switches, crossed>>

(* The index answers, or fails and nothing changes. The grid views compare   *)
(* the number of the search, Transfer its isMounted flag; the other two take *)
(* whatever comes.                                                           *)
\* mutant: no view looks at the number of its search
AcceptsEvery(t) == TRUE
Accepts(t) == t.live \/ searchView \in {"return", "damage"}

SearchAnswers(t) ==
    /\ t \in searches
    /\ searches' = searches \ {t}
    /\ found' \in {found, IF Accepts(t) THEN {p \in searchProducts(t.q) : t.scoped} ELSE found}
    /\ UNCHANGED <<searchView, place, mountPlace, eventDue, loads, listed, typed, due,
                   lastRun, picked, typings, switches, crossed, searchOverlapped>>
-----------------------------------------------------------------------------
(* What the pane offers: LiveSearchPanel beside the grid shows the answers,  *)
(* else the filtered list, else the whole list; the forms show the answers   *)
(* while no product is selected (Transfer shows them beside a selection too). *)
displayItems ==
    IF typed # Blank
    THEN IF found # {} THEN found ELSE localMatches(typed)
    ELSE IF listed # Nowhere THEN Items ELSE found

PanelOffers(p) == searchView \in GridViews /\ p \in displayItems
TransferOffers(p) == searchView = "transfer" /\ p \in found
ReturnOffers(p) == searchView = "return" /\ p \in found /\ picked = NoItem
DamageOffers(p) == searchView = "damage" /\ p \in found /\ picked = NoItem
PickOffered(p) == PanelOffers(p) \/ TransferOffers(p) \/ ReturnOffers(p) \/ DamageOffers(p)

(* Selecting: handleSearchSelect clears the query and runs an empty search;  *)
(* the forms write the product's name into the input, which asks again.      *)
handleSearchSelect ==
    /\ typed' = Blank /\ due' = Off /\ lastRun' = Blank
    /\ handleProductSearch(Blank)

ReturnSelect(p) ==
    /\ typed' = <<p, "name">> /\ due' = <<p, "name">>
    /\ found' = {}
    /\ UNCHANGED <<lastRun, searches>>
DamageSelect(p) == ReturnSelect(p)

handleSelectProduct(p) ==
    /\ typed' = <<p, "name">> /\ due' = <<p, "name">>
    /\ found' = {}
    /\ searches' = IF typed = <<p, "name">> THEN searches ELSE Dead(searches)
    /\ UNCHANGED lastRun

Pick(p) ==
    /\ PickOffered(p) /\ typings < MaxTyped
    /\ picked' = p /\ typings' = typings + 1
    /\ CASE searchView \in GridViews -> handleSearchSelect
         [] searchView = "return" -> ReturnSelect(p)
         [] searchView = "damage" -> DamageSelect(p)
         [] searchView = "transfer" -> handleSelectProduct(p)
    /\ UNCHANGED <<searchView, place, mountPlace, eventDue, loads, listed, switches,
                   crossed, searchOverlapped>>

(* clearProduct of Return and Damage.                                        *)
ClearSelection ==
    /\ picked # NoItem
    /\ typings < MaxTyped /\ typings' = typings + 1
    /\ picked' = NoItem /\ typed' = Blank /\ due' = Blank /\ found' = {}
    /\ UNCHANGED <<searchView, place, mountPlace, eventDue, loads, listed, lastRun,
                   searches, switches, crossed, searchOverlapped>>
clearProduct == searchView = "return" /\ ClearSelection
DamageClearProduct == searchView = "damage" /\ ClearSelection
-----------------------------------------------------------------------------
(* The view mounts with an active store and asks for its list (Damage has    *)
(* none).                                                                    *)
SearchInit ==
    /\ searchView \in SearchViews
    /\ place \in Places /\ mountPlace = place
    /\ eventDue = Nowhere
    /\ loads = IF searchView = "damage" THEN {} ELSE {place}
    /\ listed = Nowhere
    /\ typed = Blank /\ due = Off /\ lastRun = Blank
    /\ searches = {} /\ found = {} /\ picked = NoItem
    /\ typings = 0 /\ switches = 0
    /\ crossed = FALSE /\ searchOverlapped = FALSE

SearchNext ==
    \/ \E s \in Places : SwitchStore(s) \/ ActiveStoreReplaced(s)
                         \/ \E ok \in BOOLEAN : getProductsByStore(s, ok)
    \/ StoresUpdated
    \/ \E q \in Queries : TypeQuery(q)
    \/ DebounceFires
    \/ \E t \in searches : SearchAnswers(t)
    \/ \E p \in Items : Pick(p)
    \/ clearProduct \/ DamageClearProduct

SearchTypeOK ==
    /\ searchView \in SearchViews /\ place \in Places /\ mountPlace \in Places
    /\ eventDue \in Places \cup {Nowhere} /\ listed \in Places \cup {Nowhere}
    /\ loads \subseteq Places
    /\ typed \in Queries /\ lastRun \in Queries /\ due \in Queries \cup {Off}
    /\ searches \subseteq [q : Queries, live : BOOLEAN, scoped : BOOLEAN]
    /\ found \subseteq Items /\ picked \in Items \cup {NoItem}
    /\ typings \in 0 .. MaxTyped /\ switches \in 0 .. MaxSwitches
    /\ crossed \in BOOLEAN /\ searchOverlapped \in BOOLEAN

(* Whatever the pane is filled with answers the last query the view searched  *)
(* for, however late and in whatever order the index answers ("a slow FTS5    *)
(* round-trip can never overwrite fresher results", searchSeqRef). Return and *)
(* Damage, which do not look at the query of an answer, keep this only while  *)
(* their searches do not overlap.                                             *)
PaneAnswersLastQuery ==
    [][(searchView \notin {"return", "damage"} \/ ~searchOverlapped')
           => (found' # found => found' \subseteq searchProducts(lastRun'))]_searchVars

(* Once the event of a switch has been delivered and no load is under way,   *)
(* the list and the quantities beside it are those of the active store, if   *)
(* no load failed or overlapped another and the store was not replaced        *)
(* without an event (the stale-closure hazard of loadAllProducts).           *)
ListIsOfActiveStore ==
    (eventDue = Nowhere /\ loads = {} /\ ~crossed /\ searchView # "damage")
        => listed = place
==============================================================================
