---------------------------- MODULE ClientProofs ----------------------------
(***************************************************************************)
(* The types of the screens, and the theorems about the parts, together,   *)
(* for the client that MCClient puts together from them.                   *)
(***************************************************************************)
EXTENDS MCClient, SessionProofs, ScreenProofs, CsvProofs

(***************************************************************************)
(* The types of the screens. Those of the session are in SessionProofs,    *)
(* those of the transaction list, the day books and the CSV parser with    *)
(* their theorems.                                                         *)
(***************************************************************************)
(* The stores a view knows of, what the pane offers, and the bounds.         *)
StoreTypes ==
    /\ place \in Places /\ mountPlace \in Places /\ loads \subseteq Places
    /\ eventDue \in Places \cup {Nowhere} /\ listed \in Places \cup {Nowhere}
PaneTypes == lastRun \in Queries /\ found \subseteq Items /\ picked \in Items \cup {NoItem}
SearchCounts == typings \in 0 .. MaxTyped /\ switches \in 0 .. MaxSwitches

(* A load asks for a store: the one of the event or the one of the mount.    *)
LEMMA StoreTypesNext == StoreTypes /\ [SearchNext]_searchVars => StoreTypes'
<1> SUFFICES ASSUME StoreTypes, [SearchNext]_searchVars PROVE StoreTypes'
  OBVIOUS
<1> USE SearchAssumption
<1>0. \A s \in Places \cup {Nowhere} : loadTarget(s) \in Places
  BY DEF loadTarget, StoreTypes
<1>1. ASSUME NEW s \in Places, SwitchStore(s) \/ ActiveStoreReplaced(s) PROVE StoreTypes'
  <2>1. /\ place' = s /\ UNCHANGED <<mountPlace, listed>> /\ (eventDue' = s \/ eventDue' = eventDue)
        /\ loads' = loads \/ loads' = loads \cup {loadTarget(s)}
    BY <1>1, Zenon DEF SwitchStore, ActiveStoreReplaced, loadProductsWithQty, BeginLoad
  <2> QED
    BY <1>0, <2>1 DEF StoreTypes
<1>2. ASSUME NEW s \in Places, NEW ok \in BOOLEAN, getProductsByStore(s, ok) PROVE StoreTypes'
  <2>1. /\ loads' = loads \ {s} /\ UNCHANGED <<place, mountPlace, eventDue>> /\ (listed' = s \/ listed' = listed)
    BY <1>2, Zenon DEF getProductsByStore
  <2> QED
    BY <2>1 DEF StoreTypes
<1>3. CASE StoresUpdated
  <2>1. /\ eventDue' = Nowhere /\ UNCHANGED <<place, mountPlace, listed>>
        /\ CASE searchView = "receive" -> loadAllProducts(eventDue)
             [] searchView = "sale" -> SaleLoadAllProducts(eventDue)
             [] searchView = "return" -> loadStoreProducts(eventDue)
             [] searchView = "transfer" -> fetchData(eventDue)
             [] OTHER -> UNCHANGED <<loads, found, crossed>>
    BY <1>3, Zenon DEF StoresUpdated
  <2>2. BeginLoad(eventDue) \/ loads' = loads
    BY <2>1 DEF loadAllProducts, SaleLoadAllProducts, loadStoreProducts, fetchData
  <2>3. loads' = loads \/ loads' = loads \cup {loadTarget(eventDue)}
    BY <2>2, Zenon DEF BeginLoad
  <2> QED
    BY <1>0, <2>1, <2>3 DEF StoreTypes
<1>4. (\E q \in Queries : TypeQuery(q)) \/ DebounceFires \/ (\E t \in searches : SearchAnswers(t))
        \/ (\E p \in Items : Pick(p)) \/ clearProduct \/ DamageClearProduct \/ UNCHANGED searchVars
      => UNCHANGED <<place, mountPlace, loads, eventDue, listed>>
  BY Zenon DEF TypeQuery, DebounceFires, SearchAnswers, Pick, clearProduct, DamageClearProduct,
               ClearSelection, searchVars
<1>5. CASE UNCHANGED <<place, mountPlace, loads, eventDue, listed>>
  BY <1>5 DEF StoreTypes
<1> QED
  BY <1>1, <1>2, <1>3, <1>4, <1>5, Zenon DEF SearchNext

(* The pane holds products, whatever filled it.                              *)
LEMMA PaneTypesNext == AnswersInv /\ PaneTypes /\ [SearchNext]_searchVars => PaneTypes'
<1> SUFFICES ASSUME AnswersInv, PaneTypes, [SearchNext]_searchVars PROVE PaneTypes'
  OBVIOUS
<1>0. searches \subseteq Asked /\ typed \in Queries
  BY DEF AnswersInv
<1>a. (\A q : localMatches(q) \subseteq Items) /\ \A q \in Queries : searchProducts(q) \subseteq Items
  BY DEF localMatches, searchProducts, searchProductsFts5, Queries
<1>1. CASE \/ \E s \in Places : SwitchStore(s) \/ ActiveStoreReplaced(s)
           \/ \E s \in Places, ok \in BOOLEAN : getProductsByStore(s, ok)
           \/ \E q \in Queries : TypeQuery(q)
           \/ clearProduct \/ DamageClearProduct \/ StoresUpdated
  <2>1. found' = found \/ found' = {}
    <3>1. CASE StoresUpdated
      BY <3>1, Zenon DEF StoresUpdated, loadAllProducts, SaleLoadAllProducts, loadStoreProducts, fetchData
    <3> QED
      BY <1>1, <3>1, Zenon DEF SwitchStore, ActiveStoreReplaced, loadProductsWithQty, getProductsByStore,
           TypeQuery, GridTypes, TransferTypes, ReturnTypes, DamageTypes, clearProduct, DamageClearProduct,
           ClearSelection
  <2>2. lastRun' = lastRun /\ (picked' = picked \/ picked' = NoItem)
    BY <1>1, Zenon DEF SwitchStore, ActiveStoreReplaced, getProductsByStore, StoresUpdated,
           TypeQuery, GridTypes, TransferTypes, ReturnTypes, DamageTypes, clearProduct, DamageClearProduct,
           ClearSelection
  <2> QED
    BY <2>1, <2>2 DEF PaneTypes
<1>3. CASE DebounceFires
  <2>1. due \in Queries /\ lastRun' = due /\ picked' = picked
    BY <1>3, Zenon DEF DebounceFires, AnswersInv
  <2>2. handleProductSearch(due) \/ ReturnSearch(due) \/ DamageSearch(due) \/ TransferSearch(due)
    BY <1>3 DEF DebounceFires, SaleProductSearch, CountHandleSearch, AnswersInv, SearchViews, GridViews
  <2>3. found' \in {{}, found, localMatches(due)}
    BY <1>0, <2>1, <2>2, GridSearchFacts, FormSearchFacts
  <2> QED
    BY <1>a, <2>1, <2>3 DEF PaneTypes
<1>4. ASSUME NEW t \in searches, SearchAnswers(t) PROVE PaneTypes'
  <2>1. /\ found' = found \/ found' \subseteq searchProducts(t.q)
        /\ UNCHANGED <<lastRun, picked>>
    BY <1>4 DEF SearchAnswers
  <2>2. t.q \in Queries
    BY <1>0 DEF Asked
  <2> QED
    BY <1>a, <2>1, <2>2 DEF PaneTypes
<1>5. ASSUME NEW p \in Items, Pick(p) PROVE PaneTypes'
  <2>1. picked' = p /\ (handleSearchSelect \/ ReturnSelect(p) \/ handleSelectProduct(p))
    BY <1>5 DEF Pick, DamageSelect, AnswersInv, SearchViews, GridViews
  <2>2. found' = {} \/ found' = localMatches(Blank)
    BY <2>1, Zenon DEF handleSearchSelect, handleProductSearch, ReturnSelect, handleSelectProduct
  <2>3. lastRun' = lastRun \/ lastRun' = Blank
    BY <2>1, Zenon DEF handleSearchSelect, ReturnSelect, handleSelectProduct
  <2> QED
    BY <1>a, <2>1, <2>2, <2>3, QueryFacts DEF PaneTypes
<1>6. CASE UNCHANGED searchVars
  BY <1>6 DEF searchVars, PaneTypes
<1> QED
  BY <1>1, <1>3, <1>4, <1>5, <1>6, Zenon DEF SearchNext

(* The bounds are kept.                                                      *)
LEMMA SearchCountsNext == SearchCounts /\ [SearchNext]_searchVars => SearchCounts'
<1> SUFFICES ASSUME SearchCounts, [SearchNext]_searchVars PROVE SearchCounts'
  OBVIOUS
<1>1. /\ typings' = typings \/ (typings < MaxTyped /\ typings' = typings + 1)
      /\ switches' = switches \/ (switches < MaxSwitches /\ switches' = switches + 1)
  <2>1. \/ \E s \in Places : SwitchStore(s) \/ ActiveStoreReplaced(s)
        \/ \E s \in Places, ok \in BOOLEAN : getProductsByStore(s, ok)
        \/ \E q \in Queries : TypeQuery(q)
        \/ clearProduct \/ DamageClearProduct \/ StoresUpdated \/ DebounceFires
        \/ \E t \in searches : SearchAnswers(t)
        \/ \E p \in Items : Pick(p)
        \/ UNCHANGED searchVars
    BY Zenon DEF SearchNext
  <2> QED
    BY <2>1, Zenon DEF SwitchStore, ActiveStoreReplaced, getProductsByStore, StoresUpdated, TypeQuery,
           clearProduct, DamageClearProduct, ClearSelection, DebounceFires, SearchAnswers, Pick, searchVars
<1> QED
  BY <1>1, SearchAssumption DEF SearchCounts

(* The types of the product search.                                          *)
THEOREM SearchTyped == SearchInit /\ [][SearchNext]_searchVars => []SearchTypeOK
<1>0. 0 \in 0 .. MaxTyped /\ 0 \in 0 .. MaxSwitches
  BY SearchAssumption
<1>1. SearchInit => LoadInv /\ AnswersInv /\ StoreTypes /\ PaneTypes /\ SearchCounts
  <2> SUFFICES ASSUME SearchInit PROVE LoadInv /\ AnswersInv /\ StoreTypes /\ PaneTypes /\ SearchCounts
    OBVIOUS
  <2>1. /\ searchView \in SearchViews /\ eventDue = Nowhere /\ crossed = FALSE
        /\ searchView # "damage" => loads = {place}
        /\ searchOverlapped = FALSE /\ searches = {} /\ typed = Blank /\ due = Off
    BY Zenon DEF SearchInit
  <2>2. /\ place \in Places /\ mountPlace = place /\ (loads = {} \/ loads = {place}) /\ listed = Nowhere
        /\ lastRun = Blank /\ found = {} /\ picked = NoItem
    BY Zenon DEF SearchInit
  <2>3. LoadInv
    BY <2>1, Zenon DEF LoadInv
  <2>4. AnswersInv
    BY <2>1, QueryFacts, Zenon DEF AnswersInv
  <2>5. StoreTypes
    BY <2>1, <2>2 DEF StoreTypes
  <2>6. PaneTypes
    BY <2>2, QueryFacts DEF PaneTypes
  <2>7. SearchCounts
    BY <1>0, Zenon DEF SearchCounts, SearchInit
  <2> QED
    BY <2>3, <2>4, <2>5, <2>6, <2>7
<1>2. LoadInv /\ AnswersInv /\ StoreTypes /\ PaneTypes /\ SearchCounts => SearchTypeOK
  BY Zenon DEF LoadInv, AnswersInv, StoreTypes, PaneTypes, SearchCounts, SearchTypeOK, Asked
<1> QED
  BY <1>1, <1>2, LoadKeeps, AnswersKeeps, StoreTypesNext, PaneTypesNext, SearchCountsNext, PTL
-----------------------------------------------------------------------------
(* The focus and the dialogs are on rows of the grid, and the quantities in  *)
(* the cells, in the log and under way are those that are typed.             *)
FocusTypes ==
    /\ entryView \in {"receive", "sale"} /\ rowCount \in RowIds /\ activeRow \in RowIds
    /\ activeField \in Fields /\ confirming \in 0 .. MaxRows
    /\ refused \subseteq RowIds /\ misled \subseteq RowIds
Few == 0 .. 2
QuantityTypes ==
    /\ \A r \in RowIds : rows[r].qty \in Few /\ entryLog[r] \in Few
    /\ editing.row \in 0 .. MaxRows /\ editing.qty \in Few
    /\ \A c \in calls : c.row \in RowIds /\ c.qty \in Few

(* The cells of a row and the log that change, one row at a time.            *)
LEMMA FewFacts == 0 \in Few /\ 1 \in Few /\ 2 \in Few
  BY DEF Few

(* Every step keeps the quantities.                                          *)
LEMMA QuantityNext == GridInv /\ FocusTypes /\ QuantityTypes /\ [EntryNext]_entryVars => QuantityTypes'
<1> SUFFICES ASSUME GridInv, FocusTypes, QuantityTypes, [EntryNext]_entryVars PROVE QuantityTypes'
  OBVIOUS
<1>r. rows \in [RowIds -> GridRows] /\ entryLog \in [RowIds -> Nat]
  BY RowsFact, LogFact
<1>1. ASSUME UNCHANGED <<rows, entryLog, editing, calls>> PROVE QuantityTypes'
  BY <1>1 DEF QuantityTypes
<1>2. (\E r \in RowIds, i \in Fields : handleFieldFocus(r, i)) \/ (\E r \in RowIds : askDelete(r))
        \/ cancelDelete \/ forgetTxnIds \/ UNCHANGED entryVars
      => UNCHANGED <<rows, entryLog, editing, calls>>
  BY Zenon DEF handleFieldFocus, askDelete, cancelDelete, forgetTxnIds, entryVars
<1>3. handleKeyDown => commitRow(activeRow) \/ UNCHANGED <<rows, entryLog, editing, calls>>
  BY Zenon DEF handleKeyDown
<1>4. ASSUME (\E v \in Cells : handleFieldChange(v)) \/ clearRow \/ handleSearchPanelSelect PROVE QuantityTypes'
  <2>1. /\ UNCHANGED <<entryLog, editing, calls>>
        /\ \/ \E v \in Cells : rows' = [rows EXCEPT ![activeRow].product = v.product, ![activeRow].qty = v.qty,
                                               ![activeRow].ref = v.ref]
           \/ rows' = [rows EXCEPT ![activeRow] = EmptyRow]
           \/ rows' = [rows EXCEPT ![activeRow].product = "b"]
    BY <1>4, Zenon DEF handleFieldChange, clearRow, handleSearchPanelSelect
  <2>2. \A v \in Cells : v.qty \in Few
    BY DEF Cells, Few
  <2>3. EmptyRow.qty \in Few
    BY DEF EmptyRow, Few
  <2>4. \A r \in RowIds : rows'[r].qty \in Few
    <3>1. ASSUME NEW v \in Cells, NEW r \in RowIds,
                 rows' = [rows EXCEPT ![activeRow].product = v.product, ![activeRow].qty = v.qty,
                                      ![activeRow].ref = v.ref]
          PROVE  rows'[r].qty \in Few
      <4>1. rows'[r].qty = rows[r].qty \/ rows'[r].qty = v.qty
        BY <1>r, <3>1 DEF GridRows
      <4> QED
        BY <2>2, <4>1 DEF QuantityTypes
    <3>2. ASSUME NEW r \in RowIds, rows' = [rows EXCEPT ![activeRow] = EmptyRow] PROVE rows'[r].qty \in Few
      BY <1>r, <2>3, <3>2 DEF QuantityTypes
    <3>3. ASSUME NEW r \in RowIds, rows' = [rows EXCEPT ![activeRow].product = "b"] PROVE rows'[r].qty \in Few
      <4>1. rows'[r].qty = rows[r].qty
        BY <1>r, <3>3 DEF GridRows
      <4> QED
        BY <4>1 DEF QuantityTypes
    <3> QED
      BY <2>1, <3>1, <3>2, <3>3, Zenon
  <2> QED
    BY <2>1, <2>4 DEF QuantityTypes
<1>5. ASSUME commitRow(activeRow) PROVE QuantityTypes'
  <2> DEFINE a == activeRow
             new == [op |-> "commit", row |-> a, qty |-> rows[a].qty, ref |-> rows[a].ref,
                     product |-> rows[a].product, txn |-> "none"]
  <2>0. a \in RowIds /\ rows[a].qty \in Few
    BY DEF FocusTypes, QuantityTypes
  <2>1. /\ rows' = [rows EXCEPT ![a].committed = TRUE] /\ editing' = editing
        /\ calls' = calls \/ calls' = calls \cup {new}
        /\ entryLog' = entryLog \/ entryLog' = [entryLog EXCEPT ![a] = rows[a].qty]
    BY <1>5, Zenon DEF commitRow
  <2>2. new.row \in RowIds /\ new.qty \in Few
    BY <2>0
  <2> HIDE DEF new
  <2>3. \A c \in calls' : c.row \in RowIds /\ c.qty \in Few
    BY <2>1, <2>2 DEF QuantityTypes
  <2>4. \A r \in RowIds : rows'[r].qty = rows[r].qty
    BY <1>r, <2>1 DEF GridRows
  <2>5. \A r \in RowIds : entryLog'[r] \in Few
    BY <1>r, <2>0, <2>1 DEF QuantityTypes
  <2> QED
    BY <2>1, <2>3, <2>4, <2>5 DEF QuantityTypes
<1>6. ASSUME NEW c \in calls, NEW ok \in BOOLEAN, CommitAnswers(c, ok) PROVE QuantityTypes'
  <2>1. /\ calls' = calls \ {c} /\ editing' = editing
        /\ \/ UNCHANGED <<rows, entryLog>>
           \/ rows' = [rows EXCEPT ![c.row].committed = FALSE] /\ entryLog' = [entryLog EXCEPT ![c.row] = 0]
    BY <1>6, Zenon DEF CommitAnswers, ReceiveCommitAnswers, SaleCommitAnswers, RollBack
  <2>2. \A r \in RowIds : rows'[r].qty = rows[r].qty
    BY <1>r, <2>1 DEF GridRows
  <2>3. \A r \in RowIds : entryLog'[r] \in Few
    BY <1>r, <2>1, FewFacts DEF QuantityTypes
  <2> QED
    BY <2>1, <2>2, <2>3 DEF QuantityTypes
<1>7. ASSUME NEW c \in calls, NEW ok \in BOOLEAN, EditAnswers(c, ok) PROVE QuantityTypes'
  <2>0. c.row \in RowIds /\ c.qty \in Few
    BY DEF QuantityTypes
  <2>1. /\ calls' = calls \ {c} /\ editing' = NoEdit
        /\ rows' = [rows EXCEPT ![c.row].qty = c.qty, ![c.row].ref = c.ref]
        /\ entryLog' = entryLog \/ entryLog' = [entryLog EXCEPT ![c.row] = c.qty]
    BY <1>7, Zenon DEF EditAnswers, ReceiveEditAnswers, SaleEditAnswers, patchRowValues
  <2>2. \A r \in RowIds : rows'[r].qty = rows[r].qty \/ rows'[r].qty = c.qty
    BY <1>r, <2>1 DEF GridRows
  <2>3. \A r \in RowIds : entryLog'[r] \in Few
    BY <1>r, <2>0, <2>1 DEF QuantityTypes
  <2>4. editing'.row = 0 /\ editing'.qty = 1
    BY <2>1 DEF NoEdit
  <2>5. 0 \in 0 .. MaxRows
    BY EntryAssumption
  <2> QED
    BY <2>0, <2>1, <2>2, <2>3, <2>4, <2>5, FewFacts DEF QuantityTypes
<1>8. ASSUME NEW c \in calls, NEW ok \in BOOLEAN, DeleteAnswers(c, ok) PROVE QuantityTypes'
  <2>1. /\ calls' = calls \ {c} /\ UNCHANGED <<editing, rows>>
        /\ entryLog' = entryLog \/ entryLog' = [entryLog EXCEPT ![c.row] = 0]
    BY <1>8, Zenon DEF DeleteAnswers, ReceiveDeleteAnswers, SaleDeleteAnswers
  <2>3. \A r \in RowIds : entryLog'[r] \in Few
    BY <1>r, <2>1, FewFacts DEF QuantityTypes
  <2> QED
    BY <2>1, <2>3 DEF QuantityTypes
<1>9. ASSUME (\E r \in RowIds : startEditing(r)) \/ (\E q \in 1 .. 2, f \in BOOLEAN : EditCell(q, f)) \/ cancelEdit
      PROVE  QuantityTypes'
  <2>1. /\ UNCHANGED <<rows, entryLog, calls>>
        /\ \/ \E r \in RowIds : editing' = [row |-> r, qty |-> rows[r].qty, ref |-> rows[r].ref]
           \/ \E q \in 1 .. 2, f \in BOOLEAN : editing' = [editing EXCEPT !.qty = q, !.ref = f]
           \/ editing' = NoEdit
    BY <1>9, Zenon DEF startEditing, EditCell, cancelEdit
  <2>2. editing'.row \in 0 .. MaxRows /\ editing'.qty \in Few
    <3>1. ASSUME NEW r \in RowIds, editing' = [row |-> r, qty |-> rows[r].qty, ref |-> rows[r].ref] PROVE <2>2
      <4>1. editing'.row = r /\ editing'.qty = rows[r].qty
        BY <3>1
      <4>2. r \in 0 .. MaxRows
        BY EntryAssumption DEF RowIds
      <4> QED
        BY <4>1, <4>2 DEF QuantityTypes
    <3>2. ASSUME NEW q \in 1 .. 2, NEW f \in BOOLEAN, editing' = [editing EXCEPT !.qty = q, !.ref = f] PROVE <2>2
      <4>1. editing'.row = editing.row /\ editing'.qty = q
        BY <3>2, EditingFact
      <4> QED
        BY <4>1 DEF QuantityTypes, Few
    <3>3. ASSUME editing' = NoEdit PROVE <2>2
      BY <3>3, EntryAssumption DEF NoEdit, Few
    <3> QED
      BY <2>1, <3>1, <3>2, <3>3, Zenon
  <2> QED
    BY <2>1, <2>2 DEF QuantityTypes
<1>10. ASSUME commitEdit PROVE QuantityTypes'
  <2>0. editing.row \in RowIds /\ editing.qty \in Few
    <3>1. editing.row # 0
      BY <1>10, Zenon DEF commitEdit
    <3> QED
      BY <3>1, EntryAssumption DEF QuantityTypes, RowIds
  <2> DEFINE new == [op |-> "edit", row |-> editing.row, qty |-> editing.qty,
                     ref |-> editing.ref, product |-> "", txn |-> txnIds[editing.row]]
  <2>1. \/ /\ rows' = [rows EXCEPT ![editing.row].qty = editing.qty, ![editing.row].ref = editing.ref]
           /\ editing' = NoEdit /\ UNCHANGED <<calls, entryLog>>
        \/ calls' = calls \cup {new} /\ UNCHANGED <<rows, editing, entryLog>>
    BY <1>10, Zenon DEF commitEdit, patchRowValues
  <2>2. new.row \in RowIds /\ new.qty \in Few
    BY <2>0
  <2> HIDE DEF new
  <2>3. CASE calls' = calls \cup {new} /\ UNCHANGED <<rows, editing, entryLog>>
    BY <2>2, <2>3 DEF QuantityTypes
  <2>4. CASE /\ rows' = [rows EXCEPT ![editing.row].qty = editing.qty, ![editing.row].ref = editing.ref]
             /\ editing' = NoEdit /\ UNCHANGED <<calls, entryLog>>
    <3>1. \A r \in RowIds : rows'[r].qty = rows[r].qty \/ rows'[r].qty = editing.qty
      BY <1>r, <2>4 DEF GridRows
    <3>2. editing'.row = 0 /\ editing'.qty = 1
      BY <2>4 DEF NoEdit
    <3>3. 0 \in 0 .. MaxRows
      BY EntryAssumption
    <3> QED
      BY <2>0, <2>4, <3>1, <3>2, <3>3, FewFacts DEF QuantityTypes
  <2> QED
    BY <2>1, <2>3, <2>4
<1>11. ASSUME confirmDelete PROVE QuantityTypes'
  <2>0. confirming \in RowIds
    <3>1. confirming # 0
      BY <1>11, Zenon DEF confirmDelete
    <3> QED
      BY <3>1, EntryAssumption DEF FocusTypes, RowIds
  <2> DEFINE new == [op |-> "delete", row |-> confirming, qty |-> 0, ref |-> FALSE,
                     product |-> "", txn |-> txnIds[confirming]]
  <2>1. UNCHANGED <<rows, editing, entryLog>> /\ (calls' = calls \/ calls' = calls \cup {new})
    BY <1>11, Zenon DEF confirmDelete
  <2>2. new.row \in RowIds /\ new.qty \in Few
    BY <2>0, FewFacts
  <2> HIDE DEF new
  <2> QED
    BY <2>1, <2>2 DEF QuantityTypes
<1> QED
  BY <1>1, <1>2, <1>3, <1>4, <1>5, <1>6, <1>7, <1>8, <1>9, <1>10, <1>11, Zenon DEF EntryNext

(* After a commit the focus is on a row of the grid.                         *)
LEMMA FocusNextFacts ==
    ASSUME NEW r \in RowIds, rowCount \in RowIds, focusNext(r)
    PROVE  rowCount' \in RowIds /\ activeRow' \in RowIds /\ activeField' = 0
  BY EntryAssumption DEF focusNext, Smaller, Larger, RowIds

(* Every step keeps the focus on a row and on a column.                      *)
LEMMA FocusNext == FocusTypes /\ QuantityTypes /\ [EntryNext]_entryVars => FocusTypes'
<1> SUFFICES ASSUME FocusTypes, QuantityTypes, [EntryNext]_entryVars PROVE FocusTypes'
  OBVIOUS
<1>0. /\ entryView' = entryView
      /\ \/ rowCount' = rowCount \/ focusNext(activeRow)
         \/ \E c \in calls : focusNext(c.row)
  <2>1. handleKeyDown => <1>0
    BY Zenon DEF handleKeyDown, commitRow
  <2>2. \A c \in calls, ok \in BOOLEAN : CommitAnswers(c, ok) => <1>0
    BY Zenon DEF CommitAnswers, ReceiveCommitAnswers, SaleCommitAnswers
  <2> QED
    BY <2>1, <2>2, Zenon DEF EntryNext, handleFieldFocus, handleFieldChange, handleSearchPanelSelect, clearRow,
       EditAnswers, DeleteAnswers, startEditing, askDelete, EditCell, cancelEdit, commitEdit, cancelDelete,
       confirmDelete, forgetTxnIds, entryVars
<1>f. Fields' = Fields /\ 0 \in Fields /\ 1 \in Fields
  BY <1>0 DEF Fields, ReceiveFIELDS, SaleFIELDS
<1>n. \A i \in Fields : /\ i \in Int /\ (~isLastField(i) => i + 1 \in Fields)
                        /\ i > 0 => i - 1 \in Fields
  BY DEF Fields, ReceiveFIELDS, SaleFIELDS, isLastField
<1>1. rowCount' \in RowIds
  BY <1>0, FocusNextFacts DEF FocusTypes, QuantityTypes
<1>2. activeRow' \in RowIds /\ activeField' \in Fields
  <2>1. CASE handleKeyDown
    <3>1. \/ focusNext(activeRow) \/ UNCHANGED <<activeRow, activeField>>
          \/ ~isLastField(activeField) /\ activeField' = activeField + 1 /\ UNCHANGED activeRow
          \/ /\ NextOpen # {} /\ activeRow' = (CHOOSE i \in NextOpen : \A j \in NextOpen : i <= j)
             /\ activeField' = 0
          \/ activeField > 0 /\ activeField' = activeField - 1 /\ UNCHANGED activeRow
      BY <2>1, Zenon DEF handleKeyDown, commitRow
    <3>2. CASE focusNext(activeRow)
      BY <1>f, <3>2, FocusNextFacts DEF FocusTypes
    <3>3. CASE NextOpen # {} /\ activeRow' = (CHOOSE i \in NextOpen : \A j \in NextOpen : i <= j) /\ activeField' = 0
      <4>1. \E i \in NextOpen : \A j \in NextOpen : i <= j
        <5>1. PICK m \in NextOpen : TRUE
          BY <3>3
        <5>2. NextOpen \subseteq Nat /\ NextOpen \subseteq 1 .. MaxRows /\ IsFiniteSet(NextOpen)
          <6>1. NextOpen \subseteq 1 .. MaxRows /\ IsFiniteSet(1 .. MaxRows)
            BY FS_Interval, EntryAssumption DEF NextOpen, RowIds
          <6>2. IsFiniteSet(NextOpen)
            BY <6>1, FS_Subset, Zenon
          <6> QED
            BY <6>1, <6>2, EntryAssumption
        <5> DEFINE f == [x \in NextOpen |-> x]
        <5>3. \A x \in NextOpen : f[x] = x /\ f[x] \in Int
          BY <5>2
        <5> HIDE DEF f
        <5>4. \E i : Lowest(f, NextOpen, i)
          BY <5>1, <5>2, <5>3, LowestExists
        <5> QED
          BY <5>3, <5>4 DEF Lowest
      <4>2. activeRow' \in NextOpen
        BY <3>3, <4>1
      <4> QED
        BY <1>f, <3>3, <4>2 DEF NextOpen
    <3>4. CASE UNCHANGED <<activeRow, activeField>>
      BY <3>4 DEF FocusTypes
    <3>5. CASE ~isLastField(activeField) /\ activeField' = activeField + 1 /\ UNCHANGED activeRow
      BY <1>n, <3>5 DEF FocusTypes
    <3>6. CASE activeField > 0 /\ activeField' = activeField - 1 /\ UNCHANGED activeRow
      BY <1>n, <3>6 DEF FocusTypes
    <3> QED
      BY <3>1, <3>2, <3>3, <3>4, <3>5, <3>6, Zenon
  <2>2. ASSUME NEW c \in calls, NEW ok \in BOOLEAN, CommitAnswers(c, ok) PROVE <1>2
    <3>1. focusNext(c.row) \/ UNCHANGED <<activeRow, activeField>>
      BY <2>2, Zenon DEF CommitAnswers, ReceiveCommitAnswers, SaleCommitAnswers
    <3> QED
      BY <1>f, <3>1, FocusNextFacts DEF FocusTypes, QuantityTypes
  <2>3. ASSUME NEW r \in RowIds, NEW i \in Fields, handleFieldFocus(r, i) PROVE <1>2
    BY <2>3, Zenon DEF handleFieldFocus
  <2>4. CASE handleSearchPanelSelect \/ clearRow
    <3>1. activeRow' = activeRow /\ (activeField' = 0 \/ activeField' = 1)
      BY <2>4, Zenon DEF handleSearchPanelSelect, clearRow
    <3> QED
      BY <1>f, <3>1 DEF FocusTypes
  <2>5. (\E v \in Cells : handleFieldChange(v))
          \/ (\E c \in calls, ok \in BOOLEAN : EditAnswers(c, ok) \/ DeleteAnswers(c, ok))
          \/ (\E r \in RowIds : startEditing(r) \/ askDelete(r))
          \/ (\E q \in 1 .. 2, f \in BOOLEAN : EditCell(q, f))
          \/ cancelEdit \/ commitEdit \/ cancelDelete \/ confirmDelete \/ forgetTxnIds \/ UNCHANGED entryVars
        => UNCHANGED <<activeRow, activeField>>
    BY Zenon DEF handleFieldChange, EditAnswers, DeleteAnswers, startEditing, askDelete, EditCell,
       cancelEdit, commitEdit, cancelDelete, confirmDelete, forgetTxnIds, entryVars
  <2>6. CASE UNCHANGED <<activeRow, activeField>>
    BY <2>6 DEF FocusTypes
  <2> QED
    BY <2>1, <2>2, <2>3, <2>4, <2>5, <2>6, Zenon DEF EntryNext
<1>3. confirming' = confirming \/ confirming' = 0 \/ \E r \in RowIds : confirming' = r
  <2>1. handleKeyDown => confirming' = confirming
    BY Zenon DEF handleKeyDown, commitRow
  <2> QED
    BY <2>1, Zenon DEF EntryNext, handleFieldFocus, handleFieldChange, handleSearchPanelSelect, clearRow,
       CommitAnswers, EditAnswers, DeleteAnswers, startEditing, askDelete, EditCell, cancelEdit, commitEdit,
       cancelDelete, confirmDelete, forgetTxnIds, entryVars
<1>4. confirming' \in 0 .. MaxRows
  BY <1>3, EntryAssumption DEF FocusTypes, RowIds
<1>5. refused' \subseteq RowIds
  <2>1. refused' = refused \/ refused' = refused \cup {activeRow}
    <3>1. handleKeyDown => <2>1
      BY Zenon DEF handleKeyDown, commitRow
    <3> QED
      BY <3>1, Zenon DEF EntryNext, handleFieldFocus, handleFieldChange, handleSearchPanelSelect, clearRow,
         CommitAnswers, EditAnswers, DeleteAnswers, startEditing, askDelete, EditCell, cancelEdit, commitEdit,
         cancelDelete, confirmDelete, forgetTxnIds, entryVars
  <2> QED
    BY <2>1 DEF FocusTypes
<1>6. misled' \subseteq RowIds
  <2>1. \/ misled' = misled \/ misled' = misled \cup {activeRow}
        \/ editing.row # 0 /\ misled' = misled \cup {editing.row}
        \/ \E c \in calls : misled' = misled \cup {c.row}
    <3>1. handleKeyDown => <2>1
      BY Zenon DEF handleKeyDown, commitRow
    <3> QED
      BY <3>1, Zenon DEF EntryNext, handleFieldFocus, handleFieldChange, handleSearchPanelSelect, clearRow,
         CommitAnswers, EditAnswers, DeleteAnswers, startEditing, askDelete, EditCell, cancelEdit, commitEdit,
         cancelDelete, confirmDelete, forgetTxnIds, entryVars
  <2>2. editing.row # 0 => editing.row \in RowIds
    BY EntryAssumption DEF QuantityTypes, RowIds
  <2> QED
    BY <2>1, <2>2 DEF FocusTypes, QuantityTypes
<1>7. entryView' \in {"receive", "sale"}
  BY <1>0 DEF FocusTypes
<1> QED
  BY <1>1, <1>2, <1>4, <1>5, <1>6, <1>7, <1>f, Zenon DEF FocusTypes

(* The types of the grid.                                                    *)
THEOREM EntryTyped == EntryInit /\ [][EntryNext]_entryVars => []EntryTypeOK
<1>1. EntryInit => FocusTypes /\ QuantityTypes
  <2> SUFFICES ASSUME EntryInit PROVE FocusTypes /\ QuantityTypes
    OBVIOUS
  <2>1. /\ entryView \in {"receive", "sale"} /\ rowCount = 1 /\ activeRow = 1 /\ activeField = 0
        /\ confirming = 0 /\ refused = {} /\ misled = {}
        /\ rows = [r \in RowIds |-> EmptyRow] /\ entryLog = [r \in RowIds |-> 0]
        /\ editing = NoEdit /\ calls = {}
    BY Zenon DEF EntryInit
  <2>2. FocusTypes
    BY <2>1, EntryAssumption DEF FocusTypes, RowIds, Fields, ReceiveFIELDS, SaleFIELDS
  <2>3. QuantityTypes
    <3>1. \A r \in RowIds : rows[r].qty = 1 /\ entryLog[r] = 0
      BY <2>1 DEF EmptyRow
    <3>2. editing.row = 0 /\ editing.qty = 1
      BY <2>1 DEF NoEdit
    <3>3. 0 \in 0 .. MaxRows
      BY EntryAssumption
    <3> QED
      BY <2>1, <3>1, <3>2, <3>3, FewFacts, Zenon DEF QuantityTypes
  <2> QED
    BY <2>2, <2>3
<1>2. GridInv /\ FocusTypes /\ QuantityTypes => EntryTypeOK
  <2> SUFFICES ASSUME GridInv, FocusTypes, QuantityTypes PROVE EntryTypeOK
    OBVIOUS
  <2> DEFINE R == [product : {"", "unknown", "a", "b"}, qty : 0 .. 2, ref : BOOLEAN, committed : BOOLEAN]
  <2>1. \A g \in GridRows : g.qty \in Few => g \in R
    BY DEF GridRows, Names, Few
  <2> HIDE DEF R
  <2>2. rows \in [RowIds -> R]
    BY <2>1, RowsFact DEF QuantityTypes
  <2>3. entryLog \in [RowIds -> 0 .. 2]
    BY LogFact DEF QuantityTypes, Few
  <2> QED
    BY <2>2, <2>3, TxnsFact, Zenon DEF FocusTypes, QuantityTypes, EntryTypeOK, R
<1> QED
  BY <1>1, <1>2, GridStarts, EntryKeeps, FocusNext, QuantityNext, PTL
-----------------------------------------------------------------------------
(* Balances stay within the bound, and so does everything that was read from *)
(* one: the cache and the reads under way.                                   *)
CachedQuantities == Quantities \cup {Absent}
HeldTypes ==
    /\ stockHeld \in [Buckets -> Quantities] /\ balanceCache \in [Buckets -> CachedQuantities]
    /\ \A r \in reads : r.qty \in CachedQuantities
SheetTypes == countEntries \subseteq CountLines /\ submit \in {"idle", "ran", "refused", "reload"}

(* A read that is asked for has the cached quantity.                         *)
LEMMA AskedQuantity ==
    ASSUME HeldTypes, NEW who, NEW b \in Buckets, NEW n, NEW e
    PROVE  getStockBalanceForBucket(who, b, n, e).qty \in CachedQuantities
<1>1. \A q, h : [who |-> who, bucket |-> b, qty |-> q, hit |-> h, late |-> FALSE, next |-> n, ends |-> e].qty = q
  OBVIOUS
<1>2. balanceCache[b] \in CachedQuantities
  BY DEF HeldTypes
<1> QED
  BY <1>1, <1>2, Zenon DEF getStockBalanceForBucket, _readBalanceCache

(* So have the reads a form begins.                                          *)
LEMMA LoadedQuantity ==
    ASSUME HeldTypes, NEW c \in [Slots -> Buckets], NEW e
    PROVE  \A t \in StartLoad(c, e) : t.qty \in CachedQuantities
<1>1. c["from"] \in Buckets
  BY DEF Slots
<1> QED
  BY <1>1, AskedQuantity, Zenon DEF StartLoad, loadBucketQuantity, loadBucketBalances

(* The answer of a read goes into the cache as it is.                        *)
LEMMA CachedQuantity ==
    ASSUME HeldTypes, BalanceTypes, NEW r \in reads, CacheAnswer(r) \/ UNCHANGED <<balanceCache, suspect>>
    PROVE  balanceCache' \in [Buckets -> CachedQuantities]
<1>1. r.qty \in CachedQuantities
  BY DEF HeldTypes
<1>2. balanceCache' = balanceCache \/ balanceCache' = [balanceCache EXCEPT ![r.bucket] = r.qty]
  BY Zenon DEF CacheAnswer, _writeBalanceCache
<1> QED
  BY <1>1, <1>2 DEF HeldTypes

(* A command is refused unless it leaves the balances within the bound.      *)
LEMMA HeldAfterCommand ==
    ASSUME HeldTypes, BalanceTypes, NEW d, RunCommand(d), UNCHANGED balanceCache PROVE HeldTypes'
<1>1. stockHeld' \in [Buckets -> Quantities]
  BY DEF RunCommand, Possible
<1>2. \A t \in reads' : t.qty \in CachedQuantities
  <2> SUFFICES ASSUME NEW t \in reads' PROVE t.qty \in CachedQuantities
    OBVIOUS
  <2>1. PICK r \in reads : t = r \/ t = [r EXCEPT !.late = TRUE]
    BY Zenon DEF RunCommand, Overtaken
  <2>2. r \in Reads /\ r.qty \in CachedQuantities
    BY DEF BalanceTypes, HeldTypes
  <2>3. [r EXCEPT !.late = TRUE].qty = r.qty
    BY <2>2 DEF Reads
  <2> QED
    BY <2>1, <2>2, <2>3, Zenon
<1> QED
  BY <1>1, <1>2 DEF HeldTypes

(* Every step keeps the bound.                                               *)
LEMMA HeldNext == BalanceInv /\ HeldTypes /\ [BalanceNext]_balanceVars => HeldTypes'
<1> SUFFICES ASSUME BalanceInv, HeldTypes, [BalanceNext]_balanceVars PROVE HeldTypes'
  OBVIOUS
<1>t. BalanceTypes
  BY Zenon DEF BalanceInv
<1>c. chosen \in [Slots -> Buckets] /\ submitFor \in [Slots -> Buckets] /\ reads \subseteq Reads
  BY <1>t, Zenon DEF BalanceTypes
<1>k. Absent \in CachedQuantities
  BY DEF CachedQuantities
<1>1. ASSUME UNCHANGED <<stockHeld, balanceCache, reads>> PROVE HeldTypes'
  BY <1>1 DEF HeldTypes
<1>2. ReturnLoadSession \/ DamageLoadSession \/ CountLoadSession \/ handleReset
        \/ (\E l \in CountLines : handleVoidCount(l)) \/ UNCHANGED balanceVars
      => UNCHANGED <<stockHeld, balanceCache, reads>>
  BY Zenon DEF ReturnLoadSession, DamageLoadSession, CountLoadSession, loadSession, handleReset,
               handleVoidCount, balanceVars, dbVars
<1>3. receiveStock \/ sellStock \/ updateTransaction \/ deleteTransaction
        \/ dispatchTransfer \/ receiveTransfer \/ cancelTransfer
      => \E d : RunCommand(d) /\ UNCHANGED balanceCache
  BY Zenon DEF receiveStock, sellStock, updateTransaction, deleteTransaction, OtherRuns,
               dispatchTransfer, receiveTransfer, cancelTransfer, TransferRuns
<1>4. (\E l \in CountLines : AdjustRuns(l)) \/ SubmitRuns
      => (\E d : RunCommand(d) /\ UNCHANGED balanceCache) \/ UNCHANGED <<stockHeld, balanceCache, reads>>
  BY Zenon DEF AdjustRuns, SubmitRuns, handleReturnSubmit, handleDamageSubmit
<1>5. ASSUME NEW d, RunCommand(d), UNCHANGED balanceCache PROVE HeldTypes'
  BY <1>t, <1>5, HeldAfterCommand
<1>6. ASSUME UNCHANGED <<stockHeld, reads>>,
             \/ balanceCache' = [b \in Buckets |-> Absent]
             \/ \E b \in Buckets : balanceCache' = [balanceCache EXCEPT ![b] = Absent]
      PROVE  HeldTypes'
  BY <1>k, <1>6 DEF HeldTypes
<1>7. (\E b \in Buckets : EntryExpires(b)) \/ OtherAnswers
      => /\ UNCHANGED <<stockHeld, reads>>
         /\ \/ balanceCache' = [b \in Buckets |-> Absent]
            \/ \E b \in Buckets : balanceCache' = [balanceCache EXCEPT ![b] = Absent]
  BY Zenon DEF EntryExpires, OtherAnswers, invalidateStockBalanceCache
<1>8. (\E l \in CountLines : CountAnswers(l))
      => /\ UNCHANGED <<stockHeld, reads>>
         /\ balanceCache' = [b \in Buckets |-> Absent] \/ balanceCache' = balanceCache
  BY Zenon DEF CountAnswers, adjustStock, invalidateStockBalanceCache
<1>9. ASSUME NEW r \in reads, ReadRuns(r) PROVE HeldTypes'
  <2>1. /\ reads' = (reads \ {r}) \cup {[r EXCEPT !.qty = stockHeld[r.bucket]]} /\ UNCHANGED <<stockHeld, balanceCache>>
    BY <1>9, Zenon DEF ReadRuns, dbVars
  <2>2. r \in Reads /\ r.bucket \in Buckets /\ stockHeld[r.bucket] \in CachedQuantities
    BY <1>c DEF Reads, HeldTypes, CachedQuantities
  <2>3. [r EXCEPT !.qty = stockHeld[r.bucket]].qty = stockHeld[r.bucket]
    BY <2>2 DEF Reads
  <2> QED
    BY <2>1, <2>2, <2>3 DEF HeldTypes
<1>10. ASSUME NEW r \in reads, NEW ok \in BOOLEAN,
              CountRead(r, ok) \/ ShowBalance(r, ok) \/ CountListLoaded(r, ok) \/ Primed(r)
       PROVE  HeldTypes'
  <2>1. stockHeld' = stockHeld /\ (CacheAnswer(r) \/ UNCHANGED <<balanceCache, suspect>>)
    BY <1>10, Zenon DEF CountRead, ShowBalance, CountListLoaded, Primed
  <2>2. balanceCache' \in [Buckets -> CachedQuantities]
    BY <1>t, <2>1, CachedQuantity
  <2>3. \A t \in reads' : \/ t \in reads
                          \/ r.next # "none" /\ t = getStockBalanceForBucket("to", r.next, "none", r.ends)
    <3>1. reads' = reads \ {r} \/ reads' = ThenLoad(r)
      BY <1>10, Zenon DEF CountRead, ShowBalance, CountListLoaded, Primed
    <3> QED
      BY <3>1, Zenon DEF ThenLoad
  <2>4. r.next # "none" => r.next \in Buckets
    BY <1>c DEF Reads
  <2>5. \A t \in reads' : t.qty \in CachedQuantities
    BY <2>3, <2>4, AskedQuantity, Zenon DEF HeldTypes
  <2> QED
    BY <2>1, <2>2, <2>5 DEF HeldTypes
<1>11. ASSUME getStockBalancesForStore PROVE HeldTypes'
  <2> DEFINE new == [who |-> "prime", bucket |-> "AVAILABLE", qty |-> Absent, hit |-> FALSE,
                     late |-> FALSE, next |-> "none", ends |-> FALSE]
  <2>1. reads' = reads \cup {new} /\ UNCHANGED <<stockHeld, balanceCache>>
    BY <1>11, Zenon DEF getStockBalancesForStore, dbVars
  <2>2. new.qty \in CachedQuantities
    BY <1>k
  <2> HIDE DEF new
  <2> QED
    BY <2>1, <2>2 DEF HeldTypes
<1>12. ASSUME NEW l \in CountLines, NEW n \in Quantities, handleCountCommit(l, n) PROVE HeldTypes'
  <2>1. /\ reads' = reads \cup {getStockBalanceForBucket(l, "AVAILABLE", "none", FALSE)}
        /\ UNCHANGED <<stockHeld, balanceCache>>
    BY <1>12, Zenon DEF handleCountCommit, dbVars, getStockBalance
  <2>2. "AVAILABLE" \in Buckets
    BY DEF Buckets
  <2>3. getStockBalanceForBucket(l, "AVAILABLE", "none", FALSE).qty \in CachedQuantities
    BY <2>2, AskedQuantity
  <2> QED
    BY <2>1, <2>3 DEF HeldTypes
<1>13. ASSUME NEW s \in Slots, NEW b \in Buckets, ChooseBucket(s, b) PROVE HeldTypes'
  <2>1. /\ chosen' = [chosen EXCEPT ![s] = b] /\ reads' = reads \cup StartLoad(chosen', FALSE)
        /\ UNCHANGED <<stockHeld, balanceCache>>
    BY <1>13, Zenon DEF ChooseBucket, ReloadOnChoice, dbVars
  <2>2. chosen' \in [Slots -> Buckets]
    BY <1>c, <2>1
  <2>3. \A t \in StartLoad(chosen', FALSE) : t.qty \in CachedQuantities
    BY <2>2, LoadedQuantity
  <2> QED
    BY <2>1, <2>3 DEF HeldTypes
<1>14. ASSUME SubmitAnswers PROVE HeldTypes'
  <2>1. /\ stockHeld' = stockHeld
        /\ \/ balanceCache' = [b \in Buckets |-> Absent] /\ reads' = reads \cup StartLoad(submitFor, TRUE)
           \/ UNCHANGED <<balanceCache, reads>>
    BY <1>14, Zenon DEF SubmitAnswers, returnStock, moveStockBucket, invalidateStockBalanceCache, ReloadAfter
  <2>2. \A t \in StartLoad(submitFor, TRUE) : t.qty \in CachedQuantities
    BY <1>c, LoadedQuantity
  <2> QED
    BY <1>k, <2>1, <2>2 DEF HeldTypes
<1>15. CASE \E b \in Buckets : EntryExpires(b)
  BY <1>15, <1>6, <1>7, Zenon
<1>16. CASE OtherAnswers
  BY <1>16, <1>6, <1>7, Zenon
<1>17. CASE \E l \in CountLines : CountAnswers(l)
  BY <1>17, <1>1, <1>6, <1>8, Zenon
<1> QED
  BY <1>1, <1>2, <1>3, <1>4, <1>5, <1>9, <1>10, <1>11, <1>12, <1>13, <1>14, <1>15, <1>16, <1>17, Zenon
     DEF BalanceNext

(* Only lines come on the sheet.                                             *)
LEMMA SheetNext == SheetTypes /\ [BalanceNext]_balanceVars => SheetTypes'
<1> SUFFICES ASSUME SheetTypes, [BalanceNext]_balanceVars PROVE SheetTypes'
  OBVIOUS
<1>1. \/ countEntries' \subseteq countEntries
      \/ \E l \in CountLines : countEntries' = countEntries \cup {l}
  <2>0. countEntries \subseteq countEntries /\ {} \subseteq countEntries
        /\ \A l : countEntries \ {l} \subseteq countEntries
    OBVIOUS
  <2>1. (\E b \in Buckets : EntryExpires(b)) \/ (\E r \in reads : ReadRuns(r) \/ Primed(r))
          \/ (\E r \in reads, ok \in BOOLEAN : ShowBalance(r, ok) \/ CountListLoaded(r, ok))
          \/ ReturnLoadSession \/ DamageLoadSession \/ CountLoadSession
          \/ receiveStock \/ sellStock \/ updateTransaction \/ deleteTransaction \/ OtherAnswers
          \/ dispatchTransfer \/ receiveTransfer \/ cancelTransfer \/ getStockBalancesForStore
        => countEntries' = countEntries
    BY Zenon DEF EntryExpires, ReadRuns, Primed, ShowBalance, CountListLoaded, ReturnLoadSession,
       DamageLoadSession, CountLoadSession, loadSession, receiveStock, sellStock, updateTransaction,
       deleteTransaction, OtherRuns, OtherAnswers, dispatchTransfer, receiveTransfer, cancelTransfer,
       TransferRuns, getStockBalancesForStore, countVars
  <2>2. (\E s \in Slots, b \in Buckets : ChooseBucket(s, b)) \/ SubmitRuns \/ SubmitAnswers \/ UNCHANGED balanceVars
          \/ (\E l \in CountLines : (\E n \in Quantities : handleCountCommit(l, n)) \/ AdjustRuns(l))
        => countEntries' = countEntries
    BY Zenon DEF ChooseBucket, SubmitRuns, SubmitAnswers, handleCountCommit, AdjustRuns, countVars, balanceVars
  <2>3. \A r \in reads, ok \in BOOLEAN :
            CountRead(r, ok) => r.who \in CountLines /\ countEntries' \in {countEntries, countEntries \cup {r.who}}
    BY Zenon DEF CountRead
  <2>4. \A l \in CountLines : /\ CountAnswers(l) => countEntries' \in {countEntries, countEntries \cup {l}}
                              /\ handleVoidCount(l) => countEntries' = countEntries \ {l}
    BY Zenon DEF CountAnswers, handleVoidCount
  <2>5. handleReset => countEntries' = {}
    BY Zenon DEF handleReset
  <2> QED
    BY <2>0, <2>1, <2>2, <2>3, <2>4, <2>5, Zenon DEF BalanceNext
<1>2. submit' \in {submit, "idle", "ran", "refused", "reload"}
  <2>1. (\E b \in Buckets : EntryExpires(b)) \/ (\E r \in reads : ReadRuns(r) \/ Primed(r))
          \/ (\E r \in reads, ok \in BOOLEAN : CountRead(r, ok) \/ CountListLoaded(r, ok))
          \/ ReturnLoadSession \/ DamageLoadSession \/ CountLoadSession
          \/ receiveStock \/ sellStock \/ updateTransaction \/ deleteTransaction \/ OtherAnswers
          \/ dispatchTransfer \/ receiveTransfer \/ cancelTransfer \/ getStockBalancesForStore
        => submit' = submit
    BY Zenon DEF EntryExpires, ReadRuns, Primed, CountRead, CountListLoaded, ReturnLoadSession,
       DamageLoadSession, CountLoadSession, loadSession, receiveStock, sellStock, updateTransaction,
       deleteTransaction, OtherRuns, OtherAnswers, dispatchTransfer, receiveTransfer, cancelTransfer,
       TransferRuns, getStockBalancesForStore, formVars
  <2>2. (\E s \in Slots, b \in Buckets : ChooseBucket(s, b)) \/ UNCHANGED balanceVars \/ handleReset
          \/ (\E l \in CountLines : \/ \E n \in Quantities : handleCountCommit(l, n)
                                    \/ AdjustRuns(l) \/ CountAnswers(l) \/ handleVoidCount(l))
        => submit' = submit
    BY Zenon DEF ChooseBucket, handleReset, handleCountCommit, AdjustRuns, CountAnswers, adjustStock,
       handleVoidCount, formVars, balanceVars
  <2>3. \A r \in reads, ok \in BOOLEAN : ShowBalance(r, ok) => submit' \in {submit, "idle"}
    BY Zenon DEF ShowBalance
  <2>4. (SubmitRuns => submit' \in {"ran", "refused"}) /\ (SubmitAnswers => submit' \in {"idle", "reload"})
    BY Zenon DEF SubmitRuns, SubmitAnswers, ReloadAfter
  <2> QED
    BY <2>1, <2>2, <2>3, <2>4, Zenon DEF BalanceNext
<1> QED
  BY <1>1, <1>2 DEF SheetTypes

(* The types of the balance forms.                                           *)
THEOREM BalanceTyped == BalanceInit /\ [][BalanceNext]_balanceVars => []BalanceTypeOK
<1>1. BalanceInit => HeldTypes /\ SheetTypes
  <2> SUFFICES ASSUME BalanceInit PROVE HeldTypes /\ SheetTypes
    OBVIOUS
  <2>1. /\ stockHeld = [b \in Buckets |-> 1] /\ balanceCache = [b \in Buckets |-> Absent]
        /\ countEntries = {} /\ submit = "idle"
        /\ chosen = [s \in Slots |-> IF s = "from" THEN "AVAILABLE" ELSE "DAMAGED"]
        /\ reads = IF balanceView = "count" THEN {getStockBalance("list")} ELSE StartLoad(chosen, FALSE)
    BY Zenon DEF BalanceInit
  <2>2. 1 \in Quantities /\ Absent \in CachedQuantities
    BY BalanceAssumption DEF Quantities, CachedQuantities
  <2>3. chosen["from"] \in Buckets /\ "AVAILABLE" \in Buckets
    BY <2>1 DEF Slots, Buckets
  <2>4. \A w, b, n, e : b \in Buckets => getStockBalanceForBucket(w, b, n, e).qty = Absent
    BY <2>1 DEF getStockBalanceForBucket, _readBalanceCache
  <2>5. \A r \in reads : r.qty \in CachedQuantities
    <3>1. \A r \in reads : \E w, b, n, e : b \in Buckets /\ r = getStockBalanceForBucket(w, b, n, e)
      <4>1. CASE balanceView = "count"
        BY <2>1, <2>3, <4>1, Zenon DEF getStockBalance
      <4>2. CASE balanceView # "count"
        <5>1. reads = StartLoad(chosen, FALSE)
          BY <2>1, <4>2, Zenon
        <5> QED
          BY <2>3, <5>1, Zenon DEF StartLoad, loadBucketQuantity, loadBucketBalances
      <4> QED
        BY <4>1, <4>2, Zenon
    <3> SUFFICES ASSUME NEW r \in reads PROVE r.qty = Absent
      BY <2>2
    <3>2. PICK w, b, n, e : b \in Buckets /\ r = getStockBalanceForBucket(w, b, n, e)
      BY <3>1, Zenon
    <3> QED
      BY <2>4, <3>2, Zenon
  <2>6. stockHeld \in [Buckets -> Quantities] /\ balanceCache \in [Buckets -> CachedQuantities]
    BY <2>1, <2>2
  <2>7. SheetTypes
    BY <2>1 DEF SheetTypes
  <2> QED
    BY <2>5, <2>6, <2>7 DEF HeldTypes
<1>2. BalanceInv /\ HeldTypes /\ SheetTypes => BalanceTypeOK
  <2> SUFFICES ASSUME BalanceInv, HeldTypes, SheetTypes PROVE BalanceTypeOK
    OBVIOUS
  <2>1. countLine \in [CountLines -> Lines] /\ chosen \in [Slots -> Buckets]
    BY Zenon DEF BalanceInv, BalanceTypes
  <2>2. \A l \in CountLines : countLine[l].phase \in Phases
    BY <2>1 DEF Lines
  <2> QED
    BY <2>1, <2>2, Zenon DEF HeldTypes, SheetTypes, BalanceTypeOK, Phases, CachedQuantities
<1> QED
  BY <1>1, <1>2, BalanceStarts, BalanceKeeps, HeldNext, SheetNext, PTL
-----------------------------------------------------------------------------
(* The statuses of the transfers, as they are and as they were read.         *)
StatusTypes ==
    /\ tStatus \in [TransferIds -> Statuses] /\ tListed \in [TransferIds -> Statuses] \cup {Unread}
    /\ \A f \in tFetches : f.snap \in [TransferIds -> Statuses] \cup {Unread}

(* The form of a new transfer; every entry that has left it was a command.   *)
FormTypes ==
    /\ tSource \in TransferStores /\ tDest \in TransferStores \cup {""} /\ tForm \in BOOLEAN /\ tSession \in 0 .. 2
    /\ tEntry \in Nat \ {0} /\ tCommands \in 0 .. MaxCommands
    /\ tEntry <= tCommands + 1 /\ (Creating => tEntry <= tCommands)

(* A command leaves the transfer with a status.                              *)
LEMMA AfterFacts ==
    \A op \in {"dispatch", "receive", "cancel", "exception"} : After(op) \in Statuses
  BY DEF After, Statuses

(* Every step keeps the statuses.                                            *)
LEMMA StatusNext == TransferInv /\ StatusTypes /\ [TransferNext]_transferVars => StatusTypes'
<1> SUFFICES ASSUME TransferInv, StatusTypes, [TransferNext]_transferVars PROVE StatusTypes'
  OBVIOUS
<1> DEFINE Snaps == [TransferIds -> Statuses] \cup {Unread}
<1>a. ASSUME NEW t, NEW s \in Statuses, tStatus' = [tStatus EXCEPT ![t] = s] PROVE tStatus' \in [TransferIds -> Statuses]
  BY <1>a DEF StatusTypes
<1>b. \A e \in BOOLEAN : Fetch(e).snap \in Snaps
  BY FetchFacts
<1>1. tStatus' \in [TransferIds -> Statuses]
  <2>1. UNCHANGED tStatus \/ \E t : tStatus' = [tStatus EXCEPT ![t] = "DRAFT"]
           \/ tStatus' = [tStatus EXCEPT ![t] = "DISPATCHED"]
           \/ \E op \in {"dispatch", "receive", "cancel", "exception"} : tStatus' = [tStatus EXCEPT ![t] = After(op)]
    <3>1. \A d \in BOOLEAN : handleCreateTransfer(d) => \E t : tStatus' = [tStatus EXCEPT ![t] = "DRAFT"]
      BY Zenon DEF handleCreateTransfer
    <3>2. \A ok \in BOOLEAN : CreateDispatches(ok)
             => UNCHANGED tStatus \/ \E t : tStatus' = [tStatus EXCEPT ![t] = "DISPATCHED"]
      BY Zenon DEF CreateDispatches
    <3>3. \A ok \in BOOLEAN : CommandAnswers(ok)
             => \/ UNCHANGED tStatus
                \/ /\ tStatus' = [tStatus EXCEPT ![tOp.id] = After(tOp.op)]
                   /\ tOp.op \in {"dispatch", "receive", "cancel", "exception"}
      BY Zenon DEF CommandAnswers, Permits
    <3>4. \A t \in TransferIds, op \in {"receive", "cancel"} : PulledStatus(t, op)
             => /\ tStatus' = [tStatus EXCEPT ![t] = After(op)]
                /\ op \in {"dispatch", "receive", "cancel", "exception"}
      BY Zenon DEF PulledStatus
    <3>5. (\E f \in tFetches : getTransfers(f) \/ TransfersFetched(f) \/ FetchFails(f))
             \/ Refresh \/ TransferLoadSession \/ SelectTransferProduct
             \/ (\E t \in {"create", "list"} : setActiveTab(t))
             \/ (\E s \in TransferStores : ChooseDestination(s) \/ TransferStoreSwitch(s))
             \/ CreateRefused \/ createTransfer
             \/ (\E t \in TransferIds : handleDispatch(t) \/ handleReceive(t) \/ handleException(t) \/ handleCancel(t))
             \/ UNCHANGED transferVars
          => UNCHANGED tStatus
      BY Zenon DEF getTransfers, TransfersFetched, FetchFails, Refresh, TransferLoadSession, SelectTransferProduct,
         setActiveTab, ChooseDestination, TransferStoreSwitch, CreateRefused, createTransfer, handleDispatch,
         handleReceive, handleException, handleCancel, SendTransfer, transferVars
    <3> QED
      BY <3>1, <3>2, <3>3, <3>4, <3>5, Zenon DEF TransferNext
  <2>2. "DRAFT" \in Statuses /\ "DISPATCHED" \in Statuses
    BY DEF Statuses
  <2>3. CASE UNCHANGED tStatus
    BY <2>3 DEF StatusTypes
  <2> QED
    BY <1>a, <2>1, <2>2, <2>3, AfterFacts, Zenon
<1>2. tListed' = tListed \/ \E f \in tFetches : f.snap # Unread /\ tListed' = f.snap
  BY Zenon DEF TransferNext, getTransfers, TransfersFetched, FetchFails, Refresh, TransferLoadSession,
     SelectTransferProduct, setActiveTab, ChooseDestination, TransferStoreSwitch, handleCreateTransfer,
     CreateRefused, createTransfer, CreateDispatches, CommandAnswers, handleDispatch, handleReceive,
     handleException, handleCancel, SendTransfer, PulledStatus, transferVars
<1>3. \A h \in tFetches' : h.snap \in Snaps
  <2>1. ASSUME NEW f \in tFetches, getTransfers(f) PROVE <1>3
    <3>1. tFetches' = (tFetches \ {f}) \cup {[f EXCEPT !.snap = tStatus]}
      BY <2>1, Zenon DEF getTransfers
    <3>2. f = [snap |-> f.snap, ends |-> f.ends]
      BY DEF TransferInv, HandlerInv
    <3>3. [f EXCEPT !.snap = tStatus].snap = tStatus
      BY <3>2
    <3> QED
      BY <3>1, <3>3 DEF StatusTypes
  <2>2. (\E f \in tFetches : TransfersFetched(f) \/ FetchFails(f))
          \/ Refresh \/ TransferLoadSession \/ SelectTransferProduct
          \/ (\E t \in {"create", "list"} : setActiveTab(t))
          \/ (\E s \in TransferStores : ChooseDestination(s) \/ TransferStoreSwitch(s))
          \/ CreateRefused \/ createTransfer
        => \A h \in tFetches' : h \in tFetches \/ h = Fetch(FALSE) \/ h = Fetch(TRUE)
    BY Zenon DEF TransfersFetched, FetchFails, Refresh, TransferLoadSession, SelectTransferProduct,
       setActiveTab, ChooseDestination, TransferStoreSwitch, CreateRefused, createTransfer, StartFetch
  <2>3. (\E d \in BOOLEAN : handleCreateTransfer(d))
          \/ (\E ok \in BOOLEAN : CreateDispatches(ok) \/ CommandAnswers(ok))
          \/ (\E t \in TransferIds : handleDispatch(t) \/ handleReceive(t) \/ handleException(t) \/ handleCancel(t))
          \/ (\E t \in TransferIds, op \in {"receive", "cancel"} : PulledStatus(t, op))
          \/ UNCHANGED transferVars
        => \A h \in tFetches' : h \in tFetches \/ h = Fetch(FALSE) \/ h = Fetch(TRUE)
    BY Zenon DEF handleCreateTransfer, CreateDispatches, CommandAnswers, FetchAfter, StartFetch,
       handleDispatch, handleReceive, handleException, handleCancel, SendTransfer, PulledStatus, transferVars
  <2>4. ASSUME \A h \in tFetches' : h \in tFetches \/ h = Fetch(FALSE) \/ h = Fetch(TRUE) PROVE <1>3
    BY <1>b, <2>4 DEF StatusTypes
  <2> QED
    BY <2>1, <2>2, <2>3, <2>4, Zenon DEF TransferNext
<1> QED
  BY <1>1, <1>2, <1>3, Zenon DEF StatusTypes

(* Every step keeps the form: a destination is a store, an entry leaves the  *)
(* form only after its command.                                              *)
LEMMA FormNext == TransferInv /\ FormTypes /\ [TransferNext]_transferVars => FormTypes'
<1> SUFFICES ASSUME TransferInv, FormTypes, [TransferNext]_transferVars PROVE FormTypes'
  OBVIOUS
<1>0. /\ tSession \in 0 .. 2 /\ tEntry \in Nat \ {0} /\ tCommands \in 0 .. MaxCommands
      /\ tEntry <= tCommands + 1 /\ (Creating => tEntry <= tCommands)
  BY Zenon DEF FormTypes
<1>1. tSource' \in TransferStores
  <2>1. tSource' = tSource \/ \E s \in TransferStores : tSource' = s
    BY Zenon DEF TransferNext, getTransfers, TransfersFetched, FetchFails, Refresh, TransferLoadSession,
       SelectTransferProduct, setActiveTab, ChooseDestination, TransferStoreSwitch, handleCreateTransfer,
       CreateRefused, createTransfer, CreateDispatches, CommandAnswers, handleDispatch, handleReceive,
       handleException, handleCancel, SendTransfer, PulledStatus, transferVars, screenVars
  <2> QED
    BY <2>1 DEF FormTypes
<1>2. tDest' \in TransferStores \cup {""}
  <2>1. \/ tDest' = tDest \/ (\E s \in TransferStores : tDest' = s)
        \/ DestinationDue /\ tDest' = (CHOOSE s \in TransferStores : s # tSource)
    BY Zenon DEF TransferNext, getTransfers, TransfersFetched, FetchFails, Refresh, TransferLoadSession,
       SelectTransferProduct, setActiveTab, ChooseDestination, TransferStoreSwitch, handleCreateTransfer,
       CreateRefused, createTransfer, CreateDispatches, CommandAnswers, handleDispatch, handleReceive,
       handleException, handleCancel, SendTransfer, PulledStatus, transferVars, screenVars
  <2>2. DestinationDue => (CHOOSE s \in TransferStores : s # tSource) \in TransferStores
    <3>1. DestinationDue => \E s \in TransferStores : s # tSource
      BY DEF DestinationDue, FormTypes
    <3> QED
      BY <3>1
  <2> QED
    BY <2>1, <2>2 DEF FormTypes
<1>3. tForm' \in BOOLEAN
  <2>1. tForm' \in {tForm, TRUE, FALSE}
    BY Zenon DEF TransferNext, getTransfers, TransfersFetched, FetchFails, Refresh, TransferLoadSession,
       SelectTransferProduct, setActiveTab, ChooseDestination, TransferStoreSwitch, handleCreateTransfer,
       CreateRefused, createTransfer, ClearForm, CreateDispatches, CommandAnswers, handleDispatch, handleReceive,
       handleException, handleCancel, SendTransfer, PulledStatus, transferVars, screenVars
  <2> QED
    BY <2>1, Zenon DEF FormTypes
<1>4. tSession' \in 0 .. 2
  <2>1. tSession' = tSession \/ (tSession < 2 /\ tSession' = tSession + 1)
    BY Zenon DEF TransferNext, getTransfers, TransfersFetched, FetchFails, Refresh, TransferLoadSession,
       SelectTransferProduct, setActiveTab, ChooseDestination, TransferStoreSwitch, handleCreateTransfer,
       CreateRefused, createTransfer, CreateDispatches, CommandAnswers, handleDispatch, handleReceive,
       handleException, handleCancel, SendTransfer, PulledStatus, transferVars, screenVars
  <2> QED
    BY <1>0, <2>1
<1>5. /\ tEntry' \in Nat \ {0} /\ tCommands' \in 0 .. MaxCommands
      /\ tEntry' <= tCommands' + 1 /\ (Creating' => tEntry' <= tCommands')
  <2>0. tOp \in Handlers
    BY DEF TransferInv, ScreenTypes
  <2>n. NoOp.stage # "creating" /\ \A o \in Handlers : [o EXCEPT !.stage = "fetching"].stage # "creating"
    BY HandlerFacts DEF Stages
  <2>1. CASE tEntry' = tEntry /\ tCommands' = tCommands /\ (tOp' = tOp \/ tOp' = NoOp \/ tOp' = [tOp EXCEPT !.stage = "fetching"])
    BY <1>0, <2>0, <2>n, <2>1 DEF Creating
  <2>2. CASE /\ tCommands < MaxCommands /\ tCommands' = tCommands + 1 /\ tEntry' = tEntry
    <3>1. tCommands' \in 0 .. MaxCommands /\ tEntry' <= tCommands'
      BY <1>0, <2>2, TransferAssumption
    <3> QED
      BY <1>0, <2>2, <3>1, TransferAssumption
  <2>3. CASE Creating /\ tEntry' = tEntry + 1 /\ tCommands' = tCommands /\ tOp' = [tOp EXCEPT !.stage = "fetching"]
    <3>1. ~Creating'
      BY <2>0, <2>n, <2>3 DEF Creating
    <3> QED
      BY <1>0, <2>3, <3>1, TransferAssumption
  <2>4. (\E f \in tFetches : getTransfers(f) \/ TransfersFetched(f) \/ FetchFails(f))
          \/ Refresh \/ TransferLoadSession \/ SelectTransferProduct
          \/ (\E t \in {"create", "list"} : setActiveTab(t))
          \/ (\E s \in TransferStores : ChooseDestination(s) \/ TransferStoreSwitch(s))
          \/ (\E ok \in BOOLEAN : CommandAnswers(ok))
          \/ (\E t \in TransferIds, op \in {"receive", "cancel"} : PulledStatus(t, op))
          \/ UNCHANGED transferVars
        => tEntry' = tEntry /\ tCommands' = tCommands /\ (tOp' = tOp \/ tOp' = NoOp \/ tOp' = [tOp EXCEPT !.stage = "fetching"])
    BY Zenon DEF getTransfers, TransfersFetched, FetchFails, EndFetch, Refresh, TransferLoadSession,
       SelectTransferProduct, setActiveTab, ChooseDestination, TransferStoreSwitch, CommandAnswers,
       PulledStatus, transferVars, entryFormVars
  <2>5. (\E d \in BOOLEAN : handleCreateTransfer(d)) \/ CreateRefused
          \/ (\E t \in TransferIds : handleDispatch(t) \/ handleReceive(t) \/ handleException(t) \/ handleCancel(t))
        => tCommands < MaxCommands /\ tCommands' = tCommands + 1 /\ tEntry' = tEntry
    BY Zenon DEF handleCreateTransfer, CreateRefused, handleDispatch, handleReceive, handleException,
       handleCancel, SendTransfer, entryFormVars
  <2>6. createTransfer \/ (\E ok \in BOOLEAN : CreateDispatches(ok))
        => \/ Creating /\ tEntry' = tEntry + 1 /\ tCommands' = tCommands /\ tOp' = [tOp EXCEPT !.stage = "fetching"]
           \/ tEntry' = tEntry /\ tCommands' = tCommands /\ tOp' = NoOp
    BY Zenon DEF createTransfer, CreateDispatches, ClearForm, Creating
  <2> QED
    BY <2>1, <2>2, <2>3, <2>4, <2>5, <2>6, Zenon DEF TransferNext
<1> QED
  BY <1>1, <1>2, <1>3, <1>4, <1>5, Zenon DEF FormTypes

(* The types of the transfer screen.                                         *)
THEOREM TransferTyped == TransferInit /\ [][TransferNext]_transferVars => []TransferTypeOK
<1>1. TransferInit => StatusTypes /\ FormTypes
  <2> SUFFICES ASSUME TransferInit PROVE StatusTypes /\ FormTypes
    OBVIOUS
  <2>1. /\ tStatus = [t \in TransferIds |-> "none"] /\ tListed = Unread
        /\ tFetches = {[snap |-> Unread, ends |-> FALSE]}
        /\ tSource \in TransferStores /\ tDest = "" /\ tForm = FALSE
        /\ tOp = NoOp /\ tSession = 0 /\ tCommands = 0 /\ tEntry = 1
    BY Zenon DEF TransferInit
  <2>2. StatusTypes
    <3>1. tStatus \in [TransferIds -> Statuses]
      BY <2>1 DEF Statuses
    <3>2. \A f \in tFetches : f.snap = Unread
      <4>1. tFetches = {Fetch(FALSE)} /\ FALSE \in BOOLEAN
        BY <2>1, Zenon DEF Fetch
      <4> QED
        BY <4>1, FetchFacts
    <3> QED
      BY <2>1, <3>1, <3>2, Zenon DEF StatusTypes
  <2>3. ~Creating
    BY <2>1, HandlerFacts DEF Creating
  <2>4. tEntry \in Nat \ {0} /\ tCommands \in 0 .. MaxCommands /\ tEntry <= tCommands + 1 /\ tSession \in 0 .. 2
    <3>1. tSession = 0 /\ tCommands = 0 /\ tEntry = 1
      BY <2>1
    <3> QED
      BY <3>1, TransferAssumption
  <2>5. FormTypes
    BY <2>1, <2>3, <2>4, Zenon DEF FormTypes
  <2> QED
    BY <2>2, <2>5
<1>2. StatusTypes /\ FormTypes /\ TransferInv => TransferTypeOK
  <2> SUFFICES ASSUME StatusTypes, FormTypes, TransferInv PROVE TransferTypeOK
    OBVIOUS
  <2>1. tEntry \in Entries
    <3>1. tEntry \in Nat \ {0} /\ tCommands \in 0 .. MaxCommands /\ tEntry <= tCommands + 1
      BY Zenon DEF FormTypes
    <3> QED
      BY <3>1, TransferAssumption DEF Entries
  <2>2. tSubmitting \in BOOLEAN
    BY Zenon DEF TransferInv, ScreenFlags
  <2> QED
    BY <2>1, <2>2, Zenon DEF StatusTypes, FormTypes, TransferTypeOK
<1> QED
  BY <1>1, <1>2, TransferStarts, TransferKeeps, StatusNext, FormNext, PTL
-----------------------------------------------------------------------------
(* Only named rows become products, so whatever the screen lists has a SKU.  *)
SkuTypes ==
    /\ catalogue \subseteq Skus /\ sessionRows \subseteq Skus /\ unsynced \subseteq Skus
    /\ removedRows \subseteq Skus /\ strandedRows \subseteq Skus
    /\ addForm \in Skus \cup {Unnamed} /\ \A c \in addCalls : c.sku \in Skus

(* Every import and every call belongs to a visit of the view so far.        *)
VisitTypes ==
    /\ visit \in 1 .. MaxVisits /\ Len(imports) <= MaxImports /\ adds \in 0 .. MaxAdds
    /\ \A i \in DOMAIN imports : imports[i].visit \in 1 .. visit
    /\ \A c \in addCalls : c.visit \in 1 .. visit

NoticeTypes == addNotices \subseteq {"error", "success"} /\ importReport.kind \in {"none", "error", "result"}

(* The rows a batch makes are named.                                         *)
LEMMA BatchSkus ==
    ASSUME NEW f \in ImportFiles, NEW lo \in Nat \ {0}, NEW hi \in Nat, hi <= Len(f)
    PROVE  \A k \in importBatch(f, lo, hi) : f[k] \in Skus
<1>1. f \in Seq(Skus \cup {Unnamed})
  BY ImportAssumption
<1>2. \A k \in lo .. hi : f[k] \in Skus \cup {Unnamed}
  BY <1>1
<1> QED
  BY <1>2 DEF importBatch, pickRowValue

(* What an import made is in the catalogue.                                  *)
LEMMA MadeSkus == ImportInv /\ SkuTypes => \A i \in DOMAIN imports : Made(imports[i]) \subseteq Skus
  BY DEF ImportInv, CountInv, Counted, Made, SkuTypes

(* Every step keeps it.                                                      *)
LEMMA SkusNext == ImportInv /\ SkuTypes /\ [ImportNext]_importVars => SkuTypes'
<1> SUFFICES ASSUME ImportInv, SkuTypes, [ImportNext]_importVars PROVE SkuTypes'
  OBVIOUS
<1>1. ASSUME NEW i \in DOMAIN imports, BatchAnswers(i) PROVE SkuTypes'
  <2>0. imports[i] \in Imports
    BY DEF ImportInv, ImportTypes
  <2>1. PICK im \in Imports : im = imports[i]
    BY <2>0
  <2>2. PICK made : made = importBatch(im.file, im.start + 1, BatchEnd(im))
    OBVIOUS
  <2>3. /\ catalogue' = catalogue \cup {im.file[k] : k \in made}
        /\ unsynced' = unsynced \cup {im.file[k] : k \in made}
        /\ UNCHANGED <<sessionRows, addForm, addCalls, removedRows, strandedRows>>
    BY <1>1, <2>1, <2>2, Zenon DEF BatchAnswers
  <2>4. \A k \in made : im.file[k] \in Skus
    <3>1. im.file \in ImportFiles /\ im.start \in Nat
      BY DEF Imports
    <3>2. im.file \in Seq(Skus \cup {Unnamed})
      BY <3>1, ImportAssumption
    <3>3. im.start + 1 \in Nat \ {0} /\ BatchEnd(im) \in Nat /\ BatchEnd(im) <= Len(im.file)
      BY <3>1, <3>2, ImportAssumption DEF BatchEnd
    <3> QED
      BY <2>2, <3>1, <3>3, BatchSkus
  <2> QED
    BY <2>3, <2>4 DEF SkuTypes
<1>2. ASSUME NEW i \in DOMAIN imports, BatchFails(i) PROVE SkuTypes'
  <2>1. /\ strandedRows' = strandedRows \cup Made(imports[i])
        /\ UNCHANGED <<catalogue, unsynced, sessionRows, addForm, addCalls, removedRows>>
    BY <1>2, Zenon DEF BatchFails, Made
  <2> QED
    BY <2>1, MadeSkus DEF SkuTypes
<1>3. ASSUME NEW i \in DOMAIN imports, ImportEnds(i) PROVE SkuTypes'
  <2>1. /\ sessionRows' = sessionRows \/ sessionRows' = sessionRows \cup Made(imports[i])
        /\ unsynced' = unsynced \/ unsynced' = {}
        /\ UNCHANGED <<catalogue, strandedRows, addForm, addCalls, removedRows>>
    BY <1>3, Zenon DEF ImportEnds, ListRows, Announce
  <2> QED
    BY <2>1, MadeSkus DEF SkuTypes
<1>4. ASSUME handleSimpleAdd PROVE SkuTypes'
  <2> DEFINE new == [sku |-> addForm, visit |-> visit, no |-> adds]
  <2>1. /\ UNCHANGED <<catalogue, sessionRows, unsynced, removedRows, strandedRows, addForm>>
        /\ addCalls' = addCalls \/ (addForm # Unnamed /\ addCalls' = addCalls \cup {new})
    BY <1>4, Zenon DEF handleSimpleAdd
  <2>2. new.sku = addForm
    OBVIOUS
  <2> HIDE DEF new
  <2> QED
    BY <2>1, <2>2 DEF SkuTypes
<1>5. ASSUME NEW c \in addCalls, createProduct(c) PROVE SkuTypes'
  <2>1. /\ addCalls' = addCalls \ {c} /\ UNCHANGED <<removedRows, strandedRows>>
        /\ catalogue' = catalogue \/ catalogue' = catalogue \cup {c.sku}
        /\ unsynced' = unsynced \/ unsynced' = {}
        /\ sessionRows' = sessionRows \/ sessionRows' = sessionRows \cup {c.sku}
        /\ addForm' = addForm \/ addForm' = Unnamed
    BY <1>5, Zenon DEF createProduct
  <2> QED
    BY <2>1 DEF SkuTypes
<1>6. ASSUME \E s \in Skus \cup {Unnamed} : TypeForm(s) PROVE SkuTypes'
  BY <1>6 DEF TypeForm, SkuTypes
<1>7. ASSUME \E s \in sessionRows : removeSessionRow(s) PROVE SkuTypes'
  BY <1>7 DEF removeSessionRow, SkuTypes
<1>8. ASSUME LeaveAndReturn PROVE SkuTypes'
  BY <1>8 DEF LeaveAndReturn, SkuTypes
<1>9. (\E f \in ImportFiles : handleFileImport(f)) \/ (\E i \in DOMAIN imports : FileIsRefused(i) \/ FileIsRead(i))
        \/ UNCHANGED importVars
      => UNCHANGED <<catalogue, sessionRows, unsynced, removedRows, strandedRows, addForm, addCalls>>
  BY Zenon DEF handleFileImport, FileIsRefused, FileIsRead, importVars
<1>10. ASSUME UNCHANGED <<catalogue, sessionRows, unsynced, removedRows, strandedRows, addForm, addCalls>>
       PROVE  SkuTypes'
  BY <1>10 DEF SkuTypes
<1> QED
  BY <1>1, <1>2, <1>3, <1>4, <1>5, <1>6, <1>7, <1>8, <1>9, <1>10, Zenon DEF ImportNext

(* Every step keeps the visits: an import keeps the one it was begun in.     *)
LEMMA VisitsNext == ImportInv /\ VisitTypes /\ [ImportNext]_importVars => VisitTypes'
<1> SUFFICES ASSUME ImportInv, VisitTypes, [ImportNext]_importVars PROVE VisitTypes'
  OBVIOUS
<1>s. imports \in Seq(Imports)
  BY DEF ImportInv, ImportTypes
<1>v. visit \in 1 .. visit /\ visit \in Nat
  BY ImportAssumption DEF VisitTypes
<1>1. ASSUME NEW f \in ImportFiles, handleFileImport(f) PROVE VisitTypes'
  <2> DEFINE new == [step |-> "reading", file |-> f, start |-> 0, made |-> {}, skipped |-> {}, visit |-> visit]
  <2>1. /\ Len(imports) < MaxImports /\ imports' = Append(imports, new)
        /\ UNCHANGED <<visit, addCalls, adds>>
    BY <1>1, Zenon DEF handleFileImport
  <2>2. new.visit = visit
    OBVIOUS
  <2> HIDE DEF new
  <2>3. /\ Len(imports') <= MaxImports
        /\ \A i \in DOMAIN imports' : imports'[i] = new \/ (i \in DOMAIN imports /\ imports'[i] = imports[i])
    BY <1>s, <2>1, ImportAssumption
  <2>4. \A i \in DOMAIN imports' : imports'[i].visit \in 1 .. visit
    BY <1>v, <2>2, <2>3, Zenon DEF VisitTypes
  <2> QED
    BY <2>1, <2>3, <2>4 DEF VisitTypes
<1>2. ASSUME NEW i \in DOMAIN imports,
             FileIsRefused(i) \/ FileIsRead(i) \/ BatchAnswers(i) \/ BatchFails(i) \/ ImportEnds(i)
      PROVE  VisitTypes'
  <2>1. /\ UNCHANGED <<visit, addCalls, adds>>
        /\ \/ imports' = [imports EXCEPT ![i].step = "ended"]
           \/ imports' = [imports EXCEPT ![i].step = "sending"]
           \/ \E m : imports' = [imports EXCEPT ![i].start = @ + BatchSize, ![i].made = @ \cup m,
                                  ![i].skipped = @ \cup SkippedRows(imports[i], m)]
    BY <1>2, Zenon DEF FileIsRefused, FileIsRead, BatchAnswers, BatchFails, ImportEnds, EndImport
  <2>2. /\ Len(imports') = Len(imports) /\ DOMAIN imports' = DOMAIN imports
        /\ \A j \in DOMAIN imports : imports'[j].visit = imports[j].visit
    <3>0. \A j \in DOMAIN imports : imports[j] \in Imports
      BY <1>s
    <3>1. ASSUME NEW s, imports' = [imports EXCEPT ![i].step = s] PROVE <2>2
      BY <1>s, <3>0, <3>1 DEF Imports
    <3>2. ASSUME NEW m, imports' = [imports EXCEPT ![i].start = @ + BatchSize, ![i].made = @ \cup m,
                                  ![i].skipped = @ \cup SkippedRows(imports[i], m)] PROVE <2>2
      BY <1>s, <3>0, <3>2 DEF Imports
    <3> QED
      BY <2>1, <3>1, <3>2, Zenon
  <2> QED
    BY <2>1, <2>2 DEF VisitTypes
<1>3. ASSUME handleSimpleAdd PROVE VisitTypes'
  <2> DEFINE new == [sku |-> addForm, visit |-> visit, no |-> adds]
  <2>1. /\ UNCHANGED <<imports, visit>>
        /\ \/ UNCHANGED <<addCalls, adds>>
           \/ adds < MaxAdds /\ adds' = adds + 1 /\ addCalls' = addCalls \cup {new}
    BY <1>3, Zenon DEF handleSimpleAdd
  <2>2. new.visit = visit
    OBVIOUS
  <2> HIDE DEF new
  <2>3. adds' \in 0 .. MaxAdds
    BY <2>1, ImportAssumption DEF VisitTypes
  <2>4. \A c \in addCalls' : c.visit \in 1 .. visit
    BY <1>v, <2>1, <2>2, Zenon DEF VisitTypes
  <2> QED
    BY <2>1, <2>3, <2>4 DEF VisitTypes
<1>4. ASSUME \E c \in addCalls : createProduct(c) PROVE VisitTypes'
  <2>1. UNCHANGED <<imports, visit, adds>> /\ addCalls' \subseteq addCalls
    BY <1>4 DEF createProduct
  <2> QED
    BY <2>1 DEF VisitTypes
<1>5. ASSUME LeaveAndReturn PROVE VisitTypes'
  <2>1. visit < MaxVisits /\ visit' = visit + 1 /\ UNCHANGED <<imports, addCalls, adds>>
    BY <1>5, Zenon DEF LeaveAndReturn
  <2>2. visit' \in 1 .. MaxVisits /\ \A v \in 1 .. visit : v \in 1 .. visit'
    BY <1>v, <2>1, ImportAssumption
  <2> QED
    BY <2>1, <2>2 DEF VisitTypes
<1>6. (\E s \in Skus \cup {Unnamed} : TypeForm(s)) \/ (\E s \in sessionRows : removeSessionRow(s))
        \/ UNCHANGED importVars
      => UNCHANGED <<imports, visit, addCalls, adds>>
  BY Zenon DEF TypeForm, removeSessionRow, importVars
<1>7. ASSUME UNCHANGED <<imports, visit, addCalls, adds>> PROVE VisitTypes'
  BY <1>7 DEF VisitTypes
<1> QED
  BY <1>1, <1>2, <1>3, <1>4, <1>5, <1>6, <1>7, Zenon DEF ImportNext

(* The messages on the screen.                                               *)
LEMMA NoticesNext == NoticeTypes /\ [ImportNext]_importVars => NoticeTypes'
<1> SUFFICES ASSUME NoticeTypes, [ImportNext]_importVars PROVE NoticeTypes'
  OBVIOUS
<1>0. NoReport.kind = "none" /\ BadFile.kind = "error" /\ \A im : Report(im).kind = "result"
  BY DEF NoReport, BadFile, Report
<1>1. addNotices' \subseteq {"error", "success"}
  <2>1. \/ addNotices' \in {addNotices, {}, {"error"}}
        \/ addNotices' \in {addNotices \cup {"success"}, addNotices \ {"success"}, addNotices \cup {"error"}}
    <3>1. \A i \in DOMAIN imports : ImportEnds(i) => <2>1
      BY DEF ImportEnds
    <3>2. \A c \in addCalls : createProduct(c) => <2>1
      BY DEF createProduct
    <3>3. handleSimpleAdd => <2>1
      BY DEF handleSimpleAdd
    <3>4. (\E f \in ImportFiles : handleFileImport(f)) \/ LeaveAndReturn => addNotices' = {}
      BY Zenon DEF handleFileImport, LeaveAndReturn
    <3>5. (\E i \in DOMAIN imports : FileIsRefused(i) \/ FileIsRead(i) \/ BatchAnswers(i) \/ BatchFails(i))
            \/ (\E s \in Skus \cup {Unnamed} : TypeForm(s)) \/ (\E s \in sessionRows : removeSessionRow(s))
            \/ UNCHANGED importVars
          => addNotices' = addNotices
      BY Zenon DEF FileIsRefused, FileIsRead, BatchAnswers, BatchFails, TypeForm, removeSessionRow, importVars
    <3> QED
      BY <3>1, <3>2, <3>3, <3>4, <3>5, Zenon DEF ImportNext
  <2> QED
    BY <2>1 DEF NoticeTypes
<1>2. importReport' \in {importReport, NoReport, BadFile} \/ \E im : importReport' = Report(im)
  <2>1. \A i \in DOMAIN imports : FileIsRefused(i) \/ BatchFails(i) => importReport' \in {importReport, BadFile}
    BY Zenon DEF FileIsRefused, BatchFails, EndImport
  <2>2. \A i \in DOMAIN imports : ImportEnds(i) => importReport' = importReport \/ importReport' = Report(imports[i])
    BY Zenon DEF ImportEnds, EndImport
  <2>3. (\E f \in ImportFiles : handleFileImport(f)) \/ LeaveAndReturn => importReport' = NoReport
    BY Zenon DEF handleFileImport, LeaveAndReturn
  <2>4. (\E i \in DOMAIN imports : FileIsRead(i) \/ BatchAnswers(i)) \/ handleSimpleAdd
          \/ (\E c \in addCalls : createProduct(c))
          \/ (\E s \in Skus \cup {Unnamed} : TypeForm(s)) \/ (\E s \in sessionRows : removeSessionRow(s))
          \/ UNCHANGED importVars
        => importReport' = importReport
    BY Zenon DEF FileIsRead, BatchAnswers, handleSimpleAdd, createProduct, TypeForm, removeSessionRow, importVars
  <2> QED
    BY <2>1, <2>2, <2>3, <2>4, Zenon DEF ImportNext
<1> QED
  BY <1>0, <1>1, <1>2, Zenon DEF NoticeTypes

(* The types of the import screen.                                           *)
THEOREM ImportTyped == ImportInit /\ [][ImportNext]_importVars => []ImportTypeOK
<1>1. ImportInit => SkuTypes /\ VisitTypes /\ NoticeTypes
  <2> SUFFICES ASSUME ImportInit PROVE SkuTypes /\ VisitTypes /\ NoticeTypes
    OBVIOUS
  <2>1. SkuTypes
    BY DEF ImportInit, SkuTypes
  <2>2. VisitTypes
    BY ImportAssumption DEF ImportInit, VisitTypes
  <2>3. NoticeTypes
    <3>1. importReport.kind = "none"
      BY DEF ImportInit, NoReport
    <3> QED
      BY <3>1 DEF ImportInit, NoticeTypes
  <2> QED
    BY <2>1, <2>2, <2>3
<1>2. ImportInv /\ SkuTypes /\ VisitTypes /\ NoticeTypes => ImportTypeOK
  <2> SUFFICES ASSUME ImportInv, SkuTypes, VisitTypes, NoticeTypes PROVE ImportTypeOK
    OBVIOUS
  <2>1. ASSUME NEW i \in DOMAIN imports
        PROVE  /\ imports[i].step \in {"reading", "sending", "ended"} /\ imports[i].file \in ImportFiles
               /\ imports[i].made \subseteq DOMAIN imports[i].file
    <3>0. imports[i] \in Imports
      BY DEF ImportInv, ImportTypes
    <3>1. /\ imports[i].step \in {"reading", "sending", "ended"} /\ imports[i].file \in ImportFiles
          /\ imports[i].start \in Nat
      BY <3>0 DEF Imports
    <3>2. imports[i].file \in Seq(Skus \cup {Unnamed})
      BY <3>1, ImportAssumption
    <3>3. \A k \in 1 .. Reached(imports[i]) : k \in DOMAIN imports[i].file
      BY <3>1, <3>2 DEF Reached
    <3>4. imports[i].made \subseteq 1 .. Reached(imports[i])
      BY Zenon DEF ImportInv, CountInv, Counted
    <3> QED
      BY <3>1, <3>3, <3>4, Zenon
  <2>2. importRunning \in BOOLEAN /\ overlapped \in BOOLEAN
    BY Zenon DEF ImportInv, ImportTypes
  <2> QED
    BY <2>1, <2>2, Zenon DEF SkuTypes, VisitTypes, NoticeTypes, ImportTypeOK
<1> QED
  BY <1>1, <1>2, ImportStarts, ImportKeeps, SkusNext, VisitsNext, NoticesNext, PTL
-----------------------------------------------------------------------------
(* The products there are, of which there are never fewer than before.       *)
Existing == {i \in Products : categoryOf[i] # None}
IsTableOf(t) == DOMAIN t \subseteq Products /\ \A i \in DOMAIN t : t[i] \in Categories
IsCount(n) == n \in Nat /\ n <= Cardinality(Existing)

(* What is listed are products with their categories, and no count, read or  *)
(* shown, exceeds the number of products: the pager stays within them.       *)
ListedTypes ==
    /\ categoryOf \in [Products -> Categories \cup {None}] /\ query \in ListQueries
    /\ IsTableOf(tableRows) /\ IsCount(totalProducts)
    /\ quantities \subseteq Products /\ balanceLoad \subseteq Products
    /\ \A f \in fetches : /\ f.q \in ListQueries /\ IsCount(f.count)
                          /\ f.tableRows = NotRead \/ IsTableOf(f.tableRows)

(* What the modal holds, and what was submitted from it.                     *)
Submits == [step : {"sent", "reading"}, of : {Create} \cup Products, category : Categories, query : ListQueries]
ModalTypes ==
    /\ modalForm \in Categories /\ productModal \in {Closed, Create} \cup Products
    /\ modalSubmit = NoSubmit \/ modalSubmit \in Submits

ListFlags == loading \in BOOLEAN /\ storesRead \in BOOLEAN /\ userSteps \in 0 .. MaxActions

(* The products that exist can be counted.                                   *)
LEMMA ExistingFacts ==
    /\ IsFiniteSet(Existing) /\ Cardinality(Existing) \in Nat /\ Cardinality(Existing) <= MaxProduct
    /\ \A q : /\ Matching(q) \subseteq Existing /\ IsFiniteSet(Matching(q))
              /\ Cardinality(Matching(q)) \in Nat /\ Cardinality(Matching(q)) <= Cardinality(Existing)
<1>1. IsFiniteSet(Products) /\ Cardinality(Products) = MaxProduct
  BY FS_Interval, ListAssumption DEF Products
<1>2. Existing \subseteq Products /\ \A q : Matching(q) \subseteq Existing
  BY DEF Existing, Matching
<1>3. IsFiniteSet(Existing) /\ Cardinality(Existing) <= Cardinality(Products)
  BY <1>1, <1>2, FS_Subset
<1>4. Cardinality(Existing) \in Nat
  BY <1>3, FS_CardinalityType
<1>5. ASSUME NEW q PROVE /\ IsFiniteSet(Matching(q)) /\ Cardinality(Matching(q)) \in Nat
                         /\ Cardinality(Matching(q)) <= Cardinality(Existing)
  BY <1>2, <1>3, FS_Subset, FS_CardinalityType
<1> QED
  BY <1>1, <1>2, <1>3, <1>4, <1>5

(* What the database answers is a table, and a count.                        *)
LEMMA AnswerTypes ==
    ASSUME categoryOf \in [Products -> Categories \cup {None}]
    PROVE  \A q : IsTableOf(Answer(q)) /\ IsCount(getProductsCount(q))
<1> SUFFICES ASSUME NEW q PROVE IsTableOf(Answer(q)) /\ IsCount(getProductsCount(q))
  OBVIOUS
<1>1. \A i \in Matching(q) : i \in Products /\ categoryOf[i] \in Categories
  BY DEF Matching
<1>2. PICK S : Answer(q) = [i \in S |-> categoryOf[i]] /\ S \subseteq Matching(q)
  <2>1. searchTable(q) \subseteq Matching(q) /\ getProductsPaginated(q) \subseteq Matching(q)
    BY DEF searchTable, getProductsPaginated
  <2> QED
    BY <2>1, Zenon DEF Answer, Rows
<1>3. IsTableOf(Answer(q))
  BY <1>1, <1>2 DEF IsTableOf
<1>4. IsCount(getProductsCount(q))
  BY ExistingFacts DEF IsCount, getProductsCount
<1> QED
  BY <1>3, <1>4

(* A read that begins has no rows and counts none.                           *)
LEMMA BegunTypes ==
    ASSUME NEW q \in ListQueries, NEW n
    PROVE  /\ StartRead(q, n).q \in ListQueries /\ IsCount(StartRead(q, n).count)
           /\ StartRead(q, n).tableRows = NotRead
<1>1. StartRead(q, n).q = q /\ StartRead(q, n).count = 0 /\ StartRead(q, n).tableRows = NotRead
  BY DEF StartRead
<1>2. IsCount(0)
  BY ExistingFacts DEF IsCount
<1> QED
  BY <1>1, <1>2

(* Queries that differ in one field are queries.                             *)
LEMMA QueryTypes ==
    ASSUME NEW q \in ListQueries
    PROVE  /\ \A n \in 1 .. MaxProduct : [q EXCEPT !.page = n] \in ListQueries
           /\ \A s \in BOOLEAN, c \in Categories \cup {All} : [q EXCEPT !.search = s, !.category = c] \in ListQueries
           /\ q.page \in 1 .. MaxProduct
  BY DEF ListQueries

(* The reload of the balances is for the rows that are shown.                *)
LEMMA ReloadTypes ==
    ASSUME NEW ids \in SUBSET Products, ReloadBalances(ids), quantities \subseteq Products
    PROVE  balanceLoad' \subseteq Products /\ quantities' \subseteq Products
<1>1. \/ balanceLoad' = {} /\ quantities' = {}
      \/ balanceLoad' = ids /\ quantities' = quantities
  BY Zenon DEF ReloadBalances
<1> QED
  BY <1>1

(* New reads for a new query.                                                *)
LEMMA QueryKeepsListed ==
    ASSUME ListedTypes, query' \in ListQueries, NEW qs \in SUBSET ListQueries, fetchProductsList(qs), Unedited
    PROVE  ListedTypes'
<1>1. \A f \in fetches' : f \in fetches \/ \E n : \E q \in qs : f = StartRead(q, n)
  BY Zenon DEF fetchProductsList
<1>2. \A f \in fetches' : /\ f.q \in ListQueries /\ IsCount(f.count)
                          /\ f.tableRows = NotRead \/ IsTableOf(f.tableRows)
  <2> SUFFICES ASSUME NEW f \in fetches'
               PROVE  /\ f.q \in ListQueries /\ IsCount(f.count)
                      /\ f.tableRows = NotRead \/ IsTableOf(f.tableRows)
    BY Zenon
  <2>1. CASE f \in fetches
    BY <2>1, Zenon DEF ListedTypes
  <2>2. CASE \E n : \E q \in qs : f = StartRead(q, n)
    <3>1. PICK n : \E q \in qs : f = StartRead(q, n)
      BY <2>2, Zenon
    <3>2. PICK q \in qs : f = StartRead(q, n)
      BY <3>1, Zenon
    <3>3. q \in ListQueries
      BY <3>2
    <3> QED
      BY <3>2, <3>3, BegunTypes, Zenon
  <2> QED
    BY <1>1, <2>1, <2>2
<1>3. UNCHANGED <<categoryOf, tableRows, totalProducts, quantities, balanceLoad>>
  BY Zenon DEF Unedited
<1>4. \A n : IsCount(n)' = IsCount(n)
  BY <1>3 DEF IsCount, Existing
<1> QED
  BY <1>2, <1>3, <1>4 DEF ListedTypes, IsTableOf, IsCount, Existing

(* A product that was saved is one of those that exist.                      *)
LEMMA SavedExists ==
    ASSUME categoryOf \in [Products -> Categories \cup {None}], NEW i \in Products, NEW c \in Categories,
           categoryOf' = [categoryOf EXCEPT ![i] = c]
    PROVE  /\ categoryOf' \in [Products -> Categories \cup {None}]
           /\ \A n : IsCount(n) => (n \in Nat /\ n <= Cardinality(Existing'))
           /\ categoryOf[i] = None => \A n : IsCount(n) => (n + 1 \in Nat /\ n + 1 <= Cardinality(Existing'))
<1>1. Existing' = Existing \cup {i}
  BY ListAssumption DEF Existing
<1>2. Cardinality(Existing') = IF i \in Existing THEN Cardinality(Existing) ELSE Cardinality(Existing) + 1
  BY <1>1, ExistingFacts, FS_AddElement
<1>3. categoryOf[i] = None => i \notin Existing
  BY DEF Existing
<1> QED
  BY <1>2, <1>3, ExistingFacts DEF IsCount

(* Every step keeps what is listed.                                          *)
LEMMA ListedNext == ListInv /\ ModalTypes /\ ListedTypes /\ [ListNext]_listVars => ListedTypes'
<1> SUFFICES ASSUME ListInv, ModalTypes, ListedTypes, [ListNext]_listVars PROVE ListedTypes'
  OBVIOUS
<1>q. query \in ListQueries /\ categoryOf \in [Products -> Categories \cup {None}]
  BY Zenon DEF ListedTypes
<1>p. 1 \in 1 .. MaxProduct
  BY ListAssumption
<1>1. ASSUME NEW f \in fetches, FetchRuns(f) PROVE ListedTypes'
  <2>1. /\ fetches' = (fetches \ {f}) \cup {[f EXCEPT !.tableRows = Answer(f.q), !.count = getProductsCount(f.q)]}
        /\ UNCHANGED <<categoryOf, query, tableRows, totalProducts, quantities, balanceLoad>>
    BY <1>1, Zenon DEF FetchRuns
  <2>2. PICK g : g = [f EXCEPT !.tableRows = Answer(f.q), !.count = getProductsCount(f.q)]
    OBVIOUS
  <2>3. f = [q |-> f.q, no |-> f.no, tableRows |-> f.tableRows, count |-> f.count] /\ f.q \in ListQueries
    BY DEF ListInv, ReadsInv, IsRead, ListedTypes
  <2>4. g.q = f.q /\ g.tableRows = Answer(f.q) /\ g.count = getProductsCount(f.q)
    BY <2>2, <2>3
  <2>5. IsTableOf(g.tableRows) /\ IsCount(g.count) /\ g.q \in ListQueries
    BY <1>q, <2>3, <2>4, AnswerTypes
  <2>6. Existing' = Existing
    BY <2>1 DEF Existing
  <2> QED
    BY <2>1, <2>2, <2>5, <2>6 DEF ListedTypes, IsTableOf, IsCount
<1>2. ASSUME NEW f \in fetches, FetchAnswers(f) PROVE ListedTypes'
  <2>1. /\ f.tableRows # NotRead /\ fetches' = fetches \ {f}
        /\ tableRows' = f.tableRows /\ totalProducts' = f.count /\ ReloadBalances(DOMAIN f.tableRows)
        /\ UNCHANGED <<categoryOf, query>>
    BY <1>2, Zenon DEF FetchAnswers
  <2>2. IsTableOf(f.tableRows) /\ IsCount(f.count)
    BY <2>1 DEF ListedTypes
  <2>3. balanceLoad' \subseteq Products /\ quantities' \subseteq Products
    BY <2>1, <2>2, ReloadTypes DEF IsTableOf, ListedTypes
  <2>4. Existing' = Existing
    BY <2>1 DEF Existing
  <2> QED
    BY <2>1, <2>2, <2>3, <2>4 DEF ListedTypes, IsTableOf, IsCount
<1>3. ASSUME \/ \E f \in fetches : ReadFails(f)
             \/ StoresArrive \/ loadBalances \/ UNCHANGED listVars
             \/ handleOpenCreateModal \/ CloseModal
             \/ \E i \in Products : handleOpenEditModal(i)
             \/ \E c \in Categories : TypeInForm(c)
             \/ handleSubmit \/ SubmitFails \/ SubmitEnds
      PROVE  ListedTypes'
  <2>1. /\ UNCHANGED <<categoryOf, query, tableRows, totalProducts>>
        /\ fetches' = fetches \/ \E f \in fetches : fetches' = fetches \ {f}
        /\ balanceLoad' \in {{}, balanceLoad, DOMAIN tableRows} /\ quantities' \in {quantities, balanceLoad}
    <3>1. (\E f \in fetches : ReadFails(f)) \/ StoresArrive \/ loadBalances \/ UNCHANGED listVars => <2>1
      BY DEF ReadFails, StoresArrive, loadBalances, listVars
    <3>2. handleOpenCreateModal \/ CloseModal \/ (\E i \in Products : handleOpenEditModal(i))
            \/ (\E c \in Categories : TypeInForm(c)) \/ handleSubmit \/ SubmitFails \/ SubmitEnds
          => UNCHANGED categoryOf /\ Unlisted
      BY Zenon DEF handleOpenCreateModal, CloseModal, handleOpenEditModal, TypeInForm, handleSubmit,
                   SubmitFails, SubmitEnds
    <3>3. UNCHANGED categoryOf /\ Unlisted => <2>1
      BY DEF Unlisted
    <3> QED
      BY <1>3, <3>1, <3>2, <3>3, Zenon
  <2>2. Existing' = Existing
    BY <2>1 DEF Existing
  <2>3. balanceLoad' \subseteq Products /\ quantities' \subseteq Products
    BY <2>1 DEF ListedTypes, IsTableOf
  <2>4. \A f \in fetches' : f \in fetches
    BY <2>1
  <2> QED
    BY <2>1, <2>2, <2>3, <2>4 DEF ListedTypes, IsTableOf, IsCount
<1>4. ASSUME NEW q \in ListQueries, FilterRead(q), Unedited PROVE ListedTypes'
  <2>1. [q EXCEPT !.page = 1] \in ListQueries
    BY <1>p, QueryTypes
  <2>2. query' = [q EXCEPT !.page = 1] /\ fetchProductsList({q, [q EXCEPT !.page = 1]})
    BY <1>4, Zenon DEF FilterRead
  <2>3. query' \in ListQueries /\ {q, [q EXCEPT !.page = 1]} \in SUBSET ListQueries
    BY <2>1, <2>2, Zenon
  <2> QED
    BY <1>4, <2>2, <2>3, QueryKeepsListed
<1>5. ASSUME NEW s \in BOOLEAN, NEW c \in Categories \cup {All}, SetFilter(s, c) PROVE ListedTypes'
  <2>1. FilterRead([query EXCEPT !.search = s, !.category = c]) /\ Unedited
    BY <1>5, Zenon DEF SetFilter
  <2>2. [query EXCEPT !.search = s, !.category = c] \in ListQueries
    BY <1>q, QueryTypes
  <2> QED
    BY <1>4, <2>1, <2>2
<1>6. ASSUME handleClearFilters PROVE ListedTypes'
  <2>1. FilterRead([query EXCEPT !.search = FALSE, !.category = All]) /\ Unedited
    BY <1>6, Zenon DEF handleClearFilters
  <2>2. [query EXCEPT !.search = FALSE, !.category = All] \in ListQueries
    BY <1>q DEF ListQueries
  <2> QED
    BY <1>4, <2>1, <2>2
<1>7. ASSUME query' \in ListQueries, fetchProductsList({query'}), Unedited PROVE ListedTypes'
  BY <1>7, QueryKeepsListed
<1>8. ASSUME handlePreviousPage \/ handleNextPage PROVE ListedTypes'
  <2>0. query.page \in 1 .. MaxProduct /\ totalProducts \in Nat /\ totalProducts <= MaxProduct
    <3>1. IsCount(totalProducts)
      BY Zenon DEF ListedTypes
    <3>2. totalProducts \in Nat /\ totalProducts <= Cardinality(Existing)
      BY <3>1, Zenon DEF IsCount
    <3>3. totalProducts <= MaxProduct
      BY <3>2, ExistingFacts, ListAssumption
    <3>4. query.page \in 1 .. MaxProduct
      BY <1>q, QueryTypes, Zenon
    <3> QED
      BY <3>2, <3>3, <3>4
  <2>1. /\ Unedited /\ fetchProductsList({query'})
        /\ \/ query.page > 1 /\ query' = [query EXCEPT !.page = query.page - 1]
           \/ query.page < totalProducts /\ query' = [query EXCEPT !.page = query.page + 1]
    BY <1>8, Zenon DEF handlePreviousPage, handleNextPage, totalPages
  <2>2. PICK n : n \in 1 .. MaxProduct /\ query' = [query EXCEPT !.page = n]
    <3>1. CASE query.page > 1 /\ query' = [query EXCEPT !.page = query.page - 1]
      <4>1. query.page - 1 \in 1 .. MaxProduct
        BY <2>0, <3>1, ListAssumption
      <4> QED
        BY <3>1, <4>1, Zenon
    <3>2. CASE query.page < totalProducts /\ query' = [query EXCEPT !.page = query.page + 1]
      <4>1. query.page + 1 \in 1 .. MaxProduct
        BY <2>0, <3>2, ListAssumption
      <4> QED
        BY <3>2, <4>1, Zenon
    <3> QED
      BY <2>1, <3>1, <3>2
  <2>3. query' \in ListQueries
    BY <1>q, <2>2, QueryTypes, Zenon
  <2> QED
    BY <1>7, <2>1, <2>3
<1>9. ASSUME RetryLoad PROVE ListedTypes'
  <2>1. query' = query /\ fetchProductsList({query}) /\ Unedited
    BY <1>9, Zenon DEF RetryLoad
  <2>2. query' \in ListQueries /\ {query} \in SUBSET ListQueries
    BY <1>q, <2>1
  <2> QED
    BY <2>1, <2>2, QueryKeepsListed
<1>10. ASSUME ModalAnswers PROVE ListedTypes'
  <2>1. PICK i \in Products :
            /\ IF modalSubmit.of = Create THEN categoryOf[i] = None ELSE i = modalSubmit.of
            /\ categoryOf' = [categoryOf EXCEPT ![i] = modalSubmit.category]
            /\ ShowChange(i, modalSubmit.category)
    BY <1>10, Zenon DEF ModalAnswers
  <2>2. modalSubmit.category \in Categories /\ modalSubmit.query \in ListQueries /\ query' = query
    <3>1. modalSubmit.step = "sent" /\ query' = query
      BY <1>10, Zenon DEF ModalAnswers
    <3>2. NoSubmit.step # "sent"
      BY DEF NoSubmit
    <3>3. modalSubmit \in Submits
      BY <3>1, <3>2, Zenon DEF ModalTypes
    <3> QED
      BY <3>1, <3>3 DEF Submits
  <2>3. PICK c \in Categories : c = modalSubmit.category
    BY <2>2
  <2>4. /\ \/ tableRows' = tableRows
           \/ tableRows' = [j \in DOMAIN tableRows \cup {i} |-> IF j = i THEN c ELSE tableRows[j]]
        /\ totalProducts' = totalProducts \/ (categoryOf[i] = None /\ totalProducts' = totalProducts + 1)
        /\ ReloadBalances(DOMAIN tableRows')
        /\ fetches' = fetches \cup {StartRead(modalSubmit.query, NextNo)}
    BY <2>1, <2>3, Zenon DEF ShowChange
  <2>5. IsTableOf(tableRows')
    BY <2>4 DEF ListedTypes, IsTableOf
  <2>6. balanceLoad' \subseteq Products /\ quantities' \subseteq Products
    BY <2>4, <2>5, ReloadTypes DEF IsTableOf, ListedTypes
  <2>7. /\ categoryOf' \in [Products -> Categories \cup {None}]
        /\ \A n : IsCount(n) => (n \in Nat /\ n <= Cardinality(Existing'))
        /\ categoryOf[i] = None => \A n : IsCount(n) => (n + 1 \in Nat /\ n + 1 <= Cardinality(Existing'))
    BY <1>q, <2>1, <2>3, SavedExists
  <2>8. totalProducts' \in Nat /\ totalProducts' <= Cardinality(Existing')
    BY <2>4, <2>7, Zenon DEF ListedTypes
  <2>9. \A f \in fetches' : /\ f.q \in ListQueries /\ f.count \in Nat /\ f.count <= Cardinality(Existing')
                            /\ f.tableRows = NotRead \/ IsTableOf(f.tableRows)
    BY <2>2, <2>4, <2>7, BegunTypes, Zenon DEF ListedTypes
  <2> QED
    BY <1>q, <2>2, <2>5, <2>6, <2>7, <2>8, <2>9 DEF ListedTypes, IsTableOf, IsCount
<1> QED
  BY <1>1, <1>2, <1>3, <1>5, <1>6, <1>8, <1>9, <1>10, Zenon DEF ListNext

(* Every step keeps the modal: it shows a row, or is empty, and what is      *)
(* submitted is what it showed.                                              *)
LEMMA ModalNext == ListedTypes /\ ModalTypes /\ [ListNext]_listVars => ModalTypes'
<1> SUFFICES ASSUME ListedTypes, ModalTypes, [ListNext]_listVars PROVE ModalTypes'
  OBVIOUS
<1>c. (CHOOSE c \in Categories : TRUE) \in Categories
  BY ListAssumption
<1>1. modalForm' \in Categories
  <2>1. \/ modalForm' = modalForm \/ modalForm' = (CHOOSE c \in Categories : TRUE)
        \/ (\E i \in DOMAIN tableRows : modalForm' = tableRows[i]) \/ \E c \in Categories : modalForm' = c
    BY Zenon DEF ListNext, FetchRuns, FetchAnswers, ReadFails, StoresArrive, loadBalances, SetFilter, Unedited,
       handlePreviousPage, handleNextPage, RetryLoad, handleClearFilters, handleOpenCreateModal, CloseModal,
       handleOpenEditModal, ModalEditOffered, TypeInForm, handleSubmit, ModalAnswers, SubmitFails, SubmitEnds, listVars
  <2> QED
    BY <1>c, <2>1 DEF ListedTypes, IsTableOf, ModalTypes
<1>2. productModal' \in {Closed, Create} \cup Products
  <2>1. productModal' \in {productModal, Closed, Create} \/ \E i \in Products : productModal' = i
    BY Zenon DEF ListNext, FetchRuns, FetchAnswers, ReadFails, StoresArrive, loadBalances, SetFilter, Unedited,
       handlePreviousPage, handleNextPage, RetryLoad, handleClearFilters, handleOpenCreateModal, CloseModal,
       handleOpenEditModal, TypeInForm, handleSubmit, ModalAnswers, SubmitFails, SubmitEnds, listVars
  <2> QED
    BY <2>1, Zenon DEF ModalTypes
<1>3. modalSubmit' = NoSubmit \/ modalSubmit' \in Submits
  <2>1. ASSUME handleSubmit PROVE modalSubmit' \in Submits
    <3>1. /\ productModal # Closed
          /\ modalSubmit' = [step |-> "sent", of |-> productModal, category |-> modalForm, query |-> query]
      BY <2>1, Zenon DEF handleSubmit, ModalSubmitOffered
    <3>2. productModal \in {Create} \cup Products /\ modalForm \in Categories /\ query \in ListQueries
      BY <3>1, Zenon DEF ModalTypes, ListedTypes
    <3>3. \A o \in {Create} \cup Products, c \in Categories, q \in ListQueries :
              [step |-> "sent", of |-> o, category |-> c, query |-> q] \in Submits
      BY DEF Submits
    <3> QED
      BY <3>1, <3>2, <3>3, Zenon
  <2>2. ASSUME ModalAnswers PROVE modalSubmit' \in Submits
    <3>1. modalSubmit.step = "sent" /\ modalSubmit' = [modalSubmit EXCEPT !.step = "reading"]
      BY <2>2, Zenon DEF ModalAnswers
    <3>2. NoSubmit.step # "sent"
      BY DEF NoSubmit
    <3>3. modalSubmit \in Submits
      BY <3>1, <3>2, Zenon DEF ModalTypes
    <3> QED
      BY <3>1, <3>3 DEF Submits
  <2>3. \/ handleSubmit \/ ModalAnswers \/ modalSubmit' = modalSubmit \/ modalSubmit' = NoSubmit
    BY Zenon DEF ListNext, FetchRuns, FetchAnswers, ReadFails, StoresArrive, loadBalances, SetFilter, Unedited,
       handlePreviousPage, handleNextPage, RetryLoad, handleClearFilters, handleOpenCreateModal, CloseModal,
       handleOpenEditModal, TypeInForm, SubmitFails, SubmitEnds, listVars
  <2> QED
    BY <2>1, <2>2, <2>3, Zenon DEF ModalTypes
<1> QED
  BY <1>1, <1>2, <1>3, Zenon DEF ModalTypes

(* The flags of the list, and the bound of the user's steps.                 *)
LEMMA ListFlagsNext == ListFlags /\ [ListNext]_listVars => ListFlags'
<1> SUFFICES ASSUME ListFlags, [ListNext]_listVars PROVE ListFlags'
  OBVIOUS
<1>1. loading' \in {loading, TRUE, FALSE} /\ storesRead' \in {storesRead, TRUE}
  BY Zenon DEF ListNext, FetchRuns, FetchAnswers, ReadFails, StoresArrive, loadBalances, SetFilter, FilterRead, Unedited,
     handlePreviousPage, handleNextPage, RetryLoad, handleClearFilters, handleOpenCreateModal, CloseModal,
     handleOpenEditModal, TypeInForm, handleSubmit, ModalAnswers, ShowChange, SubmitFails, SubmitEnds, Unlisted,
     fetchProductsList, listVars
<1>2. userSteps' = userSteps \/ (userSteps < MaxActions /\ userSteps' = userSteps + 1)
  BY Zenon DEF ListNext, FetchRuns, FetchAnswers, ReadFails, StoresArrive, loadBalances, SetFilter, UserSteps,
     handlePreviousPage, handleNextPage, RetryLoad, handleClearFilters, handleOpenCreateModal, CloseModal,
     handleOpenEditModal, TypeInForm, handleSubmit, ModalAnswers, SubmitFails, SubmitEnds, listVars
<1>3. userSteps' \in 0 .. MaxActions
  BY <1>2, ListAssumption DEF ListFlags
<1> QED
  BY <1>1, <1>3, Zenon DEF ListFlags

(* The types of the product list.                                            *)
THEOREM ListTyped == ListInit /\ [][ListNext]_listVars => []ListTypeOK
<1>1. ListInit => ListedTypes /\ ModalTypes /\ ListFlags
  <2> SUFFICES ASSUME ListInit PROVE ListedTypes /\ ModalTypes /\ ListFlags
    OBVIOUS
  <2>0. PICK c0 \in Categories : c0 = CHOOSE c \in Categories : TRUE
    BY ListAssumption
  <2>1. /\ categoryOf = [i \in Products |-> IF i < MaxProduct THEN c0 ELSE None]
        /\ query = [search |-> FALSE, category |-> All, page |-> 1]
        /\ fetches = {StartRead(query, 1)} /\ tableRows = <<>> /\ totalProducts = 0
        /\ loading = TRUE /\ quantities = {} /\ balanceLoad = {} /\ storesRead = FALSE
        /\ productModal = Closed /\ modalForm = c0 /\ modalSubmit = NoSubmit /\ userSteps = 0
    BY <2>0, Zenon DEF ListInit
  <2>2. query \in ListQueries
    BY <2>1, ListAssumption DEF ListQueries
  <2>3. categoryOf \in [Products -> Categories \cup {None}]
    BY <2>1
  <2>4. IsTableOf(tableRows) /\ IsCount(totalProducts)
    BY <2>1, ExistingFacts DEF IsTableOf, IsCount
  <2>5. \A f \in fetches : /\ f.q \in ListQueries /\ IsCount(f.count) /\ f.tableRows = NotRead
    BY <2>1, <2>2, BegunTypes
  <2>6. ListedTypes
    BY <2>1, <2>2, <2>3, <2>4, <2>5 DEF ListedTypes
  <2>7. ModalTypes
    BY <2>1, Zenon DEF ModalTypes
  <2>8. 0 \in 0 .. MaxActions
    BY ListAssumption
  <2>9. ListFlags
    BY <2>1, <2>8, Zenon DEF ListFlags
  <2> QED
    BY <2>6, <2>7, <2>9
<1>2. ListInv /\ ListedTypes /\ ModalTypes /\ ListFlags => ListTypeOK
  <2> SUFFICES ASSUME ListInv, ListedTypes, ModalTypes, ListFlags PROVE ListTypeOK
    OBVIOUS
  <2>1. \A f \in fetches : f.q \in ListQueries /\ f.no \in Nat /\ f.count \in 0 .. MaxProduct
    BY ExistingFacts, ListAssumption DEF ListInv, ReadsInv, IsRead, ListedTypes, IsCount
  <2>2. DOMAIN tableRows \subseteq Products /\ totalProducts \in Nat
    BY Zenon DEF ListedTypes, IsTableOf, IsCount
  <2>3. \A b \in {loading, listError, storesRead, crossedReads, staleQuery} : b \in BOOLEAN
    BY Zenon DEF ListInv, ReadsInv, ListFlags
  <2>4. modalSubmit.step \in {"none", "sent", "reading"}
    BY DEF ModalTypes, NoSubmit, Submits
  <2>5. newestShown \in Nat
    BY Zenon DEF ListInv, ReadsInv
  <2> QED
    BY <2>1, <2>2, <2>3, <2>4, <2>5, Zenon DEF ListedTypes, ModalTypes, ListFlags, ListTypeOK
<1> QED
  BY <1>1, <1>2, ListStarts, ProductListKeeps, ListedNext, ModalNext, ListFlagsNext, PTL
-----------------------------------------------------------------------------
(* A load has read no version that was not there yet.                        *)
VersionInv == \A l \in dashLoads : l.version <= dashVersion

(* The loads that begin have read nothing.                                   *)
LEMMA NewLoadsUnread ==
    ASSUME DashTypes, VersionInv, NEW qs, loadAnalytics(qs), dashVersion' = dashVersion
    PROVE  VersionInv'
<1>1. \A l \in dashLoads' : l \in dashLoads \/ \E i \in DOMAIN qs : l = [q |-> qs[i], no |-> NextDashNo + i, version |-> 0]
  BY Zenon DEF loadAnalytics
<1>2. \A l \in dashLoads' : l \in dashLoads \/ l.version = 0
  BY <1>1
<1>3. dashVersion \in Nat
  BY DEF DashTypes
<1> QED
  BY <1>2, <1>3 DEF VersionInv

(* Versions are only read, and only grow.                                    *)
LEMMA VersionNext == DashInv /\ VersionInv /\ [DashNext]_dashVars => VersionInv'
<1> SUFFICES ASSUME DashInv, VersionInv, [DashNext]_dashVars PROVE VersionInv'
  OBVIOUS
<1>t. DashTypes /\ dashVersion \in Nat /\ dashLoads \subseteq DashReads /\ \A l \in dashLoads : l.version \in Nat
  BY DEF DashInv, DashTypes, DashReads
<1>1. ASSUME NEW q \in DashQueries, ChangeQuery(q) PROVE VersionInv'
  <2>1. loadAnalytics(<<q>>) /\ dashVersion' = dashVersion
    BY <1>1, Zenon DEF ChangeQuery
  <2> QED
    BY <1>t, <2>1, NewLoadsUnread
<1>2. ASSUME NEW l \in dashLoads, AnalyticsRead(l) PROVE VersionInv'
  <2>1. PICK r : r = [l EXCEPT !.version = dashVersion]
    OBVIOUS
  <2>2. l \in DashReads
    BY <1>t
  <2>3. r.version = dashVersion
    BY <2>1, <2>2 DEF DashReads
  <2>4. dashLoads' = (dashLoads \ {l}) \cup {r} /\ dashVersion' = dashVersion
    BY <1>2, <2>1, Zenon DEF AnalyticsRead
  <2> QED
    BY <1>t, <2>3, <2>4 DEF VersionInv
<1>3. ASSUME dashLoads' \subseteq dashLoads, dashVersion' \in {dashVersion, dashVersion + 1} PROVE VersionInv'
  BY <1>t, <1>3 DEF VersionInv
<1>4. ASSUME NEW l \in dashLoads, AnalyticsAnswered(l) \/ AnalyticsFailed(l) PROVE VersionInv'
  <2>1. dashLoads' = dashLoads \ {l} /\ dashVersion' = dashVersion
    BY <1>4, Zenon DEF AnalyticsAnswered, AnalyticsFailed, Settle
  <2> QED
    BY <1>3, <2>1
<1>5. ASSUME TimerRun \/ handleSyncNow \/ PullApplied \/ DashRunThrows PROVE VersionInv'
  <2>1. dashLoads' = dashLoads /\ (dashVersion' = dashVersion \/ dashVersion' = dashVersion + 1)
    BY <1>5, Zenon DEF TimerRun, handleSyncNow, PullApplied, DashRunThrows
  <2> QED
    BY <1>3, <2>1
<1>6. ASSUME NEW announced \in BOOLEAN, DashRunEnds(announced) PROVE VersionInv'
  <2>1. dashVersion' = dashVersion /\ (dashLoads' = dashLoads \/ \E qs : loadAnalytics(qs))
    BY <1>6, Zenon DEF DashRunEnds
  <2>2. CASE dashLoads' = dashLoads
    BY <1>3, <2>1, <2>2
  <2>3. CASE \E qs : loadAnalytics(qs)
    BY <1>t, <2>1, <2>3, NewLoadsUnread
  <2> QED
    BY <2>1, <2>2, <2>3
<1>7. ASSUME SyncRefused PROVE VersionInv'
  <2>1. loadAnalytics(<<dashClick>>) /\ dashVersion' = dashVersion
    BY <1>7, Zenon DEF SyncRefused
  <2> QED
    BY <1>t, <2>1, NewLoadsUnread
<1>8. CASE UNCHANGED dashVars
  <2>1. dashLoads' = dashLoads /\ dashVersion' = dashVersion
    BY <1>8, Zenon DEF dashVars
  <2> QED
    BY <1>3, <2>1
<1>9. CASE DashNext
  BY <1>1, <1>2, <1>4, <1>5, <1>6, <1>7, <1>9, Zenon DEF DashNext
<1> QED
  BY <1>8, <1>9

(* The dashboard keeps its types, and its loads only know versions of the    *)
(* data that were there.                                                     *)
THEOREM DashTyped == DashSpec => []DashTypeOK
<1>1. DashInit => DashInv /\ VersionInv
  <2> SUFFICES ASSUME DashInit PROVE VersionInv
    BY DashStarts
  <2>1. \A l \in dashLoads : l.version = 0
    BY DEF DashInit
  <2>2. dashVersion = 1
    BY Zenon DEF DashInit
  <2> QED
    BY <2>1, <2>2 DEF VersionInv
<1>2. DashInv /\ VersionInv => DashTypeOK
  <2> SUFFICES ASSUME DashInv, VersionInv PROVE DashTypeOK
    OBVIOUS
  <2>1. DashTypes
    BY Zenon DEF DashInv
  <2>2. dashData.q \in DashQueries \cup {"none"}
    BY <2>1 DEF DashTypes
  <2>3. dashRun.of \in {"nobody", "timer", "click"}
    BY <2>1 DEF DashTypes, DashRuns
  <2>4. \A l \in dashLoads : l.q \in DashQueries /\ l.version \in 0 .. dashVersion
    BY <2>1 DEF DashTypes, DashReads, VersionInv
  <2>5. dashQuery \in DashQueries /\ dashLoading \in BOOLEAN /\ dashError \in BOOLEAN /\ dashClick \in DashQueries \cup {NoClick}
    BY <2>1, Zenon DEF DashTypes
  <2> QED
    BY <2>2, <2>3, <2>4, <2>5, Zenon DEF DashTypeOK
<1> QED
  BY <1>1, <1>2, DashKeeps, VersionNext, PTL DEF DashSpec
-----------------------------------------------------------------------------
(* The client starts where its parts start.                                  *)
LEMMA PartsStart ==
    Init =>
        /\ AuthInit /\ GenesisInit /\ AppInit
        /\ DeviceInit /\ DriverInit /\ ServiceInit
        /\ SearchInit /\ EntryInit /\ BalanceInit
        /\ TransferInit /\ StoreInit /\ MaintenanceInit
        /\ SchedulerInit /\ UpdaterInit
        /\ ImportInit /\ ListInit /\ DashInit /\ LedgerInit /\ BookInit /\ CsvInit
  BY Zenon DEF Init

(* A step of the client is a step of one part; the others stutter, for they  *)
(* share no variable with it.                                                *)
LEMMA PartsStep ==
    [Next]_clientVars =>
        /\ [AuthNext]_authVars /\ [GenesisNext]_genesisVars
        /\ [AppNext]_appVars /\ [DeviceNext]_deviceVars
        /\ [DriverNext]_driverVars /\ [ServiceNext]_serviceVars
        /\ [SearchNext]_searchVars /\ [EntryNext]_entryVars
        /\ [BalanceNext]_balanceVars /\ [TransferNext]_transferVars
        /\ [StoreNext]_storeVars /\ [MaintenanceNext]_maintenanceVars
        /\ [SchedulerNext]_schedulerVars /\ [UpdaterNext]_updaterVars
        /\ [ImportNext]_importVars /\ [ListNext]_listVars /\ [DashNext]_dashVars
        /\ [LedgerNext]_ledgerVars /\ [BookNext]_bookVars /\ [CsvNext]_csvVars
<1> SUFFICES ASSUME [Next]_clientVars
             PROVE  /\ [AuthNext]_authVars /\ [GenesisNext]_genesisVars
                    /\ [AppNext]_appVars /\ [DeviceNext]_deviceVars
                    /\ [DriverNext]_driverVars /\ [ServiceNext]_serviceVars
                    /\ [SearchNext]_searchVars /\ [EntryNext]_entryVars
                    /\ [BalanceNext]_balanceVars /\ [TransferNext]_transferVars
                    /\ [StoreNext]_storeVars /\ [MaintenanceNext]_maintenanceVars
                    /\ [SchedulerNext]_schedulerVars /\ [UpdaterNext]_updaterVars
                    /\ [ImportNext]_importVars /\ [ListNext]_listVars /\ [DashNext]_dashVars
                    /\ [LedgerNext]_ledgerVars /\ [BookNext]_bookVars /\ [CsvNext]_csvVars
  OBVIOUS
<1>1. [AuthNext]_authVars
  <2>1. \/ UNCHANGED clientVars \/ (part = "auth" /\ AuthNext)
        \/ OthersRest /\ part # "auth"
    BY Zenon DEF Next
  <2> QED
    BY <2>1, Zenon DEF OthersRest, clientVars
<1>2. [GenesisNext]_genesisVars
  <2>1. \/ UNCHANGED clientVars \/ (part = "genesis" /\ GenesisNext)
        \/ OthersRest /\ part # "genesis"
    BY Zenon DEF Next
  <2> QED
    BY <2>1, Zenon DEF OthersRest, clientVars
<1>3. [AppNext]_appVars
  <2>1. \/ UNCHANGED clientVars \/ (part = "shell" /\ AppNext)
        \/ OthersRest /\ part # "shell"
    BY Zenon DEF Next
  <2> QED
    BY <2>1, Zenon DEF OthersRest, clientVars
<1>4. [DeviceNext]_deviceVars
  <2>1. \/ UNCHANGED clientVars \/ (part = "device" /\ DeviceNext)
        \/ OthersRest /\ part # "device"
    BY Zenon DEF Next
  <2> QED
    BY <2>1, Zenon DEF OthersRest, clientVars
<1>5. [DriverNext]_driverVars
  <2>1. \/ UNCHANGED clientVars \/ (part = "driver" /\ DriverNext)
        \/ OthersRest /\ part # "driver"
    BY Zenon DEF Next
  <2> QED
    BY <2>1, Zenon DEF OthersRest, clientVars
<1>6. [ServiceNext]_serviceVars
  <2>1. \/ UNCHANGED clientVars \/ (part = "service" /\ ServiceNext)
        \/ OthersRest /\ part # "service"
    BY Zenon DEF Next
  <2> QED
    BY <2>1, Zenon DEF OthersRest, clientVars
<1>7. [SearchNext]_searchVars
  <2>1. \/ UNCHANGED clientVars \/ (part = "search" /\ SearchNext)
        \/ OthersRest /\ part # "search"
    BY Zenon DEF Next
  <2> QED
    BY <2>1, Zenon DEF OthersRest, clientVars
<1>8. [EntryNext]_entryVars
  <2>1. \/ UNCHANGED clientVars \/ (part = "entry" /\ EntryNext)
        \/ OthersRest /\ part # "entry"
    BY Zenon DEF Next
  <2> QED
    BY <2>1, Zenon DEF OthersRest, clientVars
<1>9. [BalanceNext]_balanceVars
  <2>1. \/ UNCHANGED clientVars \/ (part = "balance" /\ BalanceNext)
        \/ OthersRest /\ part # "balance"
    BY Zenon DEF Next
  <2> QED
    BY <2>1, Zenon DEF OthersRest, clientVars
<1>10. [TransferNext]_transferVars
  <2>1. \/ UNCHANGED clientVars \/ (part = "transfer" /\ TransferNext)
        \/ OthersRest /\ part # "transfer"
    BY Zenon DEF Next
  <2> QED
    BY <2>1, Zenon DEF OthersRest, clientVars
<1>11. [StoreNext]_storeVars
  <2>1. \/ UNCHANGED clientVars \/ (part = "stores" /\ StoreNext)
        \/ OthersRest /\ part # "stores"
    BY Zenon DEF Next
  <2> QED
    BY <2>1, Zenon DEF OthersRest, clientVars
<1>12. [MaintenanceNext]_maintenanceVars
  <2>1. \/ UNCHANGED clientVars \/ (part = "maintenance" /\ MaintenanceNext)
        \/ OthersRest /\ part # "maintenance"
    BY Zenon DEF Next
  <2> QED
    BY <2>1, Zenon DEF OthersRest, clientVars
<1>13. [SchedulerNext]_schedulerVars
  <2>1. \/ UNCHANGED clientVars \/ (part = "scheduler" /\ SchedulerNext)
        \/ OthersRest /\ part # "scheduler"
    BY Zenon DEF Next
  <2> QED
    BY <2>1, Zenon DEF OthersRest, clientVars
<1>14. [UpdaterNext]_updaterVars
  <2>1. \/ UNCHANGED clientVars \/ (part = "updater" /\ UpdaterNext)
        \/ OthersRest /\ part # "updater"
    BY Zenon DEF Next
  <2> QED
    BY <2>1, Zenon DEF OthersRest, clientVars
<1>15. [ImportNext]_importVars
  <2>1. \/ UNCHANGED clientVars \/ (part = "import" /\ ImportNext)
        \/ OthersRest /\ part # "import"
    BY Zenon DEF Next
  <2> QED
    BY <2>1, Zenon DEF OthersRest, clientVars
<1>16. [ListNext]_listVars
  <2>1. \/ UNCHANGED clientVars \/ (part = "list" /\ ListNext)
        \/ OthersRest /\ part # "list"
    BY Zenon DEF Next
  <2> QED
    BY <2>1, Zenon DEF OthersRest, clientVars
<1>17. [DashNext]_dashVars
  <2>1. \/ UNCHANGED clientVars \/ (part = "dashboard" /\ DashNext)
        \/ OthersRest /\ part # "dashboard"
    BY Zenon DEF Next
  <2> QED
    BY <2>1, Zenon DEF OthersRest, clientVars
<1>18. [LedgerNext]_ledgerVars
  <2>1. \/ UNCHANGED clientVars \/ (part = "ledger" /\ LedgerNext)
        \/ OthersRest /\ part # "ledger"
    BY Zenon DEF Next
  <2> QED
    BY <2>1, Zenon DEF OthersRest, clientVars
<1>19. [BookNext]_bookVars
  <2>1. \/ UNCHANGED clientVars \/ (part = "books" /\ BookNext)
        \/ OthersRest /\ part # "books"
    BY Zenon DEF Next
  <2> QED
    BY <2>1, Zenon DEF OthersRest, clientVars
<1>20. [CsvNext]_csvVars
  <2>1. \/ UNCHANGED clientVars \/ (part = "csv" /\ CsvNext)
        \/ OthersRest /\ part # "csv"
    BY Zenon DEF Next
  <2> QED
    BY <2>1, Zenon DEF OthersRest, clientVars
<1> QED
  BY <1>1, <1>2, <1>3, <1>4, <1>5, <1>6, <1>7, <1>8, <1>9, <1>10, <1>11, <1>12, <1>13, <1>14,
     <1>15, <1>16, <1>17, <1>18, <1>19, <1>20, Zenon

(* Every part keeps its variables well typed, for every choice of the        *)
(* constants: no handler of the client stores a value of the wrong kind, and *)
(* no count, page or number leaves its range.                                *)
THEOREM ClientTyped == Spec => []TypeOK
<1>1. Spec => [](part \in Parts)
  <2>1. Init => part \in Parts
    BY Zenon DEF Init
  <2>2. part \in Parts /\ [Next]_clientVars => (part \in Parts)'
    <3>1. [Next]_clientVars => part' = part
      BY Zenon DEF Next, OthersRest, clientVars
    <3> QED
      BY <3>1
  <2> QED
    BY <2>1, <2>2, PTL DEF Spec
<1>2. Spec => [](AuthTypeOK /\ GenesisTypeOK /\ DeviceTypeOK /\ ServiceTypeOK)
  BY PartsStart, PartsStep, AuthTyped, GenesisTyped, DeviceTyped, ServiceTyped, PTL DEF Spec
<1>3. Spec => [](AppTypeOK /\ DriverTypeOK /\ UpdaterTypeOK /\ DashTypeOK)
  BY PartsStart, PartsStep, ShellTyped, DriverTyped, UpdaterTyped, DashTyped, PTL
     DEF Spec, AppSpec, DriverSpec, UpdaterSpec, DashSpec
<1>4. Spec => [](StoreTypeOK /\ MaintenanceTypeOK /\ SchedulerTypeOK)
  BY PartsStart, PartsStep, StoreTyped, MaintenanceTyped, SchedulerTyped, PTL DEF Spec
<1>5. Spec => [](SearchTypeOK /\ EntryTypeOK /\ BalanceTypeOK /\ TransferTypeOK)
  BY PartsStart, PartsStep, SearchTyped, EntryTyped, BalanceTyped, TransferTyped, PTL DEF Spec
<1>6. Spec => [](ImportTypeOK /\ ListTypeOK)
  BY PartsStart, PartsStep, ImportTyped, ListTyped, PTL DEF Spec
<1>7. Spec => [](LedgerTypeOK /\ BookTypeOK /\ CsvTypeOK)
  BY PartsStart, PartsStep, LedgerTrue, BooksTrue, CsvOfClient, PTL DEF Spec
<1> QED
  BY <1>1, <1>2, <1>3, <1>4, <1>5, <1>6, <1>7, PTL DEF TypeOK

(* Whoever is shown as signed in holds the session that is used, the first   *)
(* start leaves a usable device behind, and the shell keeps its promises to  *)
(* the views (authService, GenesisWizard, App).                              *)
THEOREM ClientSession == Spec => [](ShownUserHoldsSession /\ FirstStartIsSound /\ ShellIsSound)
  BY PartsStart, PartsStep, ShownIsSignedIn, FirstStartSound, ShellSound, PTL DEF Spec, AppSpec

(* All parts of syncing together are tended (tauriSyncService,               *)
(* useBackgroundSync, the sync chip and deviceService).                      *)
THEOREM ClientSync == Spec => []SyncIsTended
<1>1. Spec => [](ChainIsSingle /\ ChainFollowsSession /\ ChipTellsTruth)
  BY PartsStart, PartsStep, SingleChain, ChainOfSession, ChipTrue, PTL DEF Spec, DriverSpec
<1>2. Spec => [](IndicatorSettles /\ OptimisticSettles /\ UsableIsRestored)
  BY PartsStart, PartsStep, ServiceIsTended, PTL DEF Spec
<1>3. Spec => []DeviceIdIsStable
  BY PartsStart, PartsStep, DeviceIdStable, PTL DEF Spec
<1> QED
  BY <1>1, <1>2, <1>3, PTL DEF SyncIsTended

(* Every screen that works on stock tells the truth, next to the others.     *)
THEOREM ClientScreens ==
    Spec => [](ListIsOfActiveStore /\ GridIsRecorded /\ FormsAreTrue /\ TransfersAreTrue)
  BY PartsStart, PartsStep, ListOfActiveStore, GridTrue, FormsTrue, TransfersTrue, PTL DEF Spec

(* Stores, deletions, backups, the daily backup and the update: what         *)
(* administration promises (tauriStoreService, SettingsView,                 *)
(* backupScheduler and the update controls).                                 *)
THEOREM ClientAdministration == Spec => []AdministrationIsSound
<1>1. Spec => [](LastNameIsDelivered /\ QueueIsServed)
  BY PartsStart, PartsStep, NamesDelivered, PTL DEF Spec
<1>2. Spec => [](DeletedStaysDeleted /\ PulledIsHere /\ BackupsAreListed)
  BY PartsStart, PartsStep, MaintenanceSound, PTL DEF Spec
<1>3. Spec => [](SchedulerIsArmed /\ ObservedDayIsBackedUp)
  BY PartsStart, PartsStep, SchedulerSound, PTL DEF Spec
<1>4. Spec => [](DownloadIsShown /\ StageIsOfDownload)
  BY PartsStart, PartsStep, DownloadShown, StageShown, PTL DEF Spec, UpdaterSpec
<1> QED
  BY <1>1, <1>2, <1>3, <1>4, PTL DEF AdministrationIsSound

(* Dashboard, import and product table show what is there, or say that they  *)
(* cannot (DashboardView loadAnalytics, CreateProductView handleFileImport,  *)
(* ProductsView fetchProductsList).                                          *)
THEOREM ClientOverviews == Spec => []OverviewsAreTrue
<1>1. Spec => []DashboardIsTrue
  BY PartsStart, PartsStep, DashboardTrue, PTL DEF Spec, DashSpec
<1>2. Spec => [](ReportIsExact /\ RunningIsShown /\ CreatedIsAnnounced /\ CreatedIsListed)
  BY PartsStart, PartsStep, ImportTrue, PTL DEF Spec
<1>3. Spec => [](TableIsCurrent /\ QuantitiesCoverRows)
  BY PartsStart, PartsStep, TableTrue, PTL DEF Spec
<1> QED
  BY <1>1, <1>2, <1>3, PTL DEF OverviewsAreTrue

(* What was recorded is read back: the transaction list is of the active     *)
(* store and has each of its movements once (TransactionsView                *)
(* loadTransactions), the day books add up and what was deleted from them    *)
(* stays away (DayBooksView), and a CSV file is read as it was written       *)
(* (CreateProductView parseCsv).                                             *)
THEOREM ClientRecords == Spec => []RecordsAreTrue
<1>1. Spec => []LedgerIsTrue
  BY PartsStart, PartsStep, LedgerTrue, PTL DEF Spec
<1>2. Spec => []BooksAreTrue
  BY PartsStart, PartsStep, BooksTrue, PTL DEF Spec
<1>3. Spec => []CsvRoundTrip
  BY PartsStart, PartsStep, CsvOfClient, PTL DEF Spec
<1> QED
  BY <1>1, <1>2, <1>3, PTL DEF RecordsAreTrue

(* No step of the client puts an older token in the place of a newer one,    *)
(* or an older answer in the place of the answer to a newer query.           *)
THEOREM ClientSteps == Spec => TokenNeverGoesBack /\ PaneAnswersLastQuery
  BY PartsStart, PartsStep, TokensOnlyGrow, PaneAnswers, PTL DEF Spec
=============================================================================
