---------------------------- MODULE ProductList ----------------------------
(***************************************************************************)
(* ProductsView: the product list, searched, filtered by category and read  *)
(* page by page from the local database, the quantities of the listed       *)
(* products in every store, and the ProductModal that creates and edits     *)
(* products. Every change of search, category or page sends a new read; the *)
(* answers are not matched with the reads. The database commands are        *)
(* external. Products are numbered in the order of the list and a page has  *)
(* one of them (PAGE_SIZE is 50 in the code).                               *)
(***************************************************************************)
EXTENDS Integers, FiniteSets

CONSTANTS MaxProduct,    \* bound: products
          Categories,
          MaxActions     \* bound: what the user does that sends a read

All == "all"
None == "none"

ASSUME ListAssumption ==
    /\ MaxProduct \in Nat \ {0} /\ MaxActions \in Nat
    /\ Categories # {} /\ None \notin Categories

Products == 1..MaxProduct

VARIABLES
    categoryOf,     \* the database: each product's category; None: no such product
    query,          \* searchQuery, categoryFilter and currentPage
    fetches,        \* fetchProductsList calls under way
    tableRows,      \* products: the rows shown, [product -> category]
    totalProducts,  \* the count that came with them
    loading, listError,
    quantities,     \* crossStoreMap: the products it has quantities for
    balanceLoad,    \* the products of the effect's read that is not cancelled; {} is none
    storesRead,     \* the list of stores has arrived
    productModal,   \* what ProductModal shows
    modalForm,      \* the category in its form, which stands for all the fields
    modalSubmit,    \* the submission under way: step, what it was of, and its query
    userSteps,
    newestShown, crossedReads, staleQuery   \* history, see the properties

listVars == <<categoryOf, query, fetches, tableRows, totalProducts, loading, listError, quantities,
              balanceLoad, storesRead, productModal, modalForm, modalSubmit, userSteps, newestShown,
              crossedReads, staleQuery>>

ListQueries == [search : BOOLEAN, category : Categories \cup {All}, page : 1..MaxProduct]
NotRead == [i \in {0} |-> None]     \* the command has not run yet
Closed == -1   \* the modal: closed, empty for a new product,
Create == 0    \* or the number of the product that is edited
NoSubmit == [step |-> "none"]
Rows(db, ids) == [i \in ids |-> db[i]]
-----------------------------------------------------------------------------
(* The commands: a search ignores the page and counts what it found; a page  *)
(* holds the product at that place among those of the category.              *)
Matching(q) == {i \in Products : categoryOf[i] # None /\ q.category \in {All, categoryOf[i]}}
getProductsCount(q) == Cardinality(Matching(q))
getProductsPaginated(q) == {i \in Matching(q) : Cardinality({j \in Matching(q) : j <= i}) = q.page}
searchTable(q) == Matching(q)
Answer(q) == Rows(categoryOf, IF q.search THEN searchTable(q) ELSE getProductsPaginated(q))

NextNo == IF fetches = {} THEN newestShown + 1
          ELSE 1 + CHOOSE n \in {f.no : f \in fetches} \cup {newestShown} :
                      \A m \in {f.no : f \in fetches} \cup {newestShown} : m <= n
StartRead(q, n) == [q |-> q, no |-> n, tableRows |-> NotRead, count |-> 0]
(* The effect of the balances: a new list cancels the read of the old one.   *)
\* mutant: the effect does not depend on the list
ReloadOnStores(ids) == UNCHANGED <<balanceLoad, quantities>>
ReloadBalances(ids) ==
    IF ids = {} \/ ~storesRead THEN balanceLoad' = {} /\ quantities' = {}
    ELSE balanceLoad' = ids /\ UNCHANGED quantities

(* fetchProductsList, sent with the query of the render it belongs to.       *)
fetchProductsList(qs) ==
    /\ fetches' = fetches \cup {StartRead(q, NextNo + (IF q = query' THEN Cardinality(qs) - 1 ELSE 0)) : q \in qs}
    /\ loading' = TRUE /\ listError' = FALSE
FetchRuns(f) ==
    /\ f.tableRows = NotRead
    /\ fetches' = (fetches \ {f}) \cup {[f EXCEPT !.tableRows = Answer(f.q), !.count = getProductsCount(f.q)]}
    /\ UNCHANGED <<categoryOf, query, tableRows, totalProducts, loading, listError, quantities, balanceLoad,
                   storesRead, productModal, modalForm, modalSubmit, userSteps, newestShown, crossedReads,
                   staleQuery>>
FetchAnswers(f) ==
    /\ f.tableRows # NotRead
    /\ fetches' = fetches \ {f}
    /\ tableRows' = f.tableRows /\ totalProducts' = f.count /\ loading' = FALSE
    /\ ReloadBalances(DOMAIN f.tableRows)
    /\ crossedReads' = (crossedReads \/ f.no < newestShown)
    /\ newestShown' = IF f.no > newestShown THEN f.no ELSE newestShown
    /\ UNCHANGED <<categoryOf, query, listError, storesRead, productModal, modalForm, modalSubmit, userSteps,
                   staleQuery>>
ReadFails(f) ==
    /\ f.tableRows = NotRead /\ fetches' = fetches \ {f}
    /\ listError' = TRUE /\ loading' = FALSE
    /\ crossedReads' = (crossedReads \/ f.no < newestShown)
    /\ newestShown' = IF f.no > newestShown THEN f.no ELSE newestShown
    /\ UNCHANGED <<categoryOf, query, tableRows, totalProducts, quantities, balanceLoad, storesRead,
                   productModal, modalForm, modalSubmit, userSteps, staleQuery>>

StoresArrive ==
    /\ ~storesRead /\ storesRead' = TRUE
    /\ balanceLoad' = DOMAIN tableRows /\ UNCHANGED quantities
    /\ UNCHANGED <<categoryOf, query, fetches, tableRows, totalProducts, loading, listError, productModal, modalForm,
                   modalSubmit, userSteps, newestShown, crossedReads, staleQuery>>
(* Whether a quantity shown is one that was read; the columns show 0 if not. *)
qtyFor(i) == i \in quantities
loadBalances ==
    /\ balanceLoad # {} /\ balanceLoad' = {} /\ quantities' = balanceLoad
    /\ UNCHANGED <<categoryOf, query, fetches, tableRows, totalProducts, loading, listError, storesRead,
                   productModal, modalForm, modalSubmit, userSteps, newestShown, crossedReads, staleQuery>>
-----------------------------------------------------------------------------
(* The filter bar and the pager. A changed filter is rendered with the old   *)
(* page first: two reads are sent, the second with page 1.                   *)
UserSteps == userSteps < MaxActions /\ userSteps' = userSteps + 1
Unedited == UNCHANGED <<categoryOf, tableRows, totalProducts, quantities, balanceLoad, storesRead, productModal, modalForm,
                        modalSubmit, newestShown, crossedReads, staleQuery>>
\* mutant: the list is not read again for a new filter
FilterUnread(q) == query' = q /\ UNCHANGED <<fetches, loading, listError>>
FilterRead(q) ==
    /\ query' = [q EXCEPT !.page = 1]
    /\ fetchProductsList({q, [q EXCEPT !.page = 1]})
SetFilter(s, c) ==
    /\ UserSteps /\ <<s, c>> # <<query.search, query.category>>
    /\ FilterRead([query EXCEPT !.search = s, !.category = c])
    /\ Unedited
totalPages == totalProducts
PagerOffered == tableRows # <<>> /\ totalPages > 1
handlePreviousPage ==
    /\ PagerOffered /\ query.page > 1 /\ UserSteps
    /\ query' = [query EXCEPT !.page = @ - 1] /\ fetchProductsList({query'}) /\ Unedited
handleNextPage ==
    /\ PagerOffered /\ query.page < totalPages /\ UserSteps
    /\ query' = [query EXCEPT !.page = @ + 1] /\ fetchProductsList({query'}) /\ Unedited
(* The table, or what is shown in its place.                                 *)
TableShown == ~loading /\ ~listError
RetryLoad ==
    /\ listError /\ ~loading /\ UserSteps
    /\ UNCHANGED query /\ fetchProductsList({query}) /\ Unedited
handleClearFilters ==
    /\ TableShown /\ tableRows = <<>> /\ (query.search \/ query.category # All) /\ UserSteps
    /\ FilterRead([query EXCEPT !.search = FALSE, !.category = All]) /\ Unedited
-----------------------------------------------------------------------------
(* The modal: closed with Escape, its cross or its backdrop at any time; a   *)
(* submission goes on, and its answer closes whatever the modal then shows.  *)
Unlisted == UNCHANGED <<query, fetches, tableRows, totalProducts, loading, listError, quantities, balanceLoad,
                        storesRead, newestShown, crossedReads, staleQuery>>
handleOpenCreateModal ==
    /\ productModal = Closed /\ productModal' = Create
    /\ modalForm' = CHOOSE c \in Categories : TRUE
    /\ UNCHANGED <<categoryOf, modalSubmit, userSteps>> /\ Unlisted
ModalEditOffered(i) == TableShown /\ i \in DOMAIN tableRows /\ productModal = Closed
handleOpenEditModal(i) ==
    /\ ModalEditOffered(i) /\ productModal' = i /\ modalForm' = tableRows[i]
    /\ UNCHANGED <<categoryOf, modalSubmit, userSteps>> /\ Unlisted
CloseModal ==
    /\ productModal # Closed /\ productModal' = Closed
    /\ UNCHANGED <<categoryOf, modalForm, modalSubmit, userSteps>> /\ Unlisted
(* The inputs are disabled while a submission is under way, also one of a    *)
(* modal that was closed since.                                              *)
FieldsOffered == productModal # Closed /\ modalSubmit = NoSubmit
TypeInForm(c) ==
    /\ FieldsOffered /\ c # modalForm /\ modalForm' = c
    /\ UNCHANGED <<categoryOf, productModal, modalSubmit, userSteps>> /\ Unlisted
ModalSubmitOffered == productModal # Closed /\ modalSubmit = NoSubmit
handleSubmit ==
    /\ ModalSubmitOffered /\ UserSteps
    /\ modalSubmit' = [step |-> "sent", of |-> productModal, category |-> modalForm, query |-> query]
    /\ UNCHANGED <<categoryOf, productModal, modalForm>> /\ Unlisted
(* create_product and update_product; the row is put into the list at once,  *)
(* then the list is read again, with the query of the submitted render.      *)
\* mutant: the changed row is neither shown nor read again
KeepList(i, c) == UNCHANGED <<tableRows, totalProducts, fetches, loading, listError, quantities, balanceLoad>>
ShowChange(i, c) ==
    /\ tableRows' = IF modalSubmit.of = Create \/ i \in DOMAIN tableRows
               THEN [j \in DOMAIN tableRows \cup {i} |-> IF j = i THEN c ELSE tableRows[j]] ELSE tableRows
    /\ totalProducts' = IF modalSubmit.of = Create THEN totalProducts + 1 ELSE totalProducts
    /\ ReloadBalances(DOMAIN tableRows')
    /\ fetches' = fetches \cup {StartRead(modalSubmit.query, NextNo)}
    /\ loading' = TRUE /\ listError' = FALSE
ModalAnswers ==
    /\ modalSubmit.step = "sent"
    /\ \E i \in Products :
          /\ IF modalSubmit.of = Create THEN categoryOf[i] = None ELSE i = modalSubmit.of
          /\ categoryOf' = [categoryOf EXCEPT ![i] = modalSubmit.category]
          /\ ShowChange(i, modalSubmit.category)
    /\ modalSubmit' = [modalSubmit EXCEPT !.step = "reading"]
    /\ staleQuery' = (staleQuery \/ modalSubmit.query # query)
    /\ UNCHANGED <<query, storesRead, productModal, modalForm, userSteps, newestShown, crossedReads>>
SubmitFails ==
    /\ modalSubmit.step = "sent" /\ modalSubmit' = NoSubmit
    /\ UNCHANGED <<categoryOf, productModal, modalForm, userSteps>> /\ Unlisted
(* Its reads are over: onClose, then setSubmitting(false).                   *)
SubmitEnds ==
    /\ modalSubmit.step = "reading" /\ {f \in fetches : f.q = modalSubmit.query} = {}
    /\ modalSubmit' = NoSubmit /\ productModal' = Closed
    /\ UNCHANGED <<categoryOf, modalForm, userSteps>> /\ Unlisted
-----------------------------------------------------------------------------
ListInit ==
    /\ categoryOf = [i \in Products |-> IF i < MaxProduct THEN CHOOSE c \in Categories : TRUE ELSE None]
    /\ query = [search |-> FALSE, category |-> All, page |-> 1]
    /\ fetches = {StartRead(query, 1)} /\ tableRows = <<>> /\ totalProducts = 0
    /\ loading = TRUE /\ listError = FALSE
    /\ quantities = {} /\ balanceLoad = {} /\ storesRead = FALSE
    /\ productModal = Closed /\ modalForm = (CHOOSE c \in Categories : TRUE)
    /\ modalSubmit = NoSubmit /\ userSteps = 0
    /\ newestShown = 0 /\ crossedReads = FALSE /\ staleQuery = FALSE

ListNext ==
    \/ \E f \in fetches : FetchRuns(f) \/ FetchAnswers(f) \/ ReadFails(f)
    \/ StoresArrive \/ loadBalances
    \/ \E s \in BOOLEAN, c \in Categories \cup {All} : SetFilter(s, c)
    \/ handlePreviousPage \/ handleNextPage \/ RetryLoad \/ handleClearFilters
    \/ handleOpenCreateModal \/ CloseModal
    \/ \E i \in Products : handleOpenEditModal(i)
    \/ \E c \in Categories : TypeInForm(c)
    \/ handleSubmit
    \/ ModalAnswers \/ SubmitFails \/ SubmitEnds
-----------------------------------------------------------------------------
\* What the variables hold.
ListTypeOK ==
    /\ categoryOf \in [Products -> Categories \cup {None}] /\ query \in ListQueries
    /\ \A f \in fetches : f.q \in ListQueries /\ f.no \in Nat /\ f.count \in 0..MaxProduct
    /\ DOMAIN tableRows \subseteq Products /\ totalProducts \in Nat
    /\ quantities \subseteq Products /\ balanceLoad \subseteq Products
    /\ \A b \in {loading, listError, storesRead, crossedReads, staleQuery} : b \in BOOLEAN
    /\ modalForm \in Categories
    /\ productModal \in {Closed, Create} \cup Products
    /\ modalSubmit.step \in {"none", "sent", "reading"}
    /\ userSteps \in 0..MaxActions /\ newestShown \in Nat

\* Once nothing is under way the table shows what the database holds for the
\* search, category and page the user chose (fetchProductsList and its effect),
\* unless an older read was answered after a newer one or a submission read the
\* list again with a query the user had left meanwhile.
TableIsCurrent ==
    fetches = {} /\ modalSubmit = NoSubmit /\ ~listError /\ ~crossedReads /\ ~staleQuery =>
        tableRows = Answer(query) /\ totalProducts = getProductsCount(query)

\* Once no read of balances is under way, every listed product has its
\* quantities (the effect on the list and the stores): qtyFor's 0 then means
\* that nothing is in stock.
QuantitiesCoverRows == storesRead /\ balanceLoad = {} => \A i \in DOMAIN tableRows : qtyFor(i)

=============================================================================
