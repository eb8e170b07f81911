--------------------------- MODULE TransferScreen ---------------------------
(***************************************************************************)
(* TransferStockView: the form that creates transfers and the list whose    *)
(* buttons move them on. The commands of the desktop backend are external   *)
(* (StockCommands models what they do to the stock); here each is accepted  *)
(* when the transfer has the status it needs, or refused.                   *)
(***************************************************************************)
EXTENDS Integers, FiniteSets

CONSTANTS TransferStores,  \* the stores getStores returns
          MaxTransfers,    \* bound: transfers created
          MaxCommands,     \* bound: commands sent from the screen
          MaxElsewhere     \* bound: store switches, refreshes and changes by a pull

ASSUME TransferAssumption ==
    /\ IsFiniteSet(TransferStores)
    /\ MaxTransfers \in Nat /\ MaxCommands \in Nat /\ MaxElsewhere \in Nat

VARIABLES
    tStatus,      \* per transfer of the database, its status; "none": not created
    tListed,      \* transfers, as the view holds them
    tFetches,     \* fetchData calls under way: [snap, ends], snap = <<>> before it was read
    tSource,      \* activeStoreId
    tDest,        \* destinationStoreId, or "" before the first load
    tForm,        \* the create form has a product
    tTab,         \* activeTab
    tSubmitting,  \* submitting
    tOp,          \* the handler under way: [op, id, stage, dispatch]
    tSession,     \* 0: nothing loaded, 1: user id set, 2: device id set too
    tCommands, tElsewhere,
    tEntry,       \* history: the entries of the form so far
    tMade,        \* history: per entry, the transfers created for it
    tRetried,     \* history: entries whose dispatch failed after the creation
    tBlurred,     \* history: the database moved on without the view, or a load failed
    tSelf,        \* history: a transfer from a store to itself was created
    tNameless     \* history: a command named no user

transferVars == <<tStatus, tListed, tFetches, tSource, tDest, tForm, tTab, tSubmitting, tOp,
                  tSession, tCommands, tElsewhere, tEntry, tMade, tRetried, tBlurred, tSelf,
                  tNameless>>
screenVars == <<tSource, tDest, tForm, tTab, tSession>>
entryFormVars == <<tElsewhere, tEntry, tMade, tRetried, tBlurred, tSelf, tNameless>>

TransferIds == 1 .. MaxTransfers
Free == {t \in TransferIds : tStatus[t] = "none"}
NoOp == [op |-> "none", id |-> 0, stage |-> "idle", dispatch |-> FALSE]
Unread == <<>>
Entries == 1 .. MaxCommands + 1
-----------------------------------------------------------------------------
(* fetchData: stores and transfers are read, the first other store becomes   *)
(* the destination when none is chosen, which loads once more. Loads that    *)
(* have read nothing yet are alike and counted once.                         *)
Fetch(ends) == [snap |-> Unread, ends |-> ends]
StartFetch(ends) == tFetches \cup {Fetch(ends)}

getTransfers(f) ==
    /\ f.snap = Unread
    /\ tFetches' = (tFetches \ {f}) \cup {[f EXCEPT !.snap = tStatus]}
    /\ UNCHANGED <<tStatus, tListed, tSubmitting, tOp, tCommands, screenVars, entryFormVars>>

(* The fetch ends, or fails; a handler that awaited it ends with it.         *)
EndFetch(f) ==
    /\ tSubmitting' = IF f.ends THEN FALSE ELSE tSubmitting
    /\ tTab' = IF f.ends /\ tOp.op = "create" THEN "list" ELSE tTab
    /\ tOp' = IF f.ends THEN NoOp ELSE tOp

(* None is chosen and there is a store beside the active one.               *)
DestinationDue == tDest = "" /\ TransferStores # {tSource}

TransfersFetched(f) ==
    /\ f.snap # Unread
    /\ tListed' = f.snap
    /\ tDest' = IF DestinationDue THEN CHOOSE s \in TransferStores : s # tSource ELSE tDest
    /\ tBlurred' = (tBlurred \/ tFetches # {f})
    /\ tFetches' = (tFetches \ {f}) \cup (IF DestinationDue THEN {Fetch(FALSE)} ELSE {})
    /\ EndFetch(f)
    /\ UNCHANGED <<tStatus, tSource, tForm, tSession, tCommands, tElsewhere, tEntry, tMade,
                   tRetried, tSelf, tNameless>>
FetchFails(f) ==
    /\ EndFetch(f) /\ tBlurred' = TRUE
    /\ tFetches' = tFetches \ {f}
    /\ UNCHANGED <<tStatus, tListed, tSource, tDest, tForm, tSession, tCommands, tElsewhere,
                   tEntry, tMade, tRetried, tSelf, tNameless>>

(* The refresh button, disabled while a load is under way.                   *)
RefreshOffered == tFetches = {}
Refresh ==
    /\ RefreshOffered /\ tElsewhere < MaxElsewhere /\ tElsewhere' = tElsewhere + 1
    /\ tFetches' = StartFetch(FALSE) /\ tBlurred' = FALSE
    /\ UNCHANGED <<tStatus, tListed, tSubmitting, tOp, tCommands, tEntry, tMade, tRetried,
                   tSelf, tNameless, screenVars>>

TransferLoadSession ==
    /\ tSession < 2 /\ tSession' = tSession + 1
    /\ UNCHANGED <<tStatus, tListed, tFetches, tSubmitting, tOp, tCommands, tSource, tDest, tForm,
                   tTab, entryFormVars>>
-----------------------------------------------------------------------------
(* The tabs and the form of the create tab.                                  *)
CreateTabOffered == Cardinality(TransferStores) >= 2 /\ tListed # Unread
setActiveTab(t) ==
    /\ t # tTab /\ (t = "create" => CreateTabOffered)
    /\ tTab' = t
    /\ UNCHANGED <<tStatus, tListed, tFetches, tSubmitting, tOp, tCommands, tSource, tDest, tForm,
                   tSession, entryFormVars>>
SelectTransferProduct ==
    /\ tTab = "create" /\ ~tForm /\ tForm' = TRUE
    /\ UNCHANGED <<tStatus, tListed, tFetches, tSubmitting, tOp, tCommands, tSource, tDest, tTab,
                   tSession, entryFormVars>>
ChooseDestination(s) ==
    /\ tTab = "create" /\ s \notin {tSource, tDest} /\ tDest' = s
    /\ tFetches' = StartFetch(FALSE)
    /\ UNCHANGED <<tStatus, tListed, tSubmitting, tOp, tCommands, tSource, tForm, tTab,
                   tSession, entryFormVars>>
(* Another store becomes active in the header: the view loads again, the     *)
(* destination stays.                                                        *)
TransferStoreSwitch(s) ==
    /\ tElsewhere < MaxElsewhere /\ tElsewhere' = tElsewhere + 1
    /\ s # tSource /\ tSource' = s
    /\ tFetches' = StartFetch(FALSE)
    /\ UNCHANGED <<tStatus, tListed, tSubmitting, tOp, tCommands, tDest, tForm, tTab,
                   tSession, tEntry, tMade, tRetried, tBlurred, tSelf, tNameless>>

(* handleCreateTransfer: the checks, then create and, if asked, dispatch.    *)
\* mutant: the buttons stay enabled while the handler runs
CreateOfferedAlways == tTab = "create"
CreateOffered == tTab = "create" /\ ~tSubmitting
\* mutant: the stores are not compared
TransferAcceptedAny == tDest # "" /\ tForm
TransferAccepted == tDest # "" /\ tDest # tSource /\ tForm
handleCreateTransfer(d) ==
    /\ CreateOffered /\ TransferAccepted /\ tCommands < MaxCommands /\ Free # {}
    /\ tSubmitting' = TRUE /\ tCommands' = tCommands + 1
    /\ tOp' = [op |-> "create", id |-> tEntry, stage |-> "creating", dispatch |-> d]
    /\ LET new == CHOOSE t \in Free : \A u \in Free : t <= u
       IN  /\ tStatus' = [tStatus EXCEPT ![new] = "DRAFT"]
           /\ tMade' = [tMade EXCEPT ![tEntry] = @ \cup {new}]
    /\ tSelf' = (tSelf \/ tDest = tSource)
    /\ UNCHANGED <<tListed, tFetches, tElsewhere, tEntry, tRetried, tBlurred, tNameless, screenVars>>

(* createTransfer is refused: the form keeps its values.                     *)
CreateRefused ==
    /\ CreateOffered /\ TransferAccepted /\ tCommands < MaxCommands
    /\ tCommands' = tCommands + 1
    /\ UNCHANGED <<tStatus, tListed, tFetches, tSubmitting, tOp, screenVars, entryFormVars>>

ClearForm == tForm' = FALSE /\ tEntry' = tEntry + 1
createTransfer ==
    /\ tOp.stage = "creating" /\ ~tOp.dispatch
    /\ tOp' = [tOp EXCEPT !.stage = "fetching"]
    /\ ClearForm /\ tFetches' = StartFetch(TRUE)
    /\ UNCHANGED <<tStatus, tListed, tSource, tDest, tTab, tSubmitting, tSession, tCommands,
                   tElsewhere, tMade, tRetried, tBlurred, tSelf, tNameless>>
(* The dispatch of a new transfer; refused, it leaves the draft behind, the  *)
(* list as it was and the form filled in.                                    *)
CreateDispatches(ok) ==
    /\ tOp.stage = "creating" /\ tOp.dispatch
    /\ LET new == CHOOSE t \in tMade[tOp.id] : \A u \in tMade[tOp.id] : u <= t IN
       IF ok /\ tStatus[new] = "DRAFT"
       THEN /\ tStatus' = [tStatus EXCEPT ![new] = "DISPATCHED"]
            /\ ClearForm /\ tFetches' = StartFetch(TRUE)
            /\ tOp' = [tOp EXCEPT !.stage = "fetching"]
            /\ UNCHANGED <<tSubmitting, tRetried, tBlurred>>
       ELSE /\ tRetried' = tRetried \cup {tOp.id} /\ tBlurred' = TRUE
            /\ tSubmitting' = FALSE /\ tOp' = NoOp
            /\ UNCHANGED <<tStatus, tForm, tEntry, tFetches>>
    /\ UNCHANGED <<tListed, tSource, tDest, tTab, tSession, tCommands, tElsewhere, tMade, tSelf,
                   tNameless>>
-----------------------------------------------------------------------------
(* The actions column: what a transfer of the list may be asked to do.       *)
DispatchOffered(t) == tListed[t] = "DRAFT"
ReceiveOffered(t) == tListed[t] \in {"DISPATCHED", "EXCEPTION"}
ExceptionOffered(t) == tListed[t] = "DISPATCHED"
CancelTransferOffered(t) == tListed[t] \in {"DRAFT", "DISPATCHED", "EXCEPTION"}
Enabled(t) == tTab = "list" /\ tListed # Unread /\ t \in TransferIds /\ ~tSubmitting

(* What the commands accept.                                                 *)
Permits(op, s) ==
    \/ op = "dispatch" /\ s = "DRAFT"
    \/ op = "receive" /\ s \in {"DISPATCHED", "EXCEPTION"}
    \/ op = "cancel" /\ s \in {"DRAFT", "DISPATCHED", "EXCEPTION"}
    \/ op = "exception" /\ s = "DISPATCHED"
After(op) == CASE op = "dispatch" -> "DISPATCHED" [] op = "receive" -> "RECEIVED"
               [] op = "cancel" -> "CANCELLED" [] op = "exception" -> "EXCEPTION"

SendTransfer(op, t) ==
    /\ tCommands < MaxCommands /\ tCommands' = tCommands + 1
    /\ tSubmitting' = TRUE /\ tOp' = [op |-> op, id |-> t, stage |-> "sent", dispatch |-> FALSE]
    /\ UNCHANGED <<tStatus, tListed, tFetches, tElsewhere, tEntry, tMade, tRetried, tBlurred, tSelf,
                   screenVars>>
handleDispatch(t) ==
    Enabled(t) /\ DispatchOffered(t) /\ SendTransfer("dispatch", t) /\ UNCHANGED tNameless
handleReceive(t) ==
    Enabled(t) /\ ReceiveOffered(t) /\ SendTransfer("receive", t) /\ UNCHANGED tNameless
handleException(t) ==
    Enabled(t) /\ ExceptionOffered(t) /\ SendTransfer("exception", t) /\ UNCHANGED tNameless
(* A cancellation waits for the session; the others fall back on USER-LOCAL. *)
\* mutant: no check of the session
MayCancelAlways == TRUE
MayCancel == tSession > 0
handleCancel(t) ==
    /\ Enabled(t) /\ CancelTransferOffered(t) /\ MayCancel
    /\ SendTransfer("cancel", t)
    /\ tNameless' = (tNameless \/ tSession = 0)

(* The command is accepted and the list fetched, or refused.                 *)
\* mutant: the list is not fetched
FetchAfterNothing == tFetches \cup {[snap |-> tListed, ends |-> TRUE]}
FetchAfter == StartFetch(TRUE)
CommandAnswers(ok) ==
    /\ tOp.stage = "sent"
    /\ IF ok /\ Permits(tOp.op, tStatus[tOp.id])
       THEN /\ tStatus' = [tStatus EXCEPT ![tOp.id] = After(tOp.op)]
            /\ tFetches' = FetchAfter
            /\ tOp' = [tOp EXCEPT !.stage = "fetching"]
            /\ UNCHANGED tSubmitting
       ELSE /\ tSubmitting' = FALSE /\ tOp' = NoOp
            /\ UNCHANGED <<tStatus, tFetches>>
    /\ UNCHANGED <<tListed, tCommands, screenVars, entryFormVars>>

(* A pull brings the status another device gave the transfer.                *)
PulledStatus(t, op) ==
    /\ tElsewhere < MaxElsewhere /\ tElsewhere' = tElsewhere + 1
    /\ Permits(op, tStatus[t]) /\ tStatus' = [tStatus EXCEPT ![t] = After(op)]
    /\ tBlurred' = TRUE
    /\ UNCHANGED <<tListed, tFetches, tSubmitting, tOp, tCommands, screenVars, tEntry, tMade,
                   tRetried, tSelf, tNameless>>
-----------------------------------------------------------------------------
TransferInit ==
    /\ tStatus = [t \in TransferIds |-> "none"] /\ tListed = Unread
    /\ tFetches = {[snap |-> Unread, ends |-> FALSE]}
    /\ tSource \in TransferStores /\ tDest = "" /\ tForm = FALSE /\ tTab = "list"
    /\ tSubmitting = FALSE /\ tOp = NoOp /\ tSession = 0
    /\ tCommands = 0 /\ tElsewhere = 0 /\ tEntry = 1 /\ tMade = [e \in Entries |-> {}]
    /\ tRetried = {} /\ tBlurred = FALSE /\ tSelf = FALSE /\ tNameless = FALSE

TransferNext ==
    \/ \E f \in tFetches : getTransfers(f) \/ TransfersFetched(f) \/ FetchFails(f)
    \/ Refresh \/ TransferLoadSession \/ SelectTransferProduct
    \/ \E t \in {"create", "list"} : setActiveTab(t)
    \/ \E s \in TransferStores : ChooseDestination(s) \/ TransferStoreSwitch(s)
    \/ \E d \in BOOLEAN : handleCreateTransfer(d)
    \/ CreateRefused \/ createTransfer
    \/ \E ok \in BOOLEAN : CreateDispatches(ok) \/ CommandAnswers(ok)
    \/ \E t \in TransferIds : handleDispatch(t) \/ handleReceive(t) \/ handleException(t) \/ handleCancel(t)
    \/ \E t \in TransferIds, op \in {"receive", "cancel"} : PulledStatus(t, op)

Statuses == {"none", "DRAFT", "DISPATCHED", "RECEIVED", "EXCEPTION", "CANCELLED"}
TransferTypeOK ==
    /\ tStatus \in [TransferIds -> Statuses] /\ tListed \in [TransferIds -> Statuses] \cup {Unread}
    /\ tSource \in TransferStores /\ tDest \in TransferStores \cup {""}
    /\ tForm \in BOOLEAN /\ tSubmitting \in BOOLEAN /\ tSession \in 0 .. 2 /\ tEntry \in Entries

(* What is entered once is created once, however often the buttons are       *)
(* pressed and whatever is refused; the exception is an entry whose dispatch *)
(* failed after its draft was created: the form keeps it, and pressing again *)
(* creates a second transfer.                                                *)
OneTransferPerEntry ==
    \A e \in Entries : e \notin tRetried => Cardinality(tMade[e]) <= 1

(* When nothing is under way the list is the database's, unless a load       *)
(* failed, two loads overlapped, or the database moved on by a pull or by a  *)
(* dispatch that failed after its creation.                                  *)
ListIsCurrent ==
    (tFetches = {} /\ tOp = NoOp /\ ~tBlurred) => tListed \in {Unread, tStatus}

(* No transfer from a store to itself, although the active store may change  *)
(* to the chosen destination, and no cancellation without a user.            *)
TransferIsSound == ~tSelf /\ ~tNameless

(* What the transfer screen promises: one transfer for one entry of the      *)
(* form, a list that is current once it has been read, and commands that are *)
(* complete.                                                                 *)
TransfersAreTrue == OneTransferPerEntry /\ ListIsCurrent /\ TransferIsSound
=============================================================================
