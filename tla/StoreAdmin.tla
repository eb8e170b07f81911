----------------------------- MODULE StoreAdmin -----------------------------
(***************************************************************************)
(* Stores are created, renamed and switched on and off in SettingsView,     *)
(* written to the local database first and pushed to the server behind the  *)
(* user's back (tauriStoreService: a direct push with retries, then a queue *)
(* that is worked off by a timer and by the browser's 'online' event). One  *)
(* store; AppShell has the list and the active store. The server's routes  *)
(* are external.                                                            *)
(***************************************************************************)
EXTENDS Integers, Sequences, FiniteSets

CONSTANTS MaxEdits,     \* bound: creations, renamings and toggles
          MaxAttempts,  \* attempts of a push before it is queued (4 in the code)
          MaxRequeues   \* bound: times a push returns to the queue

ASSUME StoreAssumption == /\ MaxEdits \in Nat /\ MaxAttempts \in Nat \ {0} /\ MaxRequeues \in Nat

VARIABLES
    dbName,        \* its name in the local database: the edit that gave it; 0: none yet
    srvName,       \* the same on the server; 0: it has no such store
    pushes,        \* _pushStoreToApi calls under way: [kind, name, left]
    pushQueue,     \* _pendingPushQueue
    working,       \* the items _processPushQueue still has; with the loop's flag
    retryTimer,    \* _queueRetryTimer is set
    requeues, edits,
    modal,         \* the store modal: "closed", "create" or "edit"
    modalBusy,     \* storeModalSubmitting
    crossedName    \* history: an older name reached the server after a newer one

storeVars == <<dbName, srvName, pushes, pushQueue, working, retryTimer, requeues, edits,
               modal, modalBusy, crossedName>>
pushVars == <<srvName, pushes, pushQueue, working, retryTimer, requeues, crossedName>>

Resting == [busy |-> FALSE, items |-> <<>>]
Push(k, n) == [kind |-> k, name |-> n, left |-> MaxAttempts]
-----------------------------------------------------------------------------
(* _fetchApi: the server does it and answers, does it and the answer is lost *)
(* (the timeout aborts), or is not reached. A PATCH needs the store; a POST  *)
(* of a store that exists is answered with it; the field is_active of a      *)
(* PATCH is not one the route knows.                                         *)
Known(p) == p.kind = "POST" \/ srvName # 0
Serves(p) ==
    /\ srvName' = IF \/ p.kind = "POST" /\ srvName = 0
                     \/ p.kind = "PATCH" /\ srvName # 0
                  THEN p.name ELSE srvName
    /\ crossedName' = (crossedName \/ (p.kind = "PATCH" /\ srvName > p.name))
_fetchApi(p, answered) ==
    IF answered THEN Known(p) /\ Serves(p)
    ELSE \/ Known(p) /\ Serves(p)
         \/ UNCHANGED <<srvName, crossedName>>

(* _pushStoreToApi: after the last attempt the push is queued and the queue  *)
(* worked off at once, unless it is being worked off.                        *)
StartQueue(q) ==
    IF working.busy \/ q = <<>> THEN pushQueue' = q /\ UNCHANGED working
    ELSE pushQueue' = <<>> /\ working' = [busy |-> TRUE, items |-> q]

\* mutant: a push that used up its attempts is given up
_giveUpStorePush(p, answered) ==
    /\ p \in pushes /\ _fetchApi(p, answered)
    /\ pushes' = (pushes \ {p}) \cup (IF answered \/ p.left = 1 THEN {} ELSE {[p EXCEPT !.left = @ - 1]})
    /\ UNCHANGED <<dbName, pushQueue, working, retryTimer, requeues, edits, modal,
                   modalBusy>>
_pushStoreToApi(p, answered) ==
    /\ p \in pushes /\ _fetchApi(p, answered)
    /\ IF answered THEN pushes' = pushes \ {p} /\ UNCHANGED <<pushQueue, working>>
       ELSE IF p.left > 1
       THEN pushes' = (pushes \ {p}) \cup {[p EXCEPT !.left = @ - 1]} /\ UNCHANGED <<pushQueue, working>>
       ELSE pushes' = pushes \ {p} /\ StartQueue(Append(pushQueue, p))
    /\ UNCHANGED <<dbName, retryTimer, requeues, edits, modal, modalBusy>>

(* _processPushQueue: each item in turn; a failed one returns to the queue   *)
(* for the next cycle. The loop ends by arming the timer when something is   *)
(* queued.                                                                   *)
_processPushQueue(answered) ==
    /\ working.items # <<>> /\ _fetchApi(Head(working.items), answered)
    /\ ~answered => requeues < MaxRequeues
    /\ working' = [working EXCEPT !.items = Tail(@)]
    /\ IF answered THEN UNCHANGED <<pushQueue, requeues>>
       ELSE pushQueue' = Append(pushQueue, Head(working.items)) /\ requeues' = requeues + 1
    /\ UNCHANGED <<dbName, pushes, retryTimer, edits, modal, modalBusy>>
\* mutant: nothing is scheduled at the end of a cycle
_scheduleNothing == UNCHANGED retryTimer
_scheduleQueueRetry == retryTimer' = (retryTimer \/ pushQueue # <<>>)
QueueCycleEnds ==
    /\ working.busy /\ working.items = <<>>
    /\ working' = Resting
    /\ _scheduleQueueRetry
    /\ UNCHANGED <<dbName, srvName, pushes, pushQueue, requeues, crossedName, edits, modal,
                   modalBusy>>
QueueTimerFires ==
    /\ retryTimer /\ retryTimer' = FALSE
    /\ StartQueue(pushQueue)
    /\ UNCHANGED <<dbName, srvName, pushes, requeues, crossedName, edits, modal, modalBusy>>
OnlineEvent ==
    /\ pushQueue # <<>> /\ ~working.busy
    /\ StartQueue(pushQueue)
    /\ UNCHANGED <<dbName, srvName, pushes, retryTimer, requeues, crossedName, edits, modal,
                   modalBusy>>
-----------------------------------------------------------------------------
(* The store modal and the actions column of SettingsView.                   *)
handleAddStore ==
    /\ modal = "closed" /\ modal' = "create"
    /\ UNCHANGED <<dbName, edits, modalBusy, pushVars>>
StoreRowOffered == modal = "closed" /\ dbName # 0      \* a row, with its buttons
handleEditStore ==
    /\ StoreRowOffered /\ modal' = "edit"
    /\ UNCHANGED <<dbName, edits, modalBusy, pushVars>>
CloseStoreModal ==
    /\ modal # "closed" /\ modal' = "closed"
    /\ UNCHANGED <<dbName, edits, modalBusy, pushVars>>

(* A change is written locally and pushed without waiting; AppShell has the   *)
(* event that announces it.                                                  *)
Save(k, n) ==
    /\ edits < MaxEdits /\ edits' = edits + 1
    /\ pushes' = pushes \cup {Push(k, n)}
    /\ UNCHANGED <<srvName, pushQueue, working, retryTimer, requeues, crossedName>>
createStore ==
    /\ dbName = 0 /\ dbName' = edits + 1 /\ Save("POST", edits + 1)
updateStore ==
    /\ dbName # 0 /\ dbName' = edits + 1 /\ Save("PATCH", edits + 1)
toggleStoreActive ==
    /\ dbName # 0 /\ UNCHANGED dbName
    /\ Save("TOGGLE", edits + 1)

StoreSubmitOffered == modal # "closed" /\ ~modalBusy
handleStoreModalSubmit ==
    /\ StoreSubmitOffered /\ modalBusy' = TRUE
    /\ UNCHANGED <<dbName, edits, modal, pushVars>>
(* The command answers: the modal closes, or shows the error.                *)
StoreModalAnswers ==
    /\ modalBusy /\ modalBusy' = FALSE
    /\ \/ modal = "create" /\ createStore /\ modal' = "closed"
       \/ modal = "edit" /\ updateStore /\ modal' = "closed"
       \/ UNCHANGED <<dbName, edits, modal, pushVars>>
handleToggleStore ==
    /\ StoreRowOffered /\ toggleStoreActive
    /\ UNCHANGED <<modal, modalBusy>>
-----------------------------------------------------------------------------
StoreInit ==
    /\ dbName = 0 /\ srvName = 0
    /\ pushes = {} /\ pushQueue = <<>> /\ working = Resting /\ retryTimer = FALSE
    /\ requeues = 0 /\ edits = 0 /\ modal = "closed" /\ modalBusy = FALSE
    /\ crossedName = FALSE

StoreNext ==
    \/ \E p \in pushes, answered \in BOOLEAN : _pushStoreToApi(p, answered)
    \/ \E answered \in BOOLEAN : _processPushQueue(answered)
    \/ QueueCycleEnds \/ QueueTimerFires \/ OnlineEvent
    \/ handleAddStore \/ handleEditStore \/ CloseStoreModal
    \/ handleStoreModalSubmit \/ StoreModalAnswers \/ handleToggleStore

StoreTypeOK ==
    /\ dbName \in 0 .. MaxEdits /\ srvName \in 0 .. MaxEdits
    /\ modal \in {"closed", "create", "edit"} /\ modalBusy \in BOOLEAN

InQueue(q, n) == \E i \in DOMAIN q : q[i].name = n
StillPending(n) ==
    \/ \E p \in pushes : p.name = n
    \/ InQueue(pushQueue, n) \/ InQueue(working.items, n)

(* The name a store has been given reaches the server or is still being      *)
(* pushed, whatever fails or times out; the exception is an older push that  *)
(* was retried after a newer one had arrived, and overwrote it.              *)
LastNameIsDelivered == dbName \in {0, srvName} \/ StillPending(dbName) \/ crossedName

(* A queued push always has somebody to send it: the queue is being worked   *)
(* off or the timer is set ("re-queued for the next cycle").                 *)
QueueIsServed == pushQueue # <<>> => working.busy \/ retryTimer
=============================================================================
