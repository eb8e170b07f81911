----------------------------- MODULE SyncDriver -----------------------------
(***************************************************************************)
(* Who starts the sync runs of the desktop: the chain of timers of          *)
(* startBackgroundSync, the effects of App.tsx on signing in and on coming  *)
(* online, and the sync chip of the header. A run itself (OutboxSync,       *)
(* SyncPull) is external here: it ends sooner or later, or throws. The      *)
(* timers of JavaScript cannot be told apart from outside: a chain keeps    *)
(* going as long as its run finds _backgroundSyncActive set when it ends.   *)
(***************************************************************************)
EXTENDS Integers, FiniteSets

CONSTANTS MaxChains,   \* bound: calls of startBackgroundSync
          MaxManual,   \* bound: manual syncs and online events
          MaxTicks     \* bound: timers that fire

ASSUME DriverAssumption == MaxChains \in Nat /\ MaxManual \in Nat /\ MaxTicks \in Nat

VARIABLES
    drvAuth,       \* authState
    drvActive,     \* _backgroundSyncActive
    drvChain,      \* per startBackgroundSync: "unused", "timer", "running" or "ended"
    drvTimeoutId,  \* the chain whose timer _backgroundTimeoutId names; 0: null
    drvFirst,      \* the immediate runs of a start that are under way
    drvManual,     \* triggerManualSync calls under way
    drvIsSyncing,  \* isSyncing
    drvStatus,     \* syncStatus
    drvClears,     \* timers that will clear syncStatus
    drvStarts, drvClicks, drvTicks,
    drvRevived,    \* history: sync was started again while a run of an older chain was under way
    drvOverlapped  \* history: two manual syncs were under way at once

driverVars == <<drvAuth, drvActive, drvChain, drvTimeoutId, drvFirst, drvManual, drvIsSyncing,
                drvStatus, drvClears, drvStarts, drvClicks, drvTicks, drvRevived, drvOverlapped>>
chainVars == <<drvActive, drvChain, drvTimeoutId, drvFirst, drvStarts, drvTicks, drvRevived>>
chipVars == <<drvManual, drvIsSyncing, drvStatus, drvClears, drvClicks, drvOverlapped>>

Chains == 1 .. MaxChains
Alive == {c \in Chains : drvChain[c] \in {"timer", "running"}}
-----------------------------------------------------------------------------
(* startBackgroundSync, by the effect of App when the state is               *)
(* authenticated: a first run at once, another one (forced) by App itself,   *)
(* and the chain of timers.                                                  *)
startBackgroundSync ==
    /\ drvStarts < MaxChains
    /\ IF drvActive THEN UNCHANGED <<drvActive, drvChain, drvTimeoutId, drvStarts, drvRevived>>
       ELSE /\ drvActive' = TRUE /\ drvStarts' = drvStarts + 1
            /\ drvChain' = [drvChain EXCEPT ![drvStarts + 1] = "timer"]
            /\ drvTimeoutId' = drvStarts + 1
            /\ drvRevived' = (drvRevived \/ \E c \in Chains : drvChain[c] = "running")
    /\ drvFirst' = drvFirst + 2
\* mutant: the timer goes on
StopKeepsTimer == drvActive' = FALSE /\ UNCHANGED <<drvChain, drvTimeoutId>>
stopBackgroundSync ==
    /\ drvActive' = FALSE
    /\ IF drvTimeoutId # 0 /\ drvChain[drvTimeoutId] = "timer"
       THEN drvChain' = [drvChain EXCEPT ![drvTimeoutId] = "ended"] ELSE UNCHANGED drvChain
    /\ drvTimeoutId' = 0

DriverSignIn ==
    /\ drvAuth # "authenticated" /\ drvAuth' = "authenticated"
    /\ startBackgroundSync
    /\ UNCHANGED <<drvTicks, chipVars>>
(* Signing out, or a session that has expired offline: the effect is cleaned *)
(* up.                                                                       *)
DriverSignOut(a) ==
    /\ drvAuth = "authenticated" /\ drvAuth' = a
    /\ stopBackgroundSync
    /\ UNCHANGED <<drvFirst, drvStarts, drvTicks, drvRevived, chipVars>>

(* A timer fires and runs triggerSync; when that ends, also by an error, the *)
(* chain goes on if sync is active.                                          *)
TimerFires(c) ==
    /\ drvChain[c] = "timer" /\ drvTicks < MaxTicks /\ drvTicks' = drvTicks + 1
    /\ drvChain' = [drvChain EXCEPT ![c] = "running"]
    /\ UNCHANGED <<drvAuth, drvActive, drvTimeoutId, drvFirst, drvStarts, drvRevived, chipVars>>
\* mutant: the chain goes on whatever has happened
GoesOnAlways(threw) == TRUE
GoesOn(threw) == drvActive
_scheduleNext(c, threw) ==
    /\ drvChain[c] = "running"
    /\ IF GoesOn(threw)
       THEN drvChain' = [drvChain EXCEPT ![c] = "timer"] /\ drvTimeoutId' = c
       ELSE drvChain' = [drvChain EXCEPT ![c] = "ended"] /\ UNCHANGED drvTimeoutId
    /\ UNCHANGED <<drvAuth, drvActive, drvFirst, drvStarts, drvTicks, drvRevived, chipVars>>
FirstRunEnds ==
    /\ drvFirst > 0 /\ drvFirst' = drvFirst - 1
    /\ UNCHANGED <<drvAuth, drvActive, drvChain, drvTimeoutId, drvStarts, drvTicks, drvRevived, chipVars>>
-----------------------------------------------------------------------------
(* The chip: a click at any time, or the browser coming online, on which App *)
(* starts a run of its own too.                                              *)
triggerManualSync ==
    /\ drvAuth # "none" /\ drvClicks < MaxManual /\ drvClicks' = drvClicks + 1
    /\ drvManual' = drvManual + 1
    /\ drvIsSyncing' = TRUE /\ drvStatus' = "SYNCHING"
    /\ drvOverlapped' = (drvOverlapped \/ drvManual > 0)
    /\ UNCHANGED drvClears
ChipClicked ==
    /\ triggerManualSync
    /\ UNCHANGED <<drvAuth, chainVars>>
handleOnline ==
    /\ triggerManualSync /\ drvFirst' = drvFirst + 1
    /\ UNCHANGED <<drvAuth, drvActive, drvChain, drvTimeoutId, drvStarts, drvTicks, drvRevived>>

(* The run has ended or thrown: the status is shown for three seconds.       *)
\* mutant: an error leaves the chip as it is
ManualEndsOnSuccess(threw) ==
    /\ drvManual > 0 /\ drvManual' = drvManual - 1
    /\ drvIsSyncing' = IF threw THEN drvIsSyncing ELSE FALSE
    /\ drvStatus' = IF threw THEN "SYNC FAILED" ELSE "SYNCHED"
    /\ drvClears' = drvClears + 1
    /\ UNCHANGED <<drvAuth, drvClicks, drvOverlapped, chainVars>>
ManualEnds(threw) ==
    /\ drvManual > 0 /\ drvManual' = drvManual - 1
    /\ drvIsSyncing' = FALSE
    /\ drvStatus' = IF threw THEN "SYNC FAILED" ELSE "SYNCHED"
    /\ drvClears' = drvClears + 1
    /\ UNCHANGED <<drvAuth, drvClicks, drvOverlapped, chainVars>>
StatusClears ==
    /\ drvClears > 0 /\ drvClears' = drvClears - 1 /\ drvStatus' = ""
    /\ UNCHANGED <<drvAuth, drvManual, drvIsSyncing, drvClicks, drvOverlapped, chainVars>>
-----------------------------------------------------------------------------
DriverInit ==
    /\ drvAuth = "none" /\ drvActive = FALSE
    /\ drvChain = [c \in Chains |-> "unused"] /\ drvTimeoutId = 0 /\ drvFirst = 0
    /\ drvManual = 0 /\ drvIsSyncing = FALSE /\ drvStatus = "" /\ drvClears = 0
    /\ drvStarts = 0 /\ drvClicks = 0 /\ drvTicks = 0 /\ drvRevived = FALSE /\ drvOverlapped = FALSE

DriverNext ==
    \/ DriverSignIn \/ \E a \in {"none", "expired_offline"} : DriverSignOut(a)
    \/ \E c \in Chains : TimerFires(c) \/ \E threw \in BOOLEAN : _scheduleNext(c, threw)
    \/ FirstRunEnds \/ ChipClicked \/ handleOnline
    \/ \E threw \in BOOLEAN : ManualEnds(threw)
    \/ StatusClears

DriverSpec == DriverInit /\ [][DriverNext]_driverVars

DriverTypeOK ==
    /\ drvAuth \in {"none", "authenticated", "expired_offline"} /\ drvActive \in BOOLEAN
    /\ drvChain \in [Chains -> {"unused", "timer", "running", "ended"}]
    /\ drvTimeoutId \in 0 .. MaxChains /\ drvIsSyncing \in BOOLEAN
    /\ drvStatus \in {"", "SYNCHING", "SYNCHED", "SYNC FAILED"}

(* The chain "doesn't pile up": there is at most one, through signing out    *)
(* and in again; unless sync was started again while a run of the old chain  *)
(* was under way, which then finds the flag set and lives on.                *)
ChainIsSingle == drvRevived \/ Cardinality(Alive) <= 1

(* Whoever is signed in has a chain that keeps syncing, whatever runs throw; *)
(* and after signing out no timer is left, with the same exception.          *)
ChainFollowsSession ==
    /\ drvAuth = "authenticated" => Alive # {}
    /\ drvAuth # "authenticated" /\ ~drvRevived => \A c \in Chains : drvChain[c] # "timer"

(* The chip says that a sync is under way exactly while one it started is,   *)
(* unless two of them overlapped.                                            *)
ChipTellsTruth == drvOverlapped \/ (drvIsSyncing <=> drvManual > 0)
=============================================================================
