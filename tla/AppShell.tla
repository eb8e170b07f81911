------------------------------ MODULE AppShell ------------------------------
(***************************************************************************)
(* The frame of the desktop application (App.tsx, Header, Sidebar): the     *)
(* list of stores, the active store with the overlay that covers a switch   *)
(* and the event that tells the views of it, and the navigation. What is    *)
(* persisted (useAppState) survives a restart.                              *)
(***************************************************************************)
EXTENDS Integers, FiniteSets

CONSTANTS ShellStores,   \* the stores there may be
          NoStore,       \* no active store
          MaxSelects,    \* bound: stores and views selected
          MaxReloads,    \* bound: changes of the stores and reloads of the list
          MaxStarts      \* bound: starts of the application

ASSUME ShellAssumption == /\ NoStore \notin ShellStores /\ IsFiniteSet(ShellStores)
                          /\ MaxSelects \in Nat /\ MaxReloads \in Nat /\ MaxStarts \in Nat

VARIABLES
    appDb,         \* the active stores of the local database (external)
    appList,       \* stores; {} before the first load
    appActive,     \* activeStoreId, persisted
    appFetches,    \* fetchStores under way: [snap, to]; snap = {NoStore} before it was read
    appOverlay,    \* switchingStore.active
    appTold,       \* the store of the last 'stores-updated' event that named one
    appView,       \* currentView, persisted
    appMore,       \* moreOpen of the sidebar
    appMenu,       \* the menu of the header that is open
    appSigned,     \* signed in
    appSelects, appReloads, appStarts,
    appCrossed     \* history: a switch began before the last had ended, or a list replaced the store

shellStoreVars == <<appDb, appList, appActive, appFetches, appOverlay, appTold, appSelects,
                    appReloads, appCrossed>>
shellNavVars == <<appView, appMore, appMenu>>
appVars == <<shellStoreVars, shellNavVars, appSigned, appStarts>>

Waiting == {NoStore}                       \* a fetch that has not read the stores
NavViews == {"dashboard", "transactions", "settings"}
MORE_NAV_ITEMS == {"transactions"}
-----------------------------------------------------------------------------
(* fetchStores: the list is read and replaces the one on display; an active  *)
(* store that is not in it is replaced by its first one. An error is kept    *)
(* for display, so that the promise never rejects.                           *)
FetchOf(to) == [snap |-> Waiting, to |-> to]
StoresFetch(to) == appFetches' = appFetches \cup {FetchOf(to)}

getStores(f) ==
    /\ f.snap = Waiting
    /\ appFetches' = (appFetches \ {f}) \cup {[f EXCEPT !.snap = appDb]}
    /\ UNCHANGED <<appDb, appList, appActive, appOverlay, appTold, appSelects, appReloads, appCrossed,
                   appSigned, appStarts, shellNavVars>>

\* mutant: the active store stays
KeepActive(ss) == {appActive}
ActiveAfter(ss) == IF ss # {} /\ appActive \notin ss THEN ss ELSE {appActive}

(* The end of handleSelectStoreAndReload: the views are told of the store,   *)
(* App itself hears the event and fetches again, the overlay goes.           *)
\* mutant: the overlay goes only after a list that arrived
SwitchEndsIfRead(f, ok) ==
    IF f.to = NoStore \/ ~ok THEN appFetches' = appFetches \ {f} /\ UNCHANGED <<appTold, appOverlay>>
    ELSE /\ appFetches' = (appFetches \ {f}) \cup {FetchOf(NoStore)}
         /\ appTold' = f.to /\ appOverlay' = FALSE
\* mutant: only the first switch tells the views
SwitchEndsUnnamed(f, ok) ==
    IF f.to = NoStore THEN appFetches' = appFetches \ {f} /\ UNCHANGED <<appTold, appOverlay>>
    ELSE /\ appFetches' = (appFetches \ {f}) \cup {FetchOf(NoStore)}
         /\ appTold' = IF appTold = NoStore THEN f.to ELSE appTold
         /\ appOverlay' = FALSE
SwitchEnds(f, ok) ==
    IF f.to = NoStore THEN appFetches' = appFetches \ {f} /\ UNCHANGED <<appTold, appOverlay>>
    ELSE /\ appFetches' = (appFetches \ {f}) \cup {FetchOf(NoStore)}
         /\ appTold' = f.to /\ appOverlay' = FALSE

fetchStores(f, ok) ==
    /\ f \in appFetches /\ f.snap # Waiting
    /\ IF ok THEN /\ appList' = f.snap /\ appActive' \in ActiveAfter(f.snap)
                  /\ appCrossed' = (appCrossed \/ appActive' # appActive)
       ELSE UNCHANGED <<appList, appActive, appCrossed>>
    /\ SwitchEnds(f, ok)
    /\ UNCHANGED <<appDb, appSelects, appReloads, appSigned, appStarts, shellNavVars>>

(* Stores are added, switched off or pulled; with the event that says so.    *)
StoresChange(ss) ==
    /\ appReloads < MaxReloads /\ appReloads' = appReloads + 1 /\ ss # appDb
    /\ appDb' = ss
    /\ StoresFetch(NoStore)
    /\ UNCHANGED <<appList, appActive, appOverlay, appTold, appSelects, appCrossed, appSigned,
                   appStarts, shellNavVars>>
(* A sync run of App ends with a reload of the list.                         *)
SyncThenFetch ==
    /\ appSigned /\ appReloads < MaxReloads /\ appReloads' = appReloads + 1
    /\ StoresFetch(NoStore)
    /\ UNCHANGED <<appDb, appList, appActive, appOverlay, appTold, appSelects, appCrossed, appSigned,
                   appStarts, shellNavVars>>

(* The store menu of the header.                                             *)
setActiveStoreId(s) == appActive' = s
StoreOffered(s) == appSigned /\ appMenu = "store" /\ s \in appList
handleSelectStoreAndReload(s) ==
    /\ StoreOffered(s) /\ appSelects < MaxSelects /\ appSelects' = appSelects + 1
    /\ appOverlay' = TRUE /\ setActiveStoreId(s)
    /\ StoresFetch(s)
    /\ appCrossed' = (appCrossed \/ \E f \in appFetches : f.to # NoStore)
    /\ appMenu' = "none"
    /\ UNCHANGED <<appDb, appList, appTold, appReloads, appSigned, appStarts, appView, appMore>>

(* The menus, and Escape or a click beside them.                             *)
toggleMenu(m) ==
    /\ appSigned /\ (m = "store" => appList # {})
    /\ appMenu' = IF appMenu = m THEN "none" ELSE m
    /\ UNCHANGED <<appView, appMore, appSigned, appStarts, shellStoreVars>>
closeMenus ==
    /\ appMenu # "none" /\ appMenu' = "none"
    /\ UNCHANGED <<appView, appMore, appSigned, appStarts, shellStoreVars>>
-----------------------------------------------------------------------------
(* The sidebar: the group of a view that is under More is opened when that   *)
(* view is entered, whatever the click that led there did to it.             *)
ViewShown == IF appSigned THEN appView ELSE "login"
NavOffered(v) == ViewShown # "login" /\ (v \in MORE_NAV_ITEMS => appMore)
setCurrentView(v) ==
    /\ appView' = v
    /\ appMore' = IF v # appView THEN v \in MORE_NAV_ITEMS
                  ELSE appMore /\ v \notin MORE_NAV_ITEMS
navigate(v) ==
    /\ NavOffered(v) /\ setCurrentView(v)
    /\ appSelects < MaxSelects /\ appSelects' = appSelects + 1
    /\ appMenu' = "none"
    /\ UNCHANGED <<appDb, appList, appActive, appFetches, appOverlay, appTold, appReloads, appCrossed,
                   appSigned, appStarts>>
toggleMore ==
    /\ appSigned /\ appMore' = ~appMore
    /\ UNCHANGED <<appView, appMenu, appSigned, appStarts, shellStoreVars>>
-----------------------------------------------------------------------------
(* Signing in loads the list; the user menu signs out, loads under way go on.*)
ShellSignIn ==
    /\ ~appSigned /\ appSigned' = TRUE
    /\ StoresFetch(NoStore)
    /\ appMore' = (appView \in MORE_NAV_ITEMS)
    /\ UNCHANGED <<appDb, appList, appActive, appOverlay, appTold, appSelects, appReloads,
                   appCrossed, appStarts, appView, appMenu>>
ShellSignOut ==
    /\ appSigned /\ appMenu = "user" /\ appSigned' = FALSE
    /\ appMenu' = "none"
    /\ UNCHANGED <<appView, appMore, appStarts, shellStoreVars>>
ShellRestart ==
    /\ appStarts < MaxStarts /\ appStarts' = appStarts + 1
    /\ appList' = {} /\ appFetches' = {} /\ appOverlay' = FALSE /\ appTold' = NoStore
    /\ appMore' = FALSE /\ appMenu' = "none" /\ appSigned' = FALSE /\ appCrossed' = FALSE
    /\ UNCHANGED <<appDb, appActive, appView, appSelects, appReloads>>
-----------------------------------------------------------------------------
AppInit ==
    /\ appDb = ShellStores /\ appList = {} /\ appActive = NoStore /\ appFetches = {}
    /\ appOverlay = FALSE /\ appTold = NoStore
    /\ appView = "dashboard" /\ appMore = FALSE /\ appMenu = "none" /\ appSigned = FALSE
    /\ appSelects = 0 /\ appReloads = 0 /\ appStarts = 1
    /\ appCrossed = FALSE

AppNext ==
    \/ \E f \in appFetches : getStores(f) \/ \E ok \in BOOLEAN : fetchStores(f, ok)
    \/ \E ss \in SUBSET ShellStores : StoresChange(ss)
    \/ SyncThenFetch
    \/ \E s \in ShellStores : handleSelectStoreAndReload(s)
    \/ \E m \in {"user", "store"} : toggleMenu(m)
    \/ closeMenus \/ toggleMore
    \/ \E v \in NavViews : navigate(v)
    \/ ShellSignIn \/ ShellSignOut \/ ShellRestart

AppSpec == AppInit /\ [][AppNext]_appVars

AppTypeOK ==
    /\ appDb \subseteq ShellStores /\ appList \subseteq ShellStores
    /\ appActive \in ShellStores \cup {NoStore} /\ appTold \in ShellStores \cup {NoStore}
    /\ appOverlay \in BOOLEAN /\ appSigned \in BOOLEAN
    /\ appView \in NavViews /\ appMore \in BOOLEAN /\ appMenu \in {"none", "user", "store"}

(* While a list is on display the active store is in it, also after a        *)
(* restart with a persisted store that has been switched off since, and      *)
(* whatever lists overlap ("prev === null || !validIds.includes(prev)").     *)
ActiveStoreIsListed == appList # {} => appActive \in appList

(* The overlay that covers the application during a switch goes away: while  *)
(* it is up, a switch is under way that will remove it, also when the list   *)
(* cannot be read.                                                           *)
OverlayIsBacked == appOverlay => \E f \in appFetches : f.to # NoStore

(* When the switches have ended the views were last told of the store that   *)
(* is active, unless two switches overlapped or a list replaced the store    *)
(* without an event.                                                         *)
ViewsAreTold ==
    (~\E f \in appFetches : f.to # NoStore) /\ ~appCrossed
        => appTold \in {NoStore, appActive}

(* What the shell promises its views: the active store is one of the list,   *)
(* the overlay goes away, and they are told of the store that is active.     *)
ShellIsSound == ActiveStoreIsListed /\ OverlayIsBacked /\ ViewsAreTold
=============================================================================
