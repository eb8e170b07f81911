----------------------------- MODULE Dashboard -----------------------------
(***************************************************************************)
(* DashboardView: the figures of the active store in the chosen range of    *)
(* dates. They are read again when the query changes, when a sync run has   *)
(* ended (the event 'inventory-sync-complete') and after the view's own     *)
(* "Sync now", whose handler keeps the query of the render it was clicked   *)
(* in. Answers are not matched with the query. The sync run and the         *)
(* aggregation in SQLite are external: a run may apply a pull, which makes  *)
(* a new version of the data, and a read answers with the version it saw.   *)
(* No other screen is open meanwhile, so nothing else changes the data.     *)
(***************************************************************************)
EXTENDS Integers, Sequences, FiniteSets
DashSets == INSTANCE FiniteSetsExt

CONSTANTS DashQueries,   \* what may be asked for: a store and a range of dates
          MaxDashSteps,  \* bound: changes of the query and clicks
          MaxDashRuns,   \* bound: sync runs of the timer
          MaxDashLoads   \* bound: reads under way at once

ASSUME DashAssumption == /\ "none" \notin DashQueries
                         /\ MaxDashSteps \in Nat /\ MaxDashRuns \in Nat /\ MaxDashLoads \in Nat

VARIABLES
    dashQuery,    \* activeStoreId and dateRange
    dashData,     \* analytics: [q, version], or NoFigures
    dashLoads,    \* loadAnalytics under way: [q, no, version]; version 0 before the read
    dashLoading,  \* dataLoading
    dashError,    \* syncError
    dashClick,    \* handleSyncNow under way: the query of its loadAnalytics, or NoClick
    dashRun,      \* the sync run under way: [of, applied]
    dashVersion,  \* the version of the local data (external)
    dashSteps, dashRuns,
    dashAnswered, \* history: the newest load that was answered
    dashCrossed,  \* history: a load was answered after a newer one
    dashOverlap,  \* history: a load began with another under way
    dashStale,    \* history: a load began for a query that had been left
    dashUnsaid    \* history: a run applied a pull and threw before its event

dashVars == <<dashQuery, dashData, dashLoads, dashLoading, dashError, dashClick, dashRun, dashVersion,
              dashSteps, dashRuns, dashAnswered, dashCrossed, dashOverlap, dashStale, dashUnsaid>>
dashHistory == <<dashAnswered, dashCrossed, dashOverlap, dashStale, dashUnsaid>>

NoFigures == [q |-> "none", version |-> 0]
NoClick == "none"
NoRun == [of |-> "nobody", applied |-> FALSE]
dashIsSyncing == dashClick # NoClick
-----------------------------------------------------------------------------
\* mutant: the figures stay on display while the new ones are read
BeginQuietly(qs) == dashLoading' = dashLoading /\ dashError' = FALSE
BeginLoading(qs) == dashLoading' = TRUE /\ dashError' = FALSE

(* The loads of a busy stretch are numbered from 1.                          *)
NextDashNo == IF dashLoads = {} THEN 0 ELSE DashSets!Max({l.no : l \in dashLoads} \cup {dashAnswered})

(* loadAnalytics, begun for a sequence of queries one after the other (at    *)
(* most two: that of the event and that of the click).                       *)
loadAnalytics(qs) ==
    LET quiet == dashLoads = {} IN
    /\ Cardinality(dashLoads) + Len(qs) <= MaxDashLoads
    /\ BeginLoading(qs)
    /\ dashLoads' = dashLoads \cup {[q |-> qs[i], no |-> NextDashNo + i, version |-> 0] : i \in DOMAIN qs}
    /\ dashCrossed' = (dashCrossed /\ ~quiet)
    /\ dashOverlap' = (~quiet \/ Len(qs) > 1)
    /\ dashStale' = ((\E i \in DOMAIN qs : qs[i] # dashQuery') \/ (dashStale /\ ~quiet))
    /\ dashUnsaid' = FALSE
    /\ dashAnswered' = IF quiet THEN 0 ELSE dashAnswered
    /\ UNCHANGED dashData

(* The header switches the store, or a date is chosen.                       *)
ChangeQuery(q) ==
    /\ q # dashQuery /\ dashSteps < MaxDashSteps /\ dashSteps' = dashSteps + 1
    /\ dashQuery' = q
    /\ loadAnalytics(<<q>>)
    /\ UNCHANGED <<dashClick, dashRun, dashVersion, dashRuns>>

(* get_dashboard_analytics runs, and later its answer arrives. A failed one  *)
(* leaves no figures, and says so.                                           *)
AnalyticsRead(l) ==
    /\ l.version = 0
    /\ dashLoads' = (dashLoads \ {l}) \cup {[l EXCEPT !.version = dashVersion]}
    /\ UNCHANGED <<dashQuery, dashData, dashLoading, dashError, dashClick, dashRun, dashVersion,
                   dashSteps, dashRuns, dashHistory>>
Settle(l) ==
    /\ dashLoads' = dashLoads \ {l} /\ dashLoading' = FALSE
    /\ dashAnswered' = DashSets!Max({l.no, dashAnswered})
    /\ dashCrossed' = (dashCrossed \/ l.no < dashAnswered)
    /\ UNCHANGED <<dashQuery, dashClick, dashRun, dashVersion, dashSteps, dashRuns, dashOverlap,
                   dashStale, dashUnsaid>>
AnalyticsAnswered(l) ==
    /\ l.version > 0
    /\ dashData' = [q |-> l.q, version |-> l.version] /\ UNCHANGED dashError
    /\ Settle(l)
\* mutant: the error is not shown
AnalyticsFailedQuietly(l) == dashData' = NoFigures /\ UNCHANGED dashError /\ Settle(l)
AnalyticsFailed(l) == dashData' = NoFigures /\ dashError' = TRUE /\ Settle(l)
-----------------------------------------------------------------------------
(* Runs of the sync service: the timer's, or that of handleSyncNow. A click  *)
(* during another run is answered at once ("in progress").                   *)
TimerRun ==
    /\ dashRun = NoRun /\ dashRuns < MaxDashRuns /\ dashRuns' = dashRuns + 1
    /\ dashRun' = [of |-> "timer", applied |-> FALSE]
    /\ UNCHANGED <<dashQuery, dashData, dashLoads, dashLoading, dashError, dashClick, dashVersion,
                   dashSteps, dashHistory>>
handleSyncNow ==
    /\ ~dashIsSyncing /\ dashSteps < MaxDashSteps /\ dashSteps' = dashSteps + 1
    /\ dashClick' = dashQuery /\ dashError' = FALSE
    /\ \/ dashRun = NoRun /\ dashRun' = [of |-> "click", applied |-> FALSE]
       \/ dashRun # NoRun /\ UNCHANGED dashRun
    /\ UNCHANGED <<dashQuery, dashData, dashLoads, dashLoading, dashVersion, dashRuns, dashHistory>>
PullApplied ==
    /\ dashRun # NoRun /\ ~dashRun.applied
    /\ dashRun' = [dashRun EXCEPT !.applied = TRUE] /\ dashVersion' = dashVersion + 1
    /\ UNCHANGED <<dashQuery, dashData, dashLoads, dashLoading, dashError, dashClick, dashSteps,
                   dashRuns, dashHistory>>

\* mutant: nobody listens to the event
NobodyListens(announced) == <<>>
SyncCompleteLoads(announced) == IF announced THEN <<dashQuery>> ELSE <<>>

(* The run ends: regularly with the event, or, as long as nothing was        *)
(* applied, by an early return without it. The handler of the click, if it   *)
(* is its run, goes on with its own loadAnalytics.                           *)
DashRunEnds(announced) ==
    LET own == IF dashRun.of = "click" THEN <<dashClick>> ELSE <<>>
        qs == SyncCompleteLoads(announced) \o own IN
    /\ dashRun # NoRun /\ dashRun' = NoRun /\ (announced \/ ~dashRun.applied)
    /\ dashClick' = IF own # <<>> THEN NoClick ELSE dashClick
    /\ IF qs # <<>> THEN UNCHANGED dashQuery /\ loadAnalytics(qs)
       ELSE UNCHANGED <<dashQuery, dashData, dashLoads, dashLoading, dashError, dashHistory>>
    /\ UNCHANGED <<dashVersion, dashSteps, dashRuns>>
DashRunThrows ==
    /\ dashRun # NoRun /\ dashRun' = NoRun
    /\ IF dashRun.of = "click" THEN dashClick' = NoClick /\ dashError' = TRUE
       ELSE UNCHANGED <<dashClick, dashError>>
    /\ dashUnsaid' = (dashUnsaid \/ dashRun.applied)
    /\ UNCHANGED <<dashQuery, dashData, dashLoads, dashLoading, dashVersion, dashSteps, dashRuns,
                   dashAnswered, dashCrossed, dashOverlap, dashStale>>
SyncRefused ==
    /\ dashIsSyncing /\ dashRun.of # "click"
    /\ UNCHANGED dashQuery /\ loadAnalytics(<<dashClick>>) /\ dashClick' = NoClick
    /\ UNCHANGED <<dashRun, dashVersion, dashSteps, dashRuns>>
-----------------------------------------------------------------------------
(* What the tiles say: nothing while figures are read, and zeros when there  *)
(* are none (EMPTY_KPIS), which cannot be told from a store without stock;   *)
(* the tables then say that there is nothing to list.                        *)
kpiTiles == IF dashLoading THEN "..." ELSE IF dashData = NoFigures THEN "zeros" ELSE "figures"
SaysNothingThere == kpiTiles = "zeros"

DashInit ==
    /\ dashQuery \in DashQueries /\ dashData = NoFigures
    /\ dashLoads = {[q |-> dashQuery, no |-> 1, version |-> 0]}
    /\ dashLoading = TRUE /\ dashError = FALSE /\ dashClick = NoClick /\ dashRun = NoRun
    /\ dashVersion = 1 /\ dashSteps = 0 /\ dashRuns = 0
    /\ dashAnswered = 0 /\ dashCrossed = FALSE /\ dashOverlap = FALSE /\ dashStale = FALSE /\ dashUnsaid = FALSE

DashNext ==
    \/ \E q \in DashQueries : ChangeQuery(q)
    \/ \E l \in dashLoads : AnalyticsRead(l) \/ AnalyticsAnswered(l) \/ AnalyticsFailed(l)
    \/ TimerRun \/ handleSyncNow \/ PullApplied
    \/ \E announced \in BOOLEAN : DashRunEnds(announced)
    \/ DashRunThrows \/ SyncRefused

DashSpec == DashInit /\ [][DashNext]_dashVars

DashTypeOK ==
    /\ dashQuery \in DashQueries /\ dashLoading \in BOOLEAN /\ dashError \in BOOLEAN
    /\ dashData.q \in DashQueries \cup {"none"} /\ dashClick \in DashQueries \cup {NoClick}
    /\ \A l \in dashLoads : l.q \in DashQueries /\ l.version \in 0 .. dashVersion
    /\ dashRun.of \in {"nobody", "timer", "click"}

(* Once nothing is under way the dashboard shows the figures of the active   *)
(* store and range as of the last sync, unless an error is shown, answers    *)
(* overtook each other, "Sync now" ended for a query that had been left, or  *)
(* a run threw after it had applied its pull.                                *)
DashboardIsCurrent ==
    dashLoads = {} /\ dashRun = NoRun /\ ~dashIsSyncing
        /\ ~dashError /\ ~dashCrossed /\ ~dashStale /\ ~dashUnsaid
    => dashData = [q |-> dashQuery, version |-> dashVersion]

(* A failed read never passes for an empty store: whenever the tiles show    *)
(* zeros because there are no figures, an error is shown with them, except   *)
(* while a sync has just been asked for (handleSyncNow clears the message)   *)
(* or an overlapping load will still fill them.                              *)
ZerosAreExplained == SaysNothingThere /\ dashLoads = {} => dashError \/ dashIsSyncing

(* Figures are never shown under the name of another store or range, not     *)
(* even for the time of a read, unless loads overlapped or were stale.       *)
FiguresAreOfQuery ==
    kpiTiles = "figures" /\ ~dashOverlap /\ ~dashStale => dashData.q = dashQuery

(* What the dashboard promises: current figures, those of the store that is  *)
(* named, and no zeros that only mean that the read failed.                  *)
DashboardIsTrue == DashboardIsCurrent /\ ZerosAreExplained /\ FiguresAreOfQuery
=============================================================================
