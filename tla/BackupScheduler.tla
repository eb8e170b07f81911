-------------------------- MODULE BackupScheduler --------------------------
(***************************************************************************)
(* backupScheduler.ts: a timer that asks for the backup of the day at every *)
(* local midnight, and once more when the window is shown or focused on a   *)
(* later date than the last one it saw (a timer that slept through the      *)
(* night). Each start is a closure of its own. daily_backup_if_needed is    *)
(* external: it takes no second backup on one date.                         *)
(***************************************************************************)
EXTENDS Integers, FiniteSets

CONSTANTS MaxDate, MaxSchedulers   \* bounds: midnights that pass, calls of the start function

ASSUME SchedulerAssumption == MaxDate \in Nat \ {0} /\ MaxSchedulers \in Nat

VARIABLES
    today, lastDaily,   \* the date, and the date of the last daily backup (0: none)
    dailyBackups,       \* history: the dates daily backups were taken on
    schedulers,         \* each: stopped, midnight (for which its timer is set; 0: none), observedDate
    backupRuns,         \* runBackup calls under way: [of, then], then: the timer is set again
    started, failedOn   \* history: the date of each start, the dates a run failed on

schedulerVars == <<today, lastDaily, dailyBackups, schedulers, backupRuns, started, failedOn>>
-----------------------------------------------------------------------------
DayPasses ==
    /\ today < MaxDate /\ today' = today + 1
    /\ UNCHANGED <<lastDaily, dailyBackups, schedulers, backupRuns, started, failedOn>>
startDailyBackupScheduler ==
    LET n == Cardinality(DOMAIN schedulers) + 1 IN
    /\ n <= MaxSchedulers
    /\ schedulers' = [i \in 1..n |-> IF i < n THEN schedulers[i] ELSE
                        [stopped |-> FALSE, midnight |-> today + 1, observedDate |-> today]]
    /\ started' = [i \in 1..n |-> IF i < n THEN started[i] ELSE today]
    /\ UNCHANGED <<today, lastDaily, dailyBackups, backupRuns, failedOn>>
stopDailyBackupScheduler(i) ==
    /\ ~schedulers[i].stopped
    /\ schedulers' = [schedulers EXCEPT ![i].stopped = TRUE, ![i].midnight = 0]
    /\ UNCHANGED <<today, lastDaily, dailyBackups, backupRuns, started, failedOn>>
\* mutant: the timer is set again after the scheduler was stopped
ScheduleAlways(s) == [s EXCEPT !.midnight = today + 1]
scheduleNextMidnight(s) == IF s.stopped THEN s ELSE [s EXCEPT !.midnight = today + 1]

(* The timer fires, at its midnight or later.                                *)
MidnightFires(i) ==
    /\ schedulers[i].midnight \in 1..today
    /\ schedulers' = [schedulers EXCEPT ![i].midnight = 0, ![i].observedDate = today]
    /\ backupRuns' = backupRuns \cup {[of |-> i, then |-> TRUE]}
    /\ UNCHANGED <<today, lastDaily, dailyBackups, started, failedOn>>
Resumes(s) == ~s.stopped /\ s.observedDate # today
handleResume(i) ==
    /\ Resumes(schedulers[i])
    /\ schedulers' = [schedulers EXCEPT ![i].observedDate = today]
    /\ backupRuns' = backupRuns \cup {[of |-> i, then |-> FALSE]}
    /\ UNCHANGED <<today, lastDaily, dailyBackups, started, failedOn>>
(* The command runs and answers; its failure is passed over.                 *)
\* mutant: the date is a day behind, as that of UTC may be
BackedUpYesterday == lastDaily >= today - 1 /\ lastDaily # 0
BackedUpToday == lastDaily = today
runBackup(r) ==
    /\ r \in backupRuns /\ backupRuns' = backupRuns \ {r}
    /\ \/ BackedUpToday /\ UNCHANGED <<lastDaily, dailyBackups, failedOn>>
       \/ /\ ~BackedUpToday /\ lastDaily' = today
          /\ dailyBackups' = dailyBackups \cup {today}
          /\ UNCHANGED failedOn
       \/ failedOn' = failedOn \cup {today} /\ UNCHANGED <<lastDaily, dailyBackups>>
    /\ schedulers' = IF r.then THEN [schedulers EXCEPT ![r.of] = scheduleNextMidnight(@)] ELSE schedulers
    /\ UNCHANGED <<today, started>>
-----------------------------------------------------------------------------
SchedulerInit ==
    /\ today = 1 /\ lastDaily = 0 /\ dailyBackups = {} /\ schedulers = <<>> /\ started = <<>>
    /\ backupRuns = {} /\ failedOn = {}

SchedulerNext ==
    \/ DayPasses \/ startDailyBackupScheduler
    \/ \E i \in DOMAIN schedulers : stopDailyBackupScheduler(i) \/ MidnightFires(i) \/ handleResume(i)
    \/ \E r \in backupRuns : runBackup(r)
-----------------------------------------------------------------------------
\* What the variables hold.
SchedulerTypeOK ==
    /\ today \in 1..MaxDate /\ lastDaily \in 0..MaxDate /\ DOMAIN schedulers \subseteq 1..MaxSchedulers
    /\ \A i \in DOMAIN schedulers :
          schedulers[i] \in [stopped : BOOLEAN, midnight : 0..(MaxDate + 1), observedDate : 1..MaxDate]
    /\ backupRuns \subseteq [of : DOMAIN schedulers, then : BOOLEAN]
    /\ failedOn \subseteq 1..MaxDate /\ started \in [DOMAIN schedulers -> 1..MaxDate]

\* A scheduler that runs is always about to act: its timer is set or a run that
\* sets it again is under way; a stopped one never sets its timer again, even
\* when it was stopped during a run (scheduleNextMidnight).
SchedulerIsArmed ==
    \A i \in DOMAIN schedulers :
        IF schedulers[i].stopped THEN schedulers[i].midnight = 0
        ELSE schedulers[i].midnight # 0 \/ [of |-> i, then |-> TRUE] \in backupRuns

\* Every date after the start that a scheduler has acted on has its backup once
\* no run is under way, unless a run failed on that date (runBackup notes the
\* date before the backup is taken, so a failed one is not tried again).
ObservedDayIsBackedUp ==
    \A i \in DOMAIN schedulers :
        LET d == schedulers[i].observedDate IN
        backupRuns = {} /\ d > started[i] /\ failedOn = {} =>
            \E b \in dailyBackups : b >= d
=============================================================================
