------------------------------ MODULE Genesis ------------------------------
(***************************************************************************)
(* The first start of a desktop: the setup wizard (GenesisWizard.tsx), the *)
(* hook behind it (useGenesisState.ts), the restore poll, its cancellation *)
(* and the device id in App.tsx. The local database and the restore thread *)
(* that writes it (lib.rs) are modelled by the tables they have filled;    *)
(* nothing stops that thread once it runs.                                 *)
(***************************************************************************)
EXTENDS Integers, Sequences, FiniteSets

CONSTANT MaxThreads \* bound: restores started, a cancelled one counted twice

ASSUME GenesisAssumption == MaxThreads \in Nat

VARIABLES
    hook,        \* useGenesisState: "loading", "needs", "ready" or "failed" (no state)
    showGenesis, \* App: the wizard replaces the application
    gate,        \* App: authState, "loading" or "unauthenticated"
    mode, step,  \* wizard: setupMode and step
    filled,      \* wizard: the forms whose fields are valid (the store's are, by default)
    preview,     \* wizard: restorePreview is there
    failed,      \* wizard: restoreError or submitError is shown
    validating,  \* wizard: restoreValidating
    running,     \* hook: runningGenesis
    starts,      \* start_prioritized_restore calls under way
    db,          \* tables filled in the local database
    thread,      \* per restore thread, the next thing it does (0: none)
    spawned,     \* threads spawned so far
    progress,    \* the progress record shared with the restore thread
    polling,     \* App: the 500 ms interval is set
    answer,      \* App: what a poll under way has read
    seen,        \* App: restoreProgress
    cancelling,  \* App: cancel_restore is awaited
    cancels,
    lossy,       \* history: an insert of a restore thread failed, unnoticed
    raced,       \* history: a cancel came while a thread or a poll was under way
    dismissed    \* history: why the wizard was left

genesisVars == <<hook, showGenesis, gate, mode, step, filled, preview, failed, validating,
                 running, starts, db, thread, spawned, progress, polling, answer, seen,
                 cancelling, cancels, lossy, raced, dismissed>>
wizardVars == <<mode, step, filled, preview, failed, validating, running, starts>>
restoreVars == <<db, thread, spawned, progress, polling, answer, seen, cancelling, cancels,
                 lossy, raced>>
shellVars == <<hook, showGenesis, gate, dismissed>>

Forms == {"account", "login"}
Tables == <<"stores", "stock", "users">>
Critical == {"stores", "stock", "users"}
AllTables == Critical \cup {"flag", "history"}

\* a progress record, by what the screens tell apart: no progress, busy, the
\* critical part is there, everything is, or the phase is "error"
ProgressKinds == {"idle", "busy", "critical", "complete", "error"}
Ended(p) == p \in {"critical", "complete", "error"}

(* The wizard's own state goes with it when it is unmounted; the calls it    *)
(* started do not.                                                           *)
Unmounted ==
    /\ mode' = "selection" /\ step' = 0 /\ filled' = {} /\ preview' = FALSE
    /\ failed' = FALSE /\ validating' = FALSE

WizardShown == showGenesis /\ hook = "needs"
-----------------------------------------------------------------------------
(* check_genesis_state: a user with a password, or the restore flag.         *)
Ready(tables) == "users" \in tables \/ "flag" \in tables

(* checkState answers, and the bootstrap effect of App shows the wizard or   *)
(* the application. A failed call leaves no state: the wizard is due but     *)
(* cannot be rendered.                                                       *)
\* mutant: the authentication state is not set when the device is ready
checkStateOnly ==
    /\ hook = "loading"
    /\ hook' \in {IF Ready(db) THEN "ready" ELSE "needs", "failed"}
    /\ showGenesis' = (hook' # "ready")
    /\ UNCHANGED <<gate, dismissed>> /\ UNCHANGED <<wizardVars, restoreVars>>

checkState ==
    /\ hook = "loading"
    /\ hook' \in {IF Ready(db) THEN "ready" ELSE "needs", "failed"}
    /\ showGenesis' = (hook' # "ready")
    /\ gate' = IF hook' = "ready" THEN "unauthenticated" ELSE "loading"
    /\ UNCHANGED dismissed /\ UNCHANGED <<wizardVars, restoreVars>>
-----------------------------------------------------------------------------
(* The controls of the wizard, screen by screen.                             *)
SelectionOffered == WizardShown /\ mode = "selection" /\ ~running

ChooseMode(m) ==
    /\ SelectionOffered
    /\ mode' = m /\ step' = 0
    /\ UNCHANGED <<filled, preview, failed, validating, running, starts>>
    /\ UNCHANGED <<shellVars, restoreVars>>

(* onCancel: the wizard is hidden, the authentication state stays "loading". *)
CancelSetup ==
    /\ SelectionOffered
    /\ showGenesis' = FALSE /\ dismissed' = "given up" /\ Unmounted
    /\ UNCHANGED <<hook, gate, running, starts>> /\ UNCHANGED restoreVars

FillForm(f) ==
    /\ WizardShown /\ ~running /\ f \notin filled
    /\ filled' = filled \cup {f}
    /\ UNCHANGED <<mode, step, preview, failed, validating, running, starts>>
    /\ UNCHANGED <<shellVars, restoreVars>>

AccountForm == mode = "fresh" /\ step = 0 /\ FillForm("account")
RestoreLoginForm == mode = "restore" /\ step = 0 /\ ~validating /\ FillForm("login")

canProceed ==
    \/ mode = "selection"
    \/ mode = "fresh" /\ (step = 0 => "account" \in filled)
    \/ mode = "restore" /\ (step = 0 => "login" \in filled) /\ (step = 1 => preview) /\ step # 2

(* The restore screen stays until the restore has failed: neither button of  *)
(* the footer acts on it before.                                             *)
Restoring == mode = "restore" /\ step = 2
SubmitOffered == WizardShown /\ canProceed /\ ~running /\ ~validating /\ ~Restoring
BackOffered == WizardShown /\ mode # "selection" /\ ~running /\ ~validating
               /\ (Restoring => failed \/ seen = "error")

Back ==
    /\ BackOffered
    /\ IF step > 0 THEN step' = step - 1 /\ UNCHANGED mode
                   ELSE mode' = "selection" /\ UNCHANGED step
    /\ UNCHANGED <<filled, preview, failed, validating, running, starts>>
    /\ UNCHANGED <<shellVars, restoreVars>>

(* handleSubmit, by mode and step.                                           *)
NextStep ==
    /\ SubmitOffered /\ mode = "fresh" /\ step < 2
    /\ step' = step + 1 /\ failed' = FALSE
    /\ UNCHANGED <<mode, filled, preview, validating, running, starts>>
    /\ UNCHANGED <<shellVars, restoreVars>>

SubmitFresh ==
    /\ SubmitOffered /\ mode = "fresh" /\ step = 2
    /\ running' = TRUE /\ failed' = FALSE
    /\ UNCHANGED <<mode, step, filled, preview, validating, starts>>
    /\ UNCHANGED <<shellVars, restoreVars>>

(* runGenesis: the store and then the user are inserted (not in one          *)
(* transaction), a stale restore flag is cleared first; a store that exists  *)
(* is refused. On success the state is checked again and the wizard is left. *)
runGenesis ==
    /\ running
    /\ running' = FALSE
    /\ \/ /\ "stores" \notin db /\ "users" \notin db
          /\ db' = (db \ {"flag"}) \cup {"stores", "users"}
          /\ hook' = "ready" /\ showGenesis' = FALSE /\ gate' = "unauthenticated"
          /\ dismissed' = "set up" /\ Unmounted
       \/ /\ db' \in {db, db \ {"flag"}} \cup
                     (IF "stores" \in db THEN {} ELSE {(db \ {"flag"}) \cup {"stores"}})
          /\ failed' = showGenesis
          /\ UNCHANGED <<shellVars, mode, step, filled, preview, validating>>
    /\ UNCHANGED starts
    /\ UNCHANGED <<thread, spawned, progress, polling, answer, seen, cancelling, cancels,
                   lossy, raced>>

handleValidateRestore ==
    /\ SubmitOffered /\ mode = "restore" /\ step = 0
    /\ validating' = TRUE /\ failed' = FALSE
    /\ UNCHANGED <<mode, step, filled, preview, running, starts>>
    /\ UNCHANGED <<shellVars, restoreVars>>

validateRestore ==
    /\ validating
    /\ validating' = FALSE
    /\ \/ preview' = TRUE /\ step' = 1 /\ UNCHANGED failed
       \/ failed' = TRUE /\ UNCHANGED <<preview, step>>
    /\ UNCHANGED <<mode, filled, running, starts>>
    /\ UNCHANGED <<shellVars, restoreVars>>

(* handleStartRestore does not disable its button while the call is under    *)
(* way: runningGenesis is not set, so a second click starts a second restore.*)
handleStartRestore ==
    /\ SubmitOffered /\ mode = "restore" /\ step = 1
    /\ spawned + starts + cancels < MaxThreads
    /\ starts' = starts + 1 /\ failed' = FALSE
    /\ UNCHANGED <<mode, step, filled, preview, validating, running>>
    /\ UNCHANGED <<shellVars, restoreVars>>

(* startRestore answers: the thread is spawned and handleRestoreStarted sets *)
(* the poll, or the error is shown.                                          *)
startRestore ==
    /\ starts > 0
    /\ starts' = starts - 1
    /\ \/ /\ spawned' = spawned + 1
          /\ thread' = [thread EXCEPT ![spawned + 1] = 1]
          /\ progress' = "busy"
          /\ seen' = "busy"
          /\ polling' = TRUE
          /\ step' = IF showGenesis THEN 2 ELSE step
          /\ UNCHANGED failed
       \/ /\ failed' = showGenesis
          /\ UNCHANGED <<spawned, thread, progress, seen, polling, step>>
    /\ UNCHANGED <<mode, filled, preview, validating, running>>
    /\ UNCHANGED <<db, answer, cancelling, cancels, lossy, raced>>
    /\ UNCHANGED <<shellVars>>
-----------------------------------------------------------------------------
(* do_restore (lib.rs): 1 logs in and fetches; 2..4 write the stores, the    *)
(* products with their balances and the users, whatever the inserts answer;  *)
(* 5 announces that the critical data is there; 6 sets the restore flag;     *)
(* 7 writes the history and announces the end.                               *)
\* mutant: the flag is set before the users are written
ThreadWritesFlagFirst(k) ==
    CASE k \in 2 .. 3 -> {Tables[k - 1]}
      [] k = 4 -> {"flag"}
      [] k = 6 -> {"users"}
      [] OTHER -> {}

ThreadWrites(k) ==
    CASE k \in 2 .. 4 -> {Tables[k - 1]}
      [] k = 6 -> {"flag"}
      [] k = 7 -> {"history"}
      [] OTHER -> {}

\* mutant: the critical part is announced before its last table is in
ThreadReportsEarly(k) ==
    IF k < 3 THEN "busy" ELSE IF k < 7 THEN "critical" ELSE "complete"

ThreadReports(k) ==
    IF k < 5 THEN "busy" ELSE IF k < 7 THEN "critical" ELSE "complete"

ThreadFails(t) ==
    /\ thread[t] = 1
    /\ thread' = [thread EXCEPT ![t] = 0]
    /\ progress' = "error"
    /\ UNCHANGED <<db, spawned, polling, answer, seen, cancelling, cancels, lossy, raced>>
    /\ UNCHANGED <<shellVars, wizardVars>>

ThreadStep(t) ==
    /\ thread[t] # 0
    /\ thread' = [thread EXCEPT ![t] = IF @ = 7 THEN 0 ELSE @ + 1]
    /\ progress' = ThreadReports(thread[t])
    /\ \/ db' = db \cup ThreadWrites(thread[t]) /\ UNCHANGED lossy
       \/ /\ thread[t] \in 2 .. 4 /\ ~lossy
          /\ UNCHANGED db /\ lossy' = TRUE
    /\ UNCHANGED <<spawned, polling, answer, seen, cancelling, cancels, raced>>
    /\ UNCHANGED <<shellVars, wizardVars>>

(* The poll of handleRestoreStarted: the interval fires and reads the        *)
(* progress; its answer is applied later, whether or not the interval still  *)
(* runs. The end of the critical part, or an error, leaves the wizard.       *)
PollTick ==
    /\ polling /\ answer = "idle" /\ progress # "idle"
    /\ answer' = progress
    /\ UNCHANGED <<db, thread, spawned, progress, polling, seen, cancelling, cancels,
                   lossy, raced>>
    /\ UNCHANGED <<shellVars, wizardVars>>

PollAnswers ==
    /\ answer # "idle"
    /\ answer' = "idle"
    /\ seen' = answer
    /\ IF Ended(answer)
       THEN /\ polling' = FALSE /\ Unmounted
            /\ showGenesis' = FALSE /\ gate' = "unauthenticated"
            /\ dismissed' = IF answer = "error" THEN "failed" ELSE "restored"
       ELSE UNCHANGED <<polling, showGenesis, gate, dismissed, mode, step, filled, preview,
                        failed, validating>>
    /\ UNCHANGED <<hook, running, starts>>
    /\ UNCHANGED <<db, thread, spawned, progress, cancelling, cancels, lossy, raced>>

(* handleCancelRestore: the poll stops, cancel_restore empties the tables    *)
(* or fails (lib.rs), and the wizard is shown again, on the screen it was on.*)
CancelOffered == WizardShown /\ Restoring /\ ~running /\ ~cancelling
                 /\ seen \notin {"complete", "error"}

ThreadsEnded == \A t \in 1 .. MaxThreads : thread[t] = 0

handleCancelRestore ==
    /\ CancelOffered /\ spawned + starts + cancels < MaxThreads
    /\ cancels' = cancels + 1
    /\ polling' = FALSE /\ seen' = "idle"
    /\ cancelling' = TRUE
    /\ UNCHANGED <<db, thread, spawned, progress, answer, lossy, raced>>
    /\ UNCHANGED <<shellVars, wizardVars>>

cancelRestore ==
    /\ cancelling
    /\ cancelling' = FALSE
    /\ \/ progress' = "idle" /\ db' = {}
       \/ UNCHANGED <<progress, db>>
    /\ showGenesis' = TRUE /\ gate' = "loading" /\ dismissed' = "not yet"
    /\ raced' = (raced \/ ~ThreadsEnded \/ answer # "idle")
    /\ UNCHANGED <<hook, thread, spawned, polling, answer, seen, cancels, lossy>>
    /\ UNCHANGED <<wizardVars>>
-----------------------------------------------------------------------------
GenesisInit ==
    /\ hook = "loading" /\ showGenesis = FALSE /\ gate = "loading"
    /\ mode = "selection" /\ step = 0 /\ filled = {} /\ preview = FALSE
    /\ failed = FALSE /\ validating = FALSE /\ running = FALSE /\ starts = 0
    /\ db \in {{}, {"stores", "users"}} /\ thread = [t \in 1 .. MaxThreads |-> 0] /\ spawned = 0
    /\ progress = "idle" /\ polling = FALSE /\ answer = "idle" /\ seen = "idle"
    /\ cancelling = FALSE /\ cancels = 0
    /\ lossy = FALSE /\ raced = FALSE /\ dismissed = "not yet"

GenesisNext ==
    \/ checkState
    \/ (\E m \in {"fresh", "restore"} : ChooseMode(m)) \/ CancelSetup
    \/ AccountForm \/ RestoreLoginForm
    \/ Back \/ NextStep \/ SubmitFresh \/ runGenesis
    \/ handleValidateRestore \/ validateRestore \/ handleStartRestore \/ startRestore
    \/ \E t \in 1 .. MaxThreads : ThreadFails(t) \/ ThreadStep(t)
    \/ PollTick \/ PollAnswers \/ handleCancelRestore \/ cancelRestore
-----------------------------------------------------------------------------
GenesisTypeOK ==
    /\ hook \in {"loading", "needs", "ready", "failed"}
    /\ showGenesis \in BOOLEAN /\ gate \in {"loading", "unauthenticated"}
    /\ mode \in {"selection", "fresh", "restore"} /\ step \in 0 .. 2
    /\ {progress, answer, seen} \subseteq ProgressKinds
    /\ filled \subseteq Forms /\ db \subseteq AllTables
    /\ thread \in [1 .. MaxThreads -> 0 .. 7]
    /\ starts \in 0 .. MaxThreads /\ spawned \in 0 .. MaxThreads
    /\ cancels \in 0 .. MaxThreads

(* The database the next start takes for a set-up device has a store and a   *)
(* user who can log in: check_genesis_state trusts the restore flag, so it   *)
(* must never be there without the data. Only an insert that failed          *)
(* unnoticed, or a thread that outlives its cancellation, breaks it.         *)
ReadyIsUsable ==
    Ready(db) /\ ~lossy /\ ~raced => {"stores", "users"} \subseteq db

(* A restore that dismisses the wizard has brought all the critical tables,  *)
(* under two overlapping restores too.                                       *)
DismissedIsRestored ==
    dismissed = "restored" /\ ~lossy /\ ~raced => Critical \subseteq db

(* The application behind the wizard waits on its splash screen, with        *)
(* nothing to click, only if the user cancelled the setup itself.            *)
NoDeadEnd ==
    ~showGenesis /\ gate = "loading" => hook = "loading" \/ dismissed = "given up"

(* What the first start promises: the application comes up only over a       *)
(* usable database, a dismissed wizard has restored one, and no state of the *)
(* wizard leaves the user without a way on.                                  *)
FirstStartIsSound == ReadyIsUsable /\ DismissedIsRestored /\ NoDeadEnd
=============================================================================
