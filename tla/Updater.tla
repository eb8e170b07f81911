------------------------------ MODULE Updater ------------------------------
(***************************************************************************)
(* Application updates: UpdaterContext, which outlives the views, and its   *)
(* controls in SettingsView, whose own flag checkingUpdate does not. The    *)
(* commands check_app_update and download_and_install_update are external;  *)
(* the latter reports its progress by events and restarts the application   *)
(* when it is done.                                                         *)
(***************************************************************************)
EXTENDS Integers, FiniteSets

CONSTANTS MaxChecks, MaxDownloads, MaxVisitsOfSettings   \* bounds

ASSUME UpdaterAssumption ==
    MaxChecks \in Nat /\ MaxDownloads \in Nat /\ MaxVisitsOfSettings \in Nat \ {0}

VARIABLES
    updateInfo,      \* "none", "available" or "error"
    stage,           \* progress.stage
    isDownloading,
    checkingUpdate,  \* SettingsView: its check is under way
    settingsVisit,   \* how often SettingsView was opened
    checks,          \* checkForUpdates calls under way: the visit each is of
    checksDone, downloads,
    download,        \* the command: "none", "downloading", "installing" or "done"
    overlappedCheck  \* history: a check was answered while a download was under way

updaterVars == <<updateInfo, stage, isDownloading, checkingUpdate, settingsVisit, checks, checksDone,
                 downloads, download, overlappedCheck>>
-----------------------------------------------------------------------------
\* mutant: a check can be started during a download
CheckOfferedAlways == ~checkingUpdate
CheckOffered == ~checkingUpdate /\ ~isDownloading
checkForUpdates ==
    /\ CheckOffered /\ checksDone < MaxChecks /\ checksDone' = checksDone + 1
    /\ checkingUpdate' = TRUE /\ checks' = checks \cup {[visit |-> settingsVisit, no |-> checksDone]}
    /\ stage' = "checking" /\ updateInfo' = "none"
    /\ UNCHANGED <<isDownloading, settingsVisit, downloads, download, overlappedCheck>>
(* checkAppUpdate answers: an update, none, or an error in words.            *)
CheckAnswers(c, info) ==
    /\ c \in checks /\ checks' = checks \ {c}
    /\ updateInfo' = info /\ stage' = "idle"
    /\ checkingUpdate' = IF c.visit = settingsVisit THEN FALSE ELSE checkingUpdate
    /\ overlappedCheck' = (overlappedCheck \/ download # "none")
    /\ UNCHANGED <<isDownloading, settingsVisit, checksDone, downloads, download>>

DownloadOffered == updateInfo = "available" /\ ~isDownloading
startUpdate ==
    /\ DownloadOffered /\ downloads < MaxDownloads /\ downloads' = downloads + 1
    /\ isDownloading' = TRUE /\ stage' = "downloading" /\ download' = "downloading"
    /\ UNCHANGED <<updateInfo, checkingUpdate, settingsVisit, checks, checksDone, overlappedCheck>>
(* The events of the command.                                                *)
ProgressEvent ==
    /\ download = "downloading" /\ stage' = "downloading"
    /\ UNCHANGED <<updateInfo, isDownloading, checkingUpdate, settingsVisit, checks, checksDone, downloads,
                   download, overlappedCheck>>
InstallingEvent ==
    /\ download = "downloading" /\ download' = "installing" /\ stage' = "installing"
    /\ UNCHANGED <<updateInfo, isDownloading, checkingUpdate, settingsVisit, checks, checksDone, downloads,
                   overlappedCheck>>
(* The last event; the application restarts before the command answers.      *)
CompleteEvent ==
    /\ download = "installing" /\ download' = "none"
    /\ updateInfo' = "none" /\ stage' = "idle" /\ isDownloading' = FALSE /\ checkingUpdate' = FALSE
    /\ settingsVisit' = 1 /\ checks' = {} /\ overlappedCheck' = FALSE
    /\ UNCHANGED <<checksDone, downloads>>
\* mutant: the failure of a download leaves the flag up
DownloadStays ==
    /\ download \in {"downloading", "installing"} /\ download' = "none"
    /\ stage' = "error"
    /\ UNCHANGED <<updateInfo, isDownloading, checkingUpdate, settingsVisit, checks, checksDone, downloads,
                   overlappedCheck>>
DownloadFails ==
    /\ download \in {"downloading", "installing"} /\ download' = "none"
    /\ stage' = "error" /\ isDownloading' = FALSE
    /\ UNCHANGED <<updateInfo, checkingUpdate, settingsVisit, checks, checksDone, downloads,
                   overlappedCheck>>
(* SettingsView is left and opened again.                                    *)
OpenSettings ==
    /\ settingsVisit < MaxVisitsOfSettings /\ settingsVisit' = settingsVisit + 1
    /\ checkingUpdate' = FALSE
    /\ UNCHANGED <<updateInfo, stage, isDownloading, checks, checksDone, downloads, download,
                   overlappedCheck>>
(* What the status lines say.                                                *)
SaysUpToDate == updateInfo = "none" /\ ~checkingUpdate /\ ~isDownloading /\ stage # "installing"
-----------------------------------------------------------------------------
UpdaterInit ==
    /\ updateInfo = "none" /\ stage = "idle" /\ isDownloading = FALSE /\ checkingUpdate = FALSE
    /\ settingsVisit = 1 /\ checks = {} /\ checksDone = 0 /\ downloads = 0 /\ download = "none"
    /\ overlappedCheck = FALSE

UpdaterNext ==
    \/ checkForUpdates
    \/ \E c \in checks, info \in {"none", "available", "error"} : CheckAnswers(c, info)
    \/ startUpdate \/ ProgressEvent \/ InstallingEvent \/ CompleteEvent \/ DownloadFails \/ OpenSettings

UpdaterSpec == UpdaterInit /\ [][UpdaterNext]_updaterVars
-----------------------------------------------------------------------------
\* What the variables hold.
UpdaterTypeOK ==
    /\ updateInfo \in {"none", "available", "error"} /\ download \in {"none", "downloading", "installing"}
    /\ stage \in {"idle", "checking", "downloading", "installing", "error"}
    /\ isDownloading \in BOOLEAN /\ checkingUpdate \in BOOLEAN /\ overlappedCheck \in BOOLEAN
    /\ settingsVisit \in 1..MaxVisitsOfSettings /\ checksDone \in 0..MaxChecks /\ downloads \in 0..MaxDownloads

\* The flag is up exactly while the command runs, whatever happened to the view
\* and to the checks meanwhile: a download that failed can be tried again, one
\* under way is not started twice and never called up to date (startUpdate,
\* DownloadOffered).
DownloadIsShown ==
    /\ isDownloading <=> download # "none"
    /\ download # "none" => ~SaysUpToDate

\* The status line tells how far the command is, unless the answer of a check
\* arrived during the download (its finally block sets the stage to idle).
StageIsOfDownload == ~overlappedCheck /\ download # "none" => stage = download
=============================================================================
