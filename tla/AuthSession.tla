---------------------------- MODULE AuthSession ----------------------------
(***************************************************************************)
(* The desktop session: tauriAuthService.ts with the two forms that log in *)
(* (LoginView, OfflineAuthBanner) and the authentication state of App.tsx. *)
(* The service keeps the session twice, in memory and in auth.dat; every   *)
(* call that awaits (a login, the background upgrade to a server token, a  *)
(* refresh, the file operations) is a task whose answer arrives at any     *)
(* later moment, whatever the user has done in between.                    *)
(***************************************************************************)
EXTENDS Integers, FiniteSets

CONSTANTS Users,       \* the accounts of this device
          NoUser,      \* the user of an absent session
          MaxTokens,   \* bound: tokens issued in a behaviour
          MaxLogins,   \* bound: login forms submitted with success
          MaxExpiries, \* bound: tokens that expire
          MaxRestarts  \* bound: times the application is closed and reopened

ASSUME AuthAssumption == NoUser \notin Users /\ MaxTokens \in Nat
                         /\ MaxLogins \in Nat /\ MaxExpiries \in Nat /\ MaxRestarts \in Nat

VARIABLES
    mem,        \* _memSession
    disk,       \* auth_session in auth.dat
    online,     \* navigator.onLine
    issued,     \* number of tokens issued so far
    expired,    \* the tokens whose expires_at has passed
    authState,  \* the state App.tsx renders
    shown,      \* the session App.tsx holds (its user)
    boot,       \* progress of the bootstrap effect
    form,       \* the login under way: [stage, by, user]
    upgrade,    \* per login, its background upgrade: [stage, user]
    refresh,    \* per sync caller, its refresh: [stage, session]
    timer,      \* handleReauthSuccess is due in 800 ms, or awaits getSession
    logins, restarts,
    overtaken,  \* history: a logout began or ended with a task of its user under way
    refreshOverlapped  \* history: two refreshes were under way at once

authVars == <<mem, disk, online, issued, expired, authState, shown, boot,
              form, upgrade, refresh, timer, logins, restarts, overtaken, refreshOverlapped>>

Callers == {"background", "manual"}
Tokens == 1 .. MaxTokens
NoSession == [user |-> NoUser, kind |-> "none", tok |-> 0, flagged |-> FALSE]
Session == [user : Users, kind : {"offline", "jwt"}, tok : Tokens, flagged : BOOLEAN]
           \cup {NoSession}
NewSession(u, k) == [user |-> u, kind |-> k, tok |-> issued + 1, flagged |-> FALSE]
Idle == [stage |-> "idle", by |-> "login", user |-> NoUser]
Quiet == [stage |-> "idle", session |-> NoSession]
NoUpgrade == [stage |-> "idle", user |-> NoUser]

_isTokenExpired(s) == s.tok \in expired

(* What App renders: the login form, or the application with its header,     *)
(* sidebar and, over an expired session, the banner.                         *)
LoginOffered == authState = "unauthenticated"
SignedIn == authState \in {"authenticated", "expired_offline"}

(* _secureRead: the cached session, else the one in the file (which is then  *)
(* cached); an unreadable file reads as no session.                          *)
_secureRead == IF mem # NoSession THEN {mem} ELSE {disk, NoSession}

(* _secureWrite and _secureClear change the memory at once; the write to the *)
(* file lands or is lost (it failed, an older one landed after it, or the    *)
(* application was closed first).                                            *)
_secureWrite(s) ==
    /\ mem' = s
    /\ disk' \in {s, disk}

_secureClear ==
    /\ mem' = NoSession
    /\ disk' \in {NoSession, disk}
-----------------------------------------------------------------------------
(* App.tsx bootstrap, once the genesis check says the device is set up: the  *)
(* session is read twice, by isAuthenticated and by getSession.              *)
\* mutant: an absent session counts as a valid one
isAuthenticatedOrAbsent(s) == ~_isTokenExpired(s) \/ s.flagged
isAuthenticated(s) == s # NoSession /\ (~_isTokenExpired(s) \/ s.flagged)

BootstrapCheck ==
    /\ boot = "start"
    /\ \E s \in _secureRead :
          /\ mem' = s
          /\ IF isAuthenticated(s)
             THEN boot' = "authed" /\ UNCHANGED authState
             ELSE boot' = "done" /\ authState' = "unauthenticated"
    /\ UNCHANGED <<disk, online, issued, expired, shown, form, upgrade,
                   refresh, timer, logins, restarts, overtaken, refreshOverlapped>>

BootstrapLoad ==
    /\ boot = "authed"
    /\ shown' = mem.user
    /\ authState' = IF mem.flagged THEN "expired_offline" ELSE "authenticated"
    /\ boot' = "done"
    /\ UNCHANGED <<mem, disk, online, issued, expired, form, upgrade, refresh,
                   timer, logins, restarts, overtaken, refreshOverlapped>>
-----------------------------------------------------------------------------
(* LoginView.handleSubmit is offered while unauthenticated; the banner's     *)
(* handleReauth while expired_offline, for the user shown.                   *)
LoginSubmit(u) ==
    /\ LoginOffered /\ form.stage = "idle"
    /\ logins < MaxLogins
    /\ form' = [stage |-> "local", by |-> "login", user |-> u]
    /\ UNCHANGED <<mem, disk, online, issued, expired, authState, shown, boot,
                   upgrade, refresh, timer, logins, restarts, overtaken, refreshOverlapped>>

ReauthSubmit ==
    /\ authState = "expired_offline" /\ shown # NoUser
    /\ form.stage = "idle" /\ timer = "off" /\ logins < MaxLogins
    /\ form' = [stage |-> "local", by |-> "banner", user |-> shown]
    /\ UNCHANGED <<mem, disk, online, issued, expired, authState, shown, boot,
                   upgrade, refresh, timer, logins, restarts, overtaken, refreshOverlapped>>

(* login: local_login answers (external): accepted, refused, or no password  *)
(* is kept on this device, and then the server is asked.                     *)
LocalLogin ==
    /\ form.stage = "local" /\ issued < MaxTokens
    /\ \/ /\ _secureWrite(NewSession(form.user, "offline"))
          /\ issued' = issued + 1
          /\ form' = [form EXCEPT !.stage = "saving"]
       \/ /\ form' \in {Idle, [form EXCEPT !.stage = "api"]}
          /\ UNCHANGED <<mem, disk, issued>>
    /\ UNCHANGED <<online, expired, authState, shown, boot, upgrade, refresh,
                   timer, logins, restarts, overtaken, refreshOverlapped>>

(* _apiLogin: a server token, or an error or a time-out shown by the form.   *)
_apiLogin ==
    /\ form.stage = "api" /\ issued < MaxTokens
    /\ \/ /\ _secureWrite(NewSession(form.user, "jwt"))
          /\ issued' = issued + 1
          /\ form' = [form EXCEPT !.stage = "saved"]
       \/ /\ form' = Idle
          /\ UNCHANGED <<mem, disk, issued>>
    /\ UNCHANGED <<online, expired, authState, shown, boot, upgrade, refresh,
                   timer, logins, restarts, overtaken, refreshOverlapped>>

(* login resolves once its file write has settled; the upgrade starts in the *)
(* background (at once given up when offline), then handleLoginSuccess, or   *)
(* the banner's timer.                                                       *)
LoginResolves ==
    /\ form.stage \in {"saving", "saved"}
    /\ logins' = logins + 1
    /\ upgrade' = [upgrade EXCEPT ![logins + 1] =
          IF form.stage = "saving" /\ online
          THEN [stage |-> "health", user |-> form.user] ELSE NoUpgrade]
    /\ IF form.by = "login"
       THEN shown' = form.user /\ authState' = "authenticated" /\ UNCHANGED timer
       ELSE timer' = "due" /\ UNCHANGED <<shown, authState>>
    /\ form' = Idle
    /\ UNCHANGED <<mem, disk, online, issued, expired, boot, refresh, restarts,
                   overtaken, refreshOverlapped>>

(* handleReauthSuccess, 800 ms after the banner's login, whatever is on the  *)
(* screen by then: the session is read and the state set to authenticated.   *)
handleReauthSuccess ==
    /\ timer = "due"
    /\ \E s \in _secureRead : mem' = s /\ shown' = s.user
    /\ authState' = "authenticated"
    /\ timer' = "off"
    /\ UNCHANGED <<disk, online, issued, expired, boot, form, upgrade, refresh,
                   logins, restarts, overtaken, refreshOverlapped>>

(* _tryUpgradeToServerToken: the health check, then _apiLogin; the server    *)
(* session replaces whatever is cached when it arrives.                      *)
_tryUpgradeToServerToken(n) ==
    /\ \/ /\ upgrade[n].stage = "health"
          /\ upgrade' \in {[upgrade EXCEPT ![n].stage = "login"],
                           [upgrade EXCEPT ![n] = NoUpgrade]}
          /\ UNCHANGED <<mem, disk, issued>>
       \/ /\ upgrade[n].stage = "login" /\ issued < MaxTokens
          /\ upgrade' = [upgrade EXCEPT ![n] = NoUpgrade]
          /\ \/ /\ _secureWrite(NewSession(upgrade[n].user, "jwt"))
                /\ issued' = issued + 1
             \/ UNCHANGED <<mem, disk, issued>>
    /\ UNCHANGED <<online, expired, authState, shown, boot, form, refresh, timer,
                   logins, restarts, overtaken, refreshOverlapped>>
-----------------------------------------------------------------------------
(* getAccessToken, called by every sync run: an offline or flagged session   *)
(* yields no token; an expired one is refreshed first, when online.          *)
\* mutant: offline sentinel tokens are refreshed too
NeedsRefreshAny(s) == s # NoSession /\ _isTokenExpired(s) /\ ~s.flagged /\ online
NeedsRefresh(s) == s.kind = "jwt" /\ _isTokenExpired(s) /\ ~s.flagged /\ online

getAccessToken(c) ==
    /\ SignedIn
    /\ refresh[c].stage = "idle"
    /\ \E s \in _secureRead :
          /\ mem' = s
          /\ refresh' = IF NeedsRefresh(s)
                        THEN [refresh EXCEPT ![c] = [stage |-> "asked", session |-> s]]
                        ELSE refresh
    /\ refreshOverlapped' = (refreshOverlapped \/ \E d, e \in Callers :
                          d # e /\ refresh'[d].stage = "asked" /\ refresh'[e].stage = "asked")
    /\ UNCHANGED <<disk, online, issued, expired, authState, shown, boot, form,
                   upgrade, timer, logins, restarts, overtaken>>

(* tryRefreshToken: the answer is merged into the session read before the    *)
(* request. A new token, a refusal (the flag is cleared), or a network error *)
(* (the flag is set, the token being expired).                               *)
tryRefreshToken(c) ==
    /\ refresh[c].stage = "asked"
    /\ refresh' = [refresh EXCEPT ![c] = Quiet]
    /\ LET s == refresh[c].session
       IN \/ /\ issued < MaxTokens
             /\ issued' = issued + 1
             /\ _secureWrite([s EXCEPT !.tok = issued + 1, !.flagged = FALSE])
          \/ /\ _secureWrite([s EXCEPT !.flagged = FALSE])
             /\ UNCHANGED issued
          \/ /\ _isTokenExpired(s)
             /\ _secureWrite([s EXCEPT !.flagged = TRUE])
             /\ UNCHANGED issued
    /\ UNCHANGED <<online, expired, authState, shown, boot, form, upgrade, timer,
                   logins, restarts, overtaken, refreshOverlapped>>
-----------------------------------------------------------------------------
(* Nothing on behalf of the user is under way.                               *)
NothingInFlight ==
    /\ form.stage = "idle" /\ timer = "off"
    /\ \A n \in 1 .. MaxLogins : upgrade[n].stage = "idle"
    /\ \A c \in Callers : refresh[c].stage = "idle"

(* logout clears the memory and the file; handleLogout shows the login form  *)
(* once that has settled. Offered by the header and the settings.            *)
logout ==
    /\ SignedIn /\ boot = "done"
    /\ _secureClear
    /\ overtaken' = (overtaken \/ ~NothingInFlight)
    /\ boot' = "leaving"
    /\ UNCHANGED <<online, issued, expired, authState, shown, form, upgrade,
                   refresh, timer, logins, restarts, refreshOverlapped>>

handleLogout ==
    /\ boot = "leaving"
    /\ boot' = "done"
    /\ shown' = NoUser
    /\ authState' = "unauthenticated"
    /\ overtaken' = (overtaken \/ ~NothingInFlight)
    /\ UNCHANGED <<mem, disk, online, issued, expired, form, upgrade, refresh,
                   timer, logins, restarts, refreshOverlapped>>
-----------------------------------------------------------------------------
(* The environment: the network comes and goes, a token expires, the         *)
(* application is closed and opened again.                                   *)
NetworkChanges ==
    /\ online' = ~online
    /\ UNCHANGED <<mem, disk, issued, expired, authState, shown, boot, form,
                   upgrade, refresh, timer, logins, restarts, overtaken, refreshOverlapped>>

TokenExpires(t) ==
    /\ t \notin expired /\ Cardinality(expired) < MaxExpiries
    /\ expired' = expired \cup {t}
    /\ UNCHANGED <<mem, disk, online, issued, authState, shown, boot, form,
                   upgrade, refresh, timer, logins, restarts, overtaken, refreshOverlapped>>

Restart ==
    /\ restarts < MaxRestarts
    /\ restarts' = restarts + 1
    /\ mem' = NoSession
    /\ authState' = "loading" /\ shown' = NoUser /\ boot' = "start"
    /\ form' = Idle /\ timer' = "off"
    /\ upgrade' = [n \in 1 .. MaxLogins |-> NoUpgrade]
    /\ refresh' = [c \in Callers |-> Quiet]
    /\ UNCHANGED <<disk, online, issued, expired, logins, overtaken, refreshOverlapped>>

AuthInit ==
    /\ mem = NoSession /\ disk = NoSession
    /\ online = TRUE /\ issued = 0 /\ expired = {}
    /\ authState = "loading" /\ shown = NoUser /\ boot = "start"
    /\ form = Idle /\ timer = "off"
    /\ upgrade = [n \in 1 .. MaxLogins |-> NoUpgrade]
    /\ refresh = [c \in Callers |-> Quiet]
    /\ logins = 0 /\ restarts = 0 /\ overtaken = FALSE /\ refreshOverlapped = FALSE

AuthNext ==
    \/ BootstrapCheck \/ BootstrapLoad
    \/ (\E u \in Users : LoginSubmit(u)) \/ ReauthSubmit
    \/ LocalLogin \/ _apiLogin \/ LoginResolves \/ handleReauthSuccess
    \/ \E n \in 1 .. MaxLogins : _tryUpgradeToServerToken(n)
    \/ \E c \in Callers : getAccessToken(c) \/ tryRefreshToken(c)
    \/ logout \/ handleLogout
    \/ NetworkChanges \/ (\E t \in 1 .. issued : TokenExpires(t)) \/ Restart
-----------------------------------------------------------------------------
AuthTypeOK ==
    /\ mem \in Session /\ disk \in Session
    /\ online \in BOOLEAN /\ issued \in 0 .. MaxTokens /\ expired \subseteq Tokens
    /\ authState \in {"loading", "unauthenticated", "authenticated", "expired_offline"}
    /\ shown \in Users \cup {NoUser}
    /\ boot \in {"start", "authed", "done", "leaving"}
    /\ form.stage \in {"idle", "local", "api", "saving", "saved"}
    /\ \A n \in 1 .. MaxLogins : upgrade[n].stage \in {"idle", "health", "login"}
    /\ \A c \in Callers : refresh[c].session \in Session
    /\ timer \in {"off", "due"} /\ logins \in 0 .. MaxLogins

(* Whoever is shown as signed in is the user whose session, and so whose     *)
(* token, the sync engine uses; unless a logout overtook one of the user's   *)
(* own tasks, whose late answer nothing discards.                            *)
ShownUserHoldsSession ==
    SignedIn /\ boot # "leaving" /\ ~overtaken
        => shown # NoUser /\ mem.user = shown

(* A cached token is never replaced by an older one: the answer to a refresh *)
(* is merged into the session read before the request, and only two          *)
(* overlapping refreshes, or a logout in between, make that snapshot stale.  *)
TokenNeverGoesBack ==
    [][mem # NoSession /\ mem' # NoSession /\ mem'.tok < mem.tok
           => refreshOverlapped \/ overtaken]_authVars
=============================================================================
