--------------------------- MODULE SessionProofs ----------------------------
(***************************************************************************)
(* From the first start to the views of a signed-in user, for any number   *)
(* of users, logins, tokens, restarts, restore threads, stores and         *)
(* switches, whatever the order in which answers arrive: the session       *)
(* (AuthSession), the first start (Genesis) and the shell (AppShell).      *)
(*                                                                         *)
(* Then how syncing is tended for that user, for any number of runs,       *)
(* clicks and transactions: the chain of timers and the sync chip          *)
(* (SyncDriver), the indicator, the optimistic changes and the restore     *)
(* mode (SyncService), and the id it happens under (DeviceIdentity).       *)
(*                                                                         *)
(* Last, what administration does, for any number of edits, attempts,      *)
(* deletions, backups, syncs, schedulers, dates and downloads: stores and  *)
(* their push queue (StoreAdmin), deletion and restore (Maintenance), the  *)
(* daily backup (BackupScheduler) and the update controls (Updater).       *)
(***************************************************************************)
EXTENDS AuthSession, Genesis, AppShell, SyncDriver, SyncService, DeviceIdentity,
        StoreAdmin, Maintenance, BackupScheduler, Updater, FiniteSetTheorems, TLAPS

FormStages == {"idle", "local", "api", "saving", "saved"}
LoginForms == [stage : FormStages, by : {"login", "banner"}, user : Users \cup {NoUser}]
Upgrades == [stage : {"idle", "health", "login"}, user : Users \cup {NoUser}]
Refreshes == [stage : {"idle", "asked"}, session : Session]

(* The types, and what the fields of a task under way hold.                  *)
SessionTypes ==
    /\ mem \in Session /\ disk \in Session
    /\ issued \in 0 .. MaxTokens /\ expired \subseteq Tokens
    /\ authState \in {"loading", "unauthenticated", "authenticated", "expired_offline"}
    /\ shown \in Users \cup {NoUser}
    /\ boot \in {"start", "authed", "done", "leaving"}
    /\ form \in LoginForms /\ (form.stage # "idle" => form.user \in Users /\ logins < MaxLogins)
    /\ upgrade \in [1 .. MaxLogins -> Upgrades]
    /\ \A n \in 1 .. MaxLogins : upgrade[n].stage # "idle" => upgrade[n].user \in Users
    /\ refresh \in [Callers -> Refreshes]
    /\ \A c \in Callers : refresh[c].stage = "asked" => refresh[c].session.kind = "jwt"
    /\ timer \in {"off", "due"} /\ logins \in 0 .. MaxLogins
    /\ overtaken \in BOOLEAN /\ refreshOverlapped \in BOOLEAN

UpgradesIdle == \A n \in 1 .. MaxLogins : upgrade[n].stage = "idle"
RefreshesIdle == \A c \in Callers : refresh[c].stage = "idle"

(* Until the bootstrap has ended nothing else runs, and what it has read is  *)
(* what the file holds. The banner stands over a session flagged as expired, *)
(* in memory and in the file, until its own login has written another one.   *)
BootInv ==
    /\ boot \in {"start", "authed"} => authState = "loading" /\ NothingInFlight
    /\ boot = "start" => mem = NoSession
    /\ boot = "authed" => mem = disk /\ mem # NoSession
    /\ authState = "loading" => boot \in {"start", "authed"}
    /\ boot = "leaving" => SignedIn

BannerInv ==
    /\ authState = "expired_offline" /\ timer = "off" /\ form.stage \notin {"saving", "saved"} =>
          /\ mem = NoSession \/ mem.flagged
          /\ disk = NoSession \/ disk.flagged
          /\ UpgradesIdle /\ RefreshesIdle
    /\ authState = "expired_offline" /\ form.stage # "idle" => form.by = "banner" /\ timer = "off"

(* As long as no logout overtook a task, every task under way is on behalf   *)
(* of the user that is shown, or of the one that is logging in.              *)
UserInv ==
    ~overtaken /\ boot # "leaving" =>
        /\ SignedIn => shown # NoUser /\ mem.user = shown
        /\ form.stage # "idle" /\ form.by = "login" => LoginOffered
        /\ form.stage # "idle" /\ form.by = "banner" => SignedIn /\ form.user = shown
        /\ form.stage \in {"saving", "saved"} => mem.user = form.user
        /\ timer = "due" => SignedIn
        /\ \A n \in 1 .. MaxLogins : upgrade[n].stage # "idle" => SignedIn /\ upgrade[n].user = shown
        /\ \A c \in Callers : refresh[c].stage # "idle" =>
              SignedIn /\ refresh[c].session.user = shown

(* No session has a token that was not issued. While neither logouts nor     *)
(* refreshes overlap with anything, a refresh under way was asked for the    *)
(* session in memory, and nothing else is about to replace that one.         *)
IssuedInv ==
    /\ mem.tok <= issued /\ disk.tok <= issued
    /\ \A c \in Callers : refresh[c].session.tok <= issued

TokenInv ==
    ~overtaken /\ ~refreshOverlapped =>
        /\ form.stage # "idle" => UpgradesIdle /\ timer = "off"
        /\ form.stage # "idle" => authState = IF form.by = "login" THEN "unauthenticated" ELSE "expired_offline"
        /\ form.stage = "saving" => mem.kind = "offline"
        /\ LoginOffered => UpgradesIdle /\ RefreshesIdle /\ timer = "off"
        /\ \A n \in 1 .. MaxLogins : upgrade[n].stage # "idle" =>
              mem.kind = "offline" /\ \A m \in 1 .. MaxLogins : upgrade[m].stage # "idle" => m = n
        /\ \A c \in Callers : refresh[c].stage # "idle" =>
              /\ refresh[c].session = mem /\ mem.kind = "jwt"
              /\ form.stage \in {"idle", "saved"} /\ UpgradesIdle
              /\ \A d \in Callers : refresh[d].stage # "idle" => d = c

AuthInv == SessionTypes /\ BootInv /\ BannerInv /\ UserInv /\ IssuedInv /\ TokenInv
-----------------------------------------------------------------------------
(* A new session is one of the given user, with a token not issued before.   *)
LEMMA NewSessionFacts ==
    ASSUME NEW u \in Users, NEW k \in {"offline", "jwt"}, issued \in 0 .. MaxTokens, issued < MaxTokens
    PROVE  /\ NewSession(u, k) \in Session /\ NewSession(u, k) # NoSession
           /\ NewSession(u, k).user = u /\ NewSession(u, k).kind = k
           /\ NewSession(u, k).tok = issued + 1 /\ ~NewSession(u, k).flagged
  BY AuthAssumption DEF NewSession, Session, NoSession, Tokens

(* The fields of a session.                                                  *)
LEMMA SessionFacts ==
    ASSUME NEW s \in Session
    PROVE  /\ s.tok \in Nat /\ s.flagged \in BOOLEAN
           /\ s # NoSession => s.user \in Users /\ s.tok \in Tokens /\ s.kind \in {"offline", "jwt"}
           /\ s = [user |-> s.user, kind |-> s.kind, tok |-> s.tok, flagged |-> s.flagged]
<1>1. CASE s = NoSession
  BY <1>1 DEF NoSession
<1>2. CASE s \in [user : Users, kind : {"offline", "jwt"}, tok : Tokens, flagged : BOOLEAN]
  BY <1>2, AuthAssumption DEF Tokens
<1> QED
  BY <1>1, <1>2 DEF Session

(* What is at rest has the right type and is at rest.                        *)
LEMMA RestFacts ==
    /\ NoSession \in Session /\ Idle \in LoginForms /\ Quiet \in Refreshes /\ NoUpgrade \in Upgrades
    /\ Idle.stage = "idle" /\ Quiet.stage = "idle" /\ NoUpgrade.stage = "idle"
    /\ Quiet.session.tok = 0
  BY DEF Idle, Quiet, NoUpgrade, NoSession, Session, LoginForms, FormStages, Refreshes, Upgrades

(* The first state: no session, and the bootstrap about to begin.            *)
LEMMA AuthStarts == AuthInit => AuthInv
<1> SUFFICES ASSUME AuthInit PROVE AuthInv
  OBVIOUS
<1> USE AuthAssumption
<1>1. SessionTypes
  <2>1. /\ mem \in Session /\ disk \in Session /\ form \in LoginForms /\ form.stage = "idle"
        /\ issued \in 0 .. MaxTokens /\ logins \in 0 .. MaxLogins /\ expired \subseteq Tokens
    BY RestFacts DEF AuthInit
  <2>2. /\ upgrade \in [1 .. MaxLogins -> Upgrades] /\ refresh \in [Callers -> Refreshes]
        /\ \A n \in 1 .. MaxLogins : upgrade[n].stage = "idle"
        /\ \A c \in Callers : refresh[c].stage = "idle"
    BY RestFacts DEF AuthInit
  <2>3. /\ authState = "loading" /\ shown = NoUser /\ boot = "start" /\ timer = "off"
        /\ overtaken = FALSE /\ refreshOverlapped = FALSE
    BY DEF AuthInit
  <2> QED
    BY <2>1, <2>2, <2>3 DEF SessionTypes
<1>2. BootInv
  BY DEF AuthInit, BootInv, NothingInFlight, Idle, Quiet, NoUpgrade
<1>3. BannerInv
  BY DEF AuthInit, BannerInv
<1>4. UserInv
  BY DEF AuthInit, UserInv, SignedIn, Idle, Quiet, NoUpgrade
<1>5. IssuedInv
  BY DEF AuthInit, IssuedInv, NoSession, Quiet
<1>6. TokenInv
  BY DEF AuthInit, TokenInv, LoginOffered, Idle, Quiet, NoUpgrade
<1> QED
  BY <1>1, <1>2, <1>3, <1>4, <1>5, <1>6, Zenon DEF AuthInv

(* The bootstrap reads the file into an empty memory.                        *)
LEMMA BootstrapCheckKeeps == AuthInv /\ BootstrapCheck => AuthInv'
<1> SUFFICES ASSUME AuthInv, BootstrapCheck PROVE AuthInv'
  OBVIOUS
<1> USE AuthAssumption
<1>1. SessionTypes'
  BY DEF BootstrapCheck, SessionTypes, AuthInv, _secureRead
<1>2. BootInv'
  BY DEF BootstrapCheck, isAuthenticated, BootInv, AuthInv, NothingInFlight, _secureRead
<1>3. BannerInv'
  BY DEF BootstrapCheck, BootInv, BannerInv, AuthInv
<1>4. UserInv'
  BY DEF BootstrapCheck, BootInv, UserInv, AuthInv, NothingInFlight, SignedIn
<1>5. IssuedInv'
  BY DEF BootstrapCheck, IssuedInv, AuthInv, _secureRead
<1>6. TokenInv'
  BY DEF BootstrapCheck, BootInv, TokenInv, AuthInv, UpgradesIdle, RefreshesIdle, NothingInFlight
<1> QED
  BY <1>1, <1>2, <1>3, <1>4, <1>5, <1>6, Zenon DEF AuthInv

(* Whoever the file names is shown.                                          *)
LEMMA BootstrapLoadKeeps == AuthInv /\ BootstrapLoad => AuthInv'
<1> SUFFICES ASSUME AuthInv, BootstrapLoad PROVE AuthInv'
  OBVIOUS
<1> USE AuthAssumption
<1>1. SessionTypes'
  BY DEF BootstrapLoad, SessionTypes, BootInv, AuthInv, Session
<1>2. BootInv'
  BY DEF BootstrapLoad, BootInv
<1>3. BannerInv'
  BY DEF BootstrapLoad, BootInv, BannerInv, AuthInv, UpgradesIdle, RefreshesIdle, NothingInFlight
<1>4. UserInv'
  BY DEF BootstrapLoad, SessionTypes, BootInv, UserInv, AuthInv, NothingInFlight, Session
<1>5. IssuedInv'
  BY DEF BootstrapLoad, IssuedInv, AuthInv
<1>6. TokenInv'
  BY DEF BootstrapLoad, BootInv, TokenInv, AuthInv, UpgradesIdle, LoginOffered
<1> QED
  BY <1>1, <1>2, <1>3, <1>4, <1>5, <1>6, Zenon DEF AuthInv

(* A login begins with nobody signed in.                                     *)
LEMMA LoginSubmitKeeps ==
    ASSUME NEW u \in Users, AuthInv, LoginSubmit(u)
    PROVE  AuthInv'
<1> USE AuthAssumption
<1>1. SessionTypes'
  BY DEF LoginSubmit, SessionTypes, AuthInv, LoginForms, FormStages
<1>2. BootInv'
  BY DEF LoginSubmit, BootInv, AuthInv, SignedIn, LoginOffered
<1>3. BannerInv'
  BY DEF LoginSubmit, BannerInv, LoginOffered
<1>4. UserInv'
  BY DEF LoginSubmit, UserInv, AuthInv, SignedIn, LoginOffered
<1>5. IssuedInv'
  BY DEF LoginSubmit, IssuedInv, AuthInv
<1>6. TokenInv'
  BY DEF LoginSubmit, TokenInv, AuthInv, UpgradesIdle, RefreshesIdle, LoginOffered
<1> QED
  BY <1>1, <1>2, <1>3, <1>4, <1>5, <1>6, Zenon DEF AuthInv

(* The banner logs in for the user that is shown.                            *)
LEMMA ReauthSubmitKeeps == AuthInv /\ ReauthSubmit => AuthInv'
<1> SUFFICES ASSUME AuthInv, ReauthSubmit PROVE AuthInv'
  OBVIOUS
<1> USE AuthAssumption
<1>1. SessionTypes'
  BY DEF ReauthSubmit, SessionTypes, AuthInv, LoginForms, FormStages
<1>2. BootInv'
  BY DEF ReauthSubmit, BootInv, AuthInv, SignedIn
<1>3. BannerInv'
  BY DEF ReauthSubmit, BannerInv, AuthInv, UpgradesIdle, RefreshesIdle
<1>4. UserInv'
  BY DEF ReauthSubmit, UserInv, AuthInv, SignedIn
<1>5. IssuedInv'
  BY DEF ReauthSubmit, IssuedInv, AuthInv
<1>6. TokenInv'
  BY DEF ReauthSubmit, BannerInv, TokenInv, AuthInv, UpgradesIdle, RefreshesIdle
<1> QED
  BY <1>1, <1>2, <1>3, <1>4, <1>5, <1>6, Zenon DEF AuthInv

(* A session of the user of the form replaces the one in memory.             *)
LEMMA LocalLoginKeeps == AuthInv /\ LocalLogin => AuthInv'
<1> SUFFICES ASSUME AuthInv, LocalLogin PROVE AuthInv'
  OBVIOUS
<1> USE AuthAssumption
<1>a. mem' \in Session /\ disk' \in Session
  BY NewSessionFacts DEF LocalLogin, _secureWrite, SessionTypes, AuthInv
<1>1. SessionTypes'
  BY <1>a DEF LocalLogin, SessionTypes, AuthInv, LoginForms, FormStages, Idle
<1>2. BootInv'
  BY DEF LocalLogin, BootInv, AuthInv, NothingInFlight, SignedIn
<1>3. BannerInv'
  BY DEF LocalLogin, SessionTypes, BannerInv, AuthInv, UpgradesIdle, RefreshesIdle, LoginForms, Idle
<1>4. UserInv'
  BY DEF LocalLogin, SessionTypes, UserInv, AuthInv, SignedIn, LoginOffered, LoginForms, Idle,
         NoUpgrade, NewSession, _secureRead, _secureWrite, _secureClear
<1>5. IssuedInv'
  <2>1. SessionTypes /\ IssuedInv /\ mem \in Session /\ disk \in Session /\ issued \in Nat
    BY DEF AuthInv, SessionTypes
  <2>2. /\ refresh' = refresh
        /\ \/ UNCHANGED <<mem, disk, issued>>
           \/ issued' = issued + 1 /\ mem'.tok = issued + 1 /\ disk' \in {mem', disk}
    <3>1. \A u, k : NewSession(u, k).tok = issued + 1
      BY DEF NewSession
    <3>2. \/ UNCHANGED <<mem, disk, issued>>
          \/ issued' = issued + 1 /\ _secureWrite(NewSession(form.user, "offline"))
      BY Zenon DEF LocalLogin
    <3>3. refresh' = refresh
      BY DEF LocalLogin
    <3> QED
      BY <3>1, <3>2, <3>3 DEF _secureWrite
  <2>3. mem.tok \in Nat /\ disk.tok \in Nat /\ mem.tok <= issued /\ disk.tok <= issued
    BY <2>1, SessionFacts DEF IssuedInv
  <2>4. ASSUME NEW c \in Callers PROVE refresh[c].session.tok \in Nat /\ refresh[c].session.tok <= issued
    <3>1. refresh[c] \in Refreshes
      BY <2>1 DEF SessionTypes
    <3> QED
      BY <2>1, <3>1, SessionFacts DEF Refreshes, IssuedInv
  <2> QED
    BY <2>1, <2>2, <2>3, <2>4 DEF IssuedInv
<1>6. TokenInv'
  BY DEF LocalLogin, SessionTypes, TokenInv, AuthInv, UpgradesIdle, RefreshesIdle, LoginForms, Idle,
         NewSession, _secureWrite, _secureClear
<1> QED
  BY <1>1, <1>2, <1>3, <1>4, <1>5, <1>6, Zenon DEF AuthInv

(* So it does when the server has logged the user in.                        *)
LEMMA ApiLoginKeeps == AuthInv /\ _apiLogin => AuthInv'
<1> SUFFICES ASSUME AuthInv, _apiLogin PROVE AuthInv'
  OBVIOUS
<1> USE AuthAssumption
<1>a. mem' \in Session /\ disk' \in Session
  BY NewSessionFacts DEF _apiLogin, _secureWrite, SessionTypes, AuthInv
<1>1. SessionTypes'
  BY <1>a DEF _apiLogin, SessionTypes, AuthInv, LoginForms, FormStages, Idle
<1>2. BootInv'
  BY DEF _apiLogin, BootInv, AuthInv, NothingInFlight, SignedIn
<1>3. BannerInv'
  BY DEF _apiLogin, SessionTypes, BannerInv, AuthInv, UpgradesIdle, RefreshesIdle, LoginForms, Idle
<1>4. UserInv'
  BY DEF _apiLogin, SessionTypes, UserInv, AuthInv, SignedIn, LoginOffered, LoginForms, Idle, NoUpgrade,
         NewSession, _secureRead, _secureWrite, _secureClear
<1>5. IssuedInv'
  BY DEF _apiLogin, SessionTypes, IssuedInv, AuthInv, Refreshes, Session, NoSession, Callers, Tokens,
         NewSession, _secureRead, _secureWrite
<1>6. TokenInv'
  BY DEF _apiLogin, SessionTypes, TokenInv, AuthInv, UpgradesIdle, RefreshesIdle, LoginForms, Idle
<1> QED
  BY <1>1, <1>2, <1>3, <1>4, <1>5, <1>6, Zenon DEF AuthInv

(* The user of the form, whose session is in memory, is shown, or was.       *)
LEMMA LoginResolvesKeeps == AuthInv /\ LoginResolves => AuthInv'
<1> SUFFICES ASSUME AuthInv, LoginResolves PROVE AuthInv'
  OBVIOUS
<1> USE AuthAssumption
<1>1. SessionTypes'
  BY DEF LoginResolves, SessionTypes, AuthInv, LoginForms, FormStages, Upgrades, Idle, Quiet, NoUpgrade
<1>2. BootInv'
  BY DEF LoginResolves, BootInv, AuthInv, NothingInFlight, SignedIn
<1>3. BannerInv'
  BY DEF LoginResolves, BannerInv, Idle
<1>4. UserInv'
  BY DEF LoginResolves, SessionTypes, UserInv, AuthInv, SignedIn, LoginForms, Idle, NoUpgrade,
         NewSession
<1>5. IssuedInv'
  BY DEF LoginResolves, IssuedInv, AuthInv
<1>6. TokenInv'
  BY DEF LoginResolves, TokenInv, AuthInv, UpgradesIdle, LoginOffered, Idle, NoUpgrade
<1> QED
  BY <1>1, <1>2, <1>3, <1>4, <1>5, <1>6, Zenon DEF AuthInv

(* The timer of the banner shows the user of the session in memory.          *)
LEMMA ReauthSuccessKeeps == AuthInv /\ handleReauthSuccess => AuthInv'
<1> SUFFICES ASSUME AuthInv, handleReauthSuccess PROVE AuthInv'
  OBVIOUS
<1> USE AuthAssumption
<1>1. SessionTypes'
  BY DEF handleReauthSuccess, SessionTypes, AuthInv, Session, NoSession, _secureRead, _secureWrite
<1>2. BootInv'
  BY DEF handleReauthSuccess, BootInv, AuthInv, NothingInFlight, SignedIn
<1>3. BannerInv'
  BY DEF handleReauthSuccess, BannerInv
<1>4. UserInv'
  BY DEF handleReauthSuccess, UserInv, AuthInv, SignedIn, LoginOffered, LoginForms, FormStages,
         NoSession, Callers, Tokens, NewSession, _secureRead, _secureWrite
<1>5. IssuedInv'
  BY DEF handleReauthSuccess, IssuedInv, AuthInv, _secureRead
<1>6. TokenInv'
  BY DEF handleReauthSuccess, TokenInv, AuthInv, UpgradesIdle, LoginOffered, NoSession, _secureRead,
         _secureWrite
<1> QED
  BY <1>1, <1>2, <1>3, <1>4, <1>5, <1>6, Zenon DEF AuthInv

(* The upgrade of a login replaces its offline session by one of the server. *)
LEMMA UpgradeKeeps ==
    ASSUME NEW n \in 1 .. MaxLogins, AuthInv, _tryUpgradeToServerToken(n)
    PROVE  AuthInv'
<1> USE AuthAssumption
<1>t. SessionTypes /\ IssuedInv /\ mem \in Session /\ disk \in Session /\ issued \in 0 .. MaxTokens
  BY DEF AuthInv, SessionTypes
<1>a. /\ upgrade' \in [1 .. MaxLogins -> Upgrades]
      /\ \A m \in 1 .. MaxLogins : upgrade'[m].stage # "idle" =>
            upgrade[m].stage # "idle" /\ upgrade'[m].user = upgrade[m].user
  <2>1. PICK v : /\ upgrade' = [upgrade EXCEPT ![n] = v]
                 /\ v = NoUpgrade \/ (v = [upgrade[n] EXCEPT !.stage = "login"] /\ upgrade[n].stage = "health")
    BY DEF _tryUpgradeToServerToken
  <2>2. upgrade \in [1 .. MaxLogins -> Upgrades] /\ upgrade[n] \in Upgrades
    BY <1>t DEF SessionTypes
  <2>3. v \in Upgrades /\ (v.stage # "idle" => upgrade[n].stage # "idle" /\ v.user = upgrade[n].user)
    BY <2>1, <2>2, RestFacts DEF Upgrades
  <2> QED
    BY <2>1, <2>2, <2>3
<1>b. \/ UNCHANGED <<mem, disk, issued>>
      \/ /\ upgrade[n].stage = "login" /\ upgrade'[n].stage = "idle"
         /\ issued < MaxTokens /\ issued' = issued + 1
         /\ mem' = NewSession(upgrade[n].user, "jwt") /\ disk' \in {mem', disk}
  <2>1. \/ UNCHANGED <<mem, disk, issued>>
        \/ /\ upgrade[n].stage = "login" /\ upgrade' = [upgrade EXCEPT ![n] = NoUpgrade]
           /\ issued < MaxTokens /\ issued' = issued + 1
           /\ _secureWrite(NewSession(upgrade[n].user, "jwt"))
    BY Zenon DEF _tryUpgradeToServerToken
  <2>2. \A s : _secureWrite(s) => mem' = s /\ disk' \in {mem', disk}
    BY DEF _secureWrite
  <2>3. [upgrade EXCEPT ![n] = NoUpgrade][n].stage = "idle"
    BY <1>t, RestFacts DEF SessionTypes
  <2> QED
    BY <2>1, <2>2, <2>3
<1>c. UNCHANGED <<online, expired, authState, shown, boot, form, refresh, timer, logins,
                  restarts, overtaken, refreshOverlapped>>
  BY DEF _tryUpgradeToServerToken
<1>d. /\ mem' \in Session /\ disk' \in Session /\ issued' \in 0 .. MaxTokens /\ issued <= issued'
      /\ mem'.tok <= issued' /\ disk'.tok <= issued'
  <2>1. CASE UNCHANGED <<mem, disk, issued>>
    BY <1>t, <2>1 DEF IssuedInv
  <2>2. CASE /\ upgrade[n].stage = "login" /\ issued < MaxTokens /\ issued' = issued + 1
             /\ mem' = NewSession(upgrade[n].user, "jwt") /\ disk' \in {mem', disk}
    <3>1. upgrade[n].user \in Users
      BY <1>t, <2>2 DEF SessionTypes
    <3>2. mem' \in Session /\ mem'.tok = issued + 1
      BY <1>t, <2>2, <3>1, NewSessionFacts
    <3>3. disk.tok \in Nat /\ disk.tok <= issued
      BY <1>t, SessionFacts DEF IssuedInv
    <3> QED
      BY <1>t, <2>2, <3>2, <3>3
  <2> QED
    BY <1>b, <2>1, <2>2
<1>1. SessionTypes'
  BY <1>t, <1>a, <1>c, <1>d, Zenon DEF SessionTypes
<1>2. BootInv'
  BY <1>a, <1>b, <1>c, NewSessionFacts, RestFacts, SessionFacts DEF BootInv, AuthInv, NothingInFlight,
         SignedIn
<1>3. BannerInv'
  BY <1>a, <1>b, <1>c, NewSessionFacts, RestFacts, SessionFacts DEF BannerInv, AuthInv, UpgradesIdle,
         RefreshesIdle
<1>4. UserInv'
  BY <1>a, <1>b, <1>c, NewSessionFacts, RestFacts DEF SessionTypes, UserInv, AuthInv, SignedIn,
         LoginOffered
<1>5. IssuedInv'
  <2>1. ASSUME NEW c \in Callers PROVE refresh[c].session.tok <= issued'
    <3>1. refresh[c] \in Refreshes /\ refresh[c].session.tok <= issued
      BY <1>t DEF SessionTypes, IssuedInv
    <3>2. refresh[c].session.tok \in Nat
      BY <3>1, SessionFacts DEF Refreshes
    <3> QED
      BY <1>t, <1>d, <3>1, <3>2
  <2> QED
    BY <1>c, <1>d, <2>1, Zenon DEF IssuedInv
<1>6. TokenInv'
  BY <1>a, <1>b, <1>c, NewSessionFacts, RestFacts, SessionFacts DEF TokenInv, AuthInv, UpgradesIdle,
         RefreshesIdle, LoginOffered
<1> QED
  BY <1>1, <1>2, <1>3, <1>4, <1>5, <1>6, Zenon DEF AuthInv

(* A caller asks for a refresh of the session in memory.                     *)
LEMMA GetAccessTokenKeeps ==
    ASSUME NEW c \in Callers, AuthInv, getAccessToken(c)
    PROVE  AuthInv'
<1> USE AuthAssumption
<1>a. /\ SignedIn /\ refresh[c].stage = "idle" /\ (mem # NoSession => mem' = mem)
      /\ mem = NoSession => mem' \in {disk, NoSession}
      /\ UNCHANGED <<disk, issued, authState, boot, form, upgrade, timer, overtaken>>
  BY DEF getAccessToken, _secureRead
<1>b. \/ refresh' = refresh
      \/ NeedsRefresh(mem') /\ refresh' = [refresh EXCEPT ![c] = [stage |-> "asked", session |-> mem']]
  BY DEF getAccessToken
<1>c. ~refreshOverlapped' => ~refreshOverlapped /\ \A d, e \in Callers :
          refresh'[d].stage = "asked" /\ refresh'[e].stage = "asked" => d = e
  BY Zenon DEF getAccessToken
<1>1. SessionTypes'
  BY DEF getAccessToken, NeedsRefresh, SessionTypes, AuthInv, Refreshes, NewSession, _secureRead
<1>2. BootInv'
  BY DEF getAccessToken, BootInv, AuthInv, SignedIn
<1>3. BannerInv'
  BY DEF getAccessToken, NeedsRefresh, BannerInv, AuthInv, UpgradesIdle, RefreshesIdle, NoSession,
         Callers, NoUpgrade, NewSession, _secureRead
<1>4. UserInv'
  BY DEF getAccessToken, UserInv, AuthInv, SignedIn, LoginOffered, NoSession, Callers, NoUpgrade,
         NewSession, _secureRead
<1>5. IssuedInv'
  BY DEF getAccessToken, IssuedInv, AuthInv, _secureRead
<1>6. TokenInv'
  BY <1>a, <1>b, <1>c DEF NeedsRefresh, SessionTypes, BannerInv, TokenInv, AuthInv, UpgradesIdle,
         SignedIn, LoginOffered, Upgrades, Refreshes, NoSession, Callers, Tokens, Idle
<1> QED
  BY <1>1, <1>2, <1>3, <1>4, <1>5, <1>6, Zenon DEF AuthInv

(* The answer to a refresh is of the user it was asked for.                  *)
LEMMA RefreshKeeps ==
    ASSUME NEW c \in Callers, AuthInv, tryRefreshToken(c)
    PROVE  AuthInv'
<1> USE AuthAssumption
<1> DEFINE s == refresh[c].session
<1>1a. refresh[c].stage = "asked" /\ s \in Session /\ s # NoSession /\ s.kind = "jwt"
  BY DEF tryRefreshToken, AuthInv, SessionTypes, Refreshes, NoSession
<1>2a. s.user \in Users /\ s.kind \in {"offline", "jwt"} /\ s.tok \in Tokens /\ s.flagged \in BOOLEAN
       /\ s = [user |-> s.user, kind |-> s.kind, tok |-> s.tok, flagged |-> s.flagged]
  BY <1>1a DEF Session
<1>3a. issued + 1 \in Tokens \/ ~(issued < MaxTokens)
  BY DEF AuthInv, SessionTypes, Tokens
<1>4a. PICK t \in Tokens, f \in BOOLEAN :
          /\ mem' = [user |-> s.user, kind |-> s.kind, tok |-> t, flagged |-> f]
          /\ (issued' = issued /\ t = s.tok) \/ (issued' = issued + 1 /\ t = issued' /\ issued < MaxTokens)
  <2>1. CASE issued < MaxTokens /\ issued' = issued + 1 /\ _secureWrite([s EXCEPT !.tok = issued + 1, !.flagged = FALSE])
    BY <1>2a, <1>3a, <2>1 DEF _secureWrite
  <2>2. CASE _secureWrite([s EXCEPT !.flagged = FALSE]) /\ UNCHANGED issued
    BY <1>2a, <2>2 DEF _secureWrite
  <2>3. CASE _secureWrite([s EXCEPT !.flagged = TRUE]) /\ UNCHANGED issued
    BY <1>2a, <2>3 DEF _secureWrite
  <2> QED
    BY <2>1, <2>2, <2>3, Zenon DEF tryRefreshToken
<1>a. /\ mem' \in Session /\ mem' # NoSession /\ disk' \in {mem', disk}
      /\ mem'.user = s.user /\ mem'.kind = s.kind
      /\ (issued' = issued /\ mem'.tok = s.tok) \/ (issued' = issued + 1 /\ mem'.tok = issued' /\ issued < MaxTokens)
  BY <1>2a, <1>4a DEF Session, NoSession, tryRefreshToken, _secureWrite
<1>b. refresh' = [refresh EXCEPT ![c] = Quiet]
  BY DEF tryRefreshToken
<1>c. UNCHANGED <<online, expired, authState, shown, boot, form, upgrade, timer, logins,
                  restarts, overtaken, refreshOverlapped>>
  BY DEF tryRefreshToken
<1>1. SessionTypes'
  BY <1>1a, <1>2a, <1>a, <1>b, <1>c, RestFacts, SessionFacts DEF SessionTypes, AuthInv
<1>2. BootInv'
  BY <1>1a, <1>2a, <1>a, <1>b, <1>c, RestFacts, SessionFacts DEF BootInv, AuthInv, NothingInFlight,
         SignedIn
<1>3. BannerInv'
  BY <1>1a, <1>2a, <1>a, <1>b, <1>c, RestFacts, SessionFacts DEF BannerInv, AuthInv, RefreshesIdle
<1>4. UserInv'
  BY <1>1a, <1>2a, <1>a, <1>b, <1>c, RestFacts, SessionFacts DEF UserInv, AuthInv, SignedIn,
         LoginOffered
<1>5. IssuedInv'
  <2>1. issued \in Nat /\ issued' \in Nat /\ issued <= issued' /\ s.tok <= issued /\ s.tok \in Nat
    BY <1>1a, <1>a, SessionFacts DEF AuthInv, SessionTypes, IssuedInv
  <2>2. mem'.tok <= issued'
    BY <1>a, <2>1
  <2>3. disk'.tok <= issued'
    BY <1>a, <2>1, <2>2, SessionFacts DEF AuthInv, SessionTypes, IssuedInv
  <2>4. ASSUME NEW d \in Callers PROVE refresh'[d].session.tok <= issued'
    BY <1>b, <2>1, RestFacts, SessionFacts DEF AuthInv, SessionTypes, IssuedInv, Refreshes
  <2> QED
    BY <2>2, <2>3, <2>4 DEF IssuedInv
<1>6. TokenInv'
  BY <1>1a, <1>2a, <1>a, <1>b, <1>c, RestFacts, SessionFacts DEF SessionTypes, TokenInv, AuthInv,
         UpgradesIdle, RefreshesIdle, LoginOffered
<1> QED
  BY <1>1, <1>2, <1>3, <1>4, <1>5, <1>6, Zenon DEF AuthInv

(* A logout clears the memory, and notes the tasks it overtakes.             *)
LEMMA LogoutKeeps == AuthInv /\ logout => AuthInv'
<1> SUFFICES ASSUME AuthInv, logout PROVE AuthInv'
  OBVIOUS
<1> USE AuthAssumption
<1>a. overtaken' \/ (NothingInFlight /\ ~overtaken)
  BY Zenon DEF logout
<1>1. SessionTypes'
  BY DEF logout, SessionTypes, AuthInv, Session, _secureClear
<1>2. BootInv'
  BY DEF logout, BootInv, SignedIn
<1>3. BannerInv'
  BY DEF logout, BannerInv, AuthInv, UpgradesIdle, RefreshesIdle, _secureClear
<1>4. UserInv'
  BY <1>a DEF logout, UserInv
<1>5. IssuedInv'
  BY DEF logout, SessionTypes, IssuedInv, AuthInv, NoSession, _secureClear
<1>6. TokenInv'
  BY <1>a DEF logout, TokenInv, UpgradesIdle, RefreshesIdle, NothingInFlight
<1> QED
  BY <1>1, <1>2, <1>3, <1>4, <1>5, <1>6, Zenon DEF AuthInv

(* The login form is shown; tasks begun since the logout are noted.          *)
LEMMA HandleLogoutKeeps == AuthInv /\ handleLogout => AuthInv'
<1> SUFFICES ASSUME AuthInv, handleLogout PROVE AuthInv'
  OBVIOUS
<1> USE AuthAssumption
<1>a. overtaken' \/ (NothingInFlight /\ ~overtaken)
  BY Zenon DEF handleLogout
<1>1. SessionTypes'
  BY DEF handleLogout, SessionTypes, AuthInv
<1>2. BootInv'
  BY DEF handleLogout, BootInv
<1>3. BannerInv'
  BY DEF handleLogout, BannerInv
<1>4. UserInv'
  BY <1>a DEF handleLogout, UserInv, NothingInFlight, SignedIn
<1>5. IssuedInv'
  BY DEF handleLogout, IssuedInv, AuthInv
<1>6. TokenInv'
  BY <1>a DEF handleLogout, TokenInv, UpgradesIdle, RefreshesIdle, NothingInFlight
<1> QED
  BY <1>1, <1>2, <1>3, <1>4, <1>5, <1>6, Zenon DEF AuthInv

(* The network comes and goes.                                               *)
LEMMA NetworkKeeps == AuthInv /\ NetworkChanges => AuthInv'
<1> SUFFICES ASSUME AuthInv, NetworkChanges PROVE AuthInv'
  OBVIOUS
<1> USE AuthAssumption
<1>1. SessionTypes'
  BY DEF NetworkChanges, SessionTypes, AuthInv
<1>2. BootInv'
  BY DEF NetworkChanges, BootInv, AuthInv, NothingInFlight, SignedIn
<1>3. BannerInv'
  BY DEF NetworkChanges, BannerInv, AuthInv, UpgradesIdle, RefreshesIdle
<1>4. UserInv'
  BY DEF NetworkChanges, UserInv, AuthInv, SignedIn, LoginOffered
<1>5. IssuedInv'
  BY DEF NetworkChanges, IssuedInv, AuthInv
<1>6. TokenInv'
  BY DEF NetworkChanges, TokenInv, AuthInv, UpgradesIdle, RefreshesIdle, LoginOffered
<1> QED
  BY <1>1, <1>2, <1>3, <1>4, <1>5, <1>6, Zenon DEF AuthInv

(* A token expires.                                                          *)
LEMMA ExpiryKeeps ==
    ASSUME NEW t \in 1 .. issued, AuthInv, TokenExpires(t)
    PROVE  AuthInv'
<1> USE AuthAssumption
<1>1. SessionTypes'
  <2>1. expired' \subseteq Tokens
    <3>1. issued \in 0 .. MaxTokens /\ expired \subseteq Tokens
      BY DEF SessionTypes, AuthInv
    <3>2. t \in Tokens
      BY <3>1 DEF Tokens
    <3> QED
      BY <3>1, <3>2 DEF TokenExpires
  <2>2. UNCHANGED <<mem, disk, issued, authState, shown, boot, form, upgrade, refresh, timer, logins,
                    overtaken, refreshOverlapped>>
    BY DEF TokenExpires
  <2> QED
    BY <2>1, <2>2, Zenon DEF SessionTypes, AuthInv
<1>2. BootInv'
  BY DEF TokenExpires, BootInv, AuthInv, NothingInFlight, SignedIn
<1>3. BannerInv'
  BY DEF TokenExpires, BannerInv, AuthInv, UpgradesIdle, RefreshesIdle
<1>4. UserInv'
  BY DEF TokenExpires, UserInv, AuthInv, SignedIn, LoginOffered
<1>5. IssuedInv'
  BY DEF TokenExpires, IssuedInv, AuthInv
<1>6. TokenInv'
  BY DEF TokenExpires, TokenInv, AuthInv, UpgradesIdle, RefreshesIdle, LoginOffered
<1> QED
  BY <1>1, <1>2, <1>3, <1>4, <1>5, <1>6, Zenon DEF AuthInv

(* The application starts again with what the file holds.                    *)
LEMMA RestartKeeps == AuthInv /\ Restart => AuthInv'
<1> SUFFICES ASSUME AuthInv, Restart PROVE AuthInv'
  OBVIOUS
<1> USE AuthAssumption
<1>1. SessionTypes'
  BY DEF Restart, SessionTypes, AuthInv, LoginForms, FormStages, Upgrades, Refreshes, Session, Idle,
         Quiet, NoUpgrade
<1>2. BootInv'
  BY DEF Restart, BootInv, NothingInFlight, Idle, Quiet, NoUpgrade
<1>3. BannerInv'
  BY DEF Restart, BannerInv
<1>4. UserInv'
  BY DEF Restart, UserInv, SignedIn, Idle, Quiet, NoUpgrade
<1>5. IssuedInv'
  BY DEF Restart, SessionTypes, IssuedInv, AuthInv, NoSession, Quiet
<1>6. TokenInv'
  BY DEF Restart, TokenInv, LoginOffered, Idle, Quiet, NoUpgrade
<1> QED
  BY <1>1, <1>2, <1>3, <1>4, <1>5, <1>6, Zenon DEF AuthInv

(* Every step keeps the invariant.                                           *)
LEMMA AuthKeeps == AuthInv /\ [AuthNext]_authVars => AuthInv'
<1> SUFFICES ASSUME AuthInv, [AuthNext]_authVars PROVE AuthInv'
  OBVIOUS
<1>1. CASE UNCHANGED authVars
  BY <1>1 DEF authVars, AuthInv, SessionTypes, BootInv, BannerInv, UserInv, IssuedInv, TokenInv,
     UpgradesIdle, RefreshesIdle, NothingInFlight, SignedIn, LoginOffered
<1>2. CASE AuthNext
  BY <1>2, BootstrapCheckKeeps, BootstrapLoadKeeps, LoginSubmitKeeps, ReauthSubmitKeeps,
     LocalLoginKeeps,
     ApiLoginKeeps, LoginResolvesKeeps, ReauthSuccessKeeps, UpgradeKeeps, GetAccessTokenKeeps, RefreshKeeps,
     LogoutKeeps, HandleLogoutKeeps, NetworkKeeps, ExpiryKeeps, RestartKeeps, Zenon DEF AuthNext
<1> QED
  BY <1>1, <1>2

(* Whoever is shown as signed in is the user whose session, and so whose     *)
(* token, the sync engine uses (App.tsx and tauriAuthService.ts), in every   *)
(* behaviour in which no logout overtook a task of the user.                 *)
THEOREM ShownIsSignedIn == AuthInit /\ [][AuthNext]_authVars => []ShownUserHoldsSession
<1>1. AuthInv => ShownUserHoldsSession
  BY DEF AuthInv, UserInv, ShownUserHoldsSession
<1> QED
  BY <1>1, AuthStarts, AuthKeeps, PTL

(* A token in memory is only replaced by a newer one, unless two refreshes   *)
(* overlapped or a logout overtook a task.                                   *)
LEMMA TokenGrows ==
    AuthInv /\ [AuthNext]_authVars =>
        (mem # NoSession /\ mem' # NoSession /\ mem'.tok < mem.tok => refreshOverlapped \/ overtaken)
<1> SUFFICES ASSUME AuthInv, [AuthNext]_authVars, ~refreshOverlapped, ~overtaken, mem # NoSession,
                    mem' # NoSession
             PROVE  ~(mem'.tok < mem.tok)
  OBVIOUS
<1>0. mem \in Session /\ mem.tok \in Nat /\ mem.tok <= issued /\ issued \in Nat
  BY AuthAssumption, SessionFacts DEF AuthInv, SessionTypes, IssuedInv
<1>1. CASE LocalLogin \/ _apiLogin
  BY <1>0, <1>1 DEF LocalLogin, _apiLogin, _secureWrite, NewSession
<1>2. ASSUME NEW n \in 1 .. MaxLogins, _tryUpgradeToServerToken(n) PROVE ~(mem'.tok < mem.tok)
  BY <1>0, <1>2 DEF _tryUpgradeToServerToken, _secureWrite, NewSession
<1>3. ASSUME NEW c \in Callers, tryRefreshToken(c) PROVE ~(mem'.tok < mem.tok)
  <2>1. refresh[c].session = mem
    BY <1>3 DEF AuthInv, TokenInv, tryRefreshToken
  <2>2. mem = [user |-> mem.user, kind |-> mem.kind, tok |-> mem.tok, flagged |-> mem.flagged]
    BY <1>0, SessionFacts
  <2>3. \A f \in BOOLEAN : /\ [mem EXCEPT !.flagged = f].tok = mem.tok
                           /\ [mem EXCEPT !.tok = issued + 1, !.flagged = f].tok = issued + 1
    BY <2>2
  <2>4. \/ mem' = [mem EXCEPT !.tok = issued + 1, !.flagged = FALSE]
        \/ \E f \in BOOLEAN : mem' = [mem EXCEPT !.flagged = f]
    <3>1. \/ mem' = [refresh[c].session EXCEPT !.tok = issued + 1, !.flagged = FALSE]
          \/ mem' = [refresh[c].session EXCEPT !.flagged = FALSE]
          \/ mem' = [refresh[c].session EXCEPT !.flagged = TRUE]
      BY <1>3, Zenon DEF tryRefreshToken, _secureWrite
    <3> QED
      BY <2>1, <3>1
  <2>5. mem'.tok = mem.tok \/ mem'.tok = issued + 1
    BY <2>3, <2>4, Zenon
  <2> QED
    BY <1>0, <2>5
<1>4. CASE logout \/ Restart
  BY <1>4 DEF logout, Restart, _secureClear
<1>5. CASE BootstrapCheck \/ handleReauthSuccess \/ \E c \in Callers : getAccessToken(c)
  BY <1>0, <1>5 DEF BootstrapCheck, handleReauthSuccess, getAccessToken, _secureRead
<1>6. CASE mem' = mem
  BY <1>0, <1>6
<1>7. BootstrapLoad \/ (\E u \in Users : LoginSubmit(u)) \/ ReauthSubmit \/ LoginResolves
        \/ handleLogout \/ NetworkChanges \/ (\E t \in 1 .. issued : TokenExpires(t))
        \/ UNCHANGED authVars => mem' = mem
  BY DEF authVars, BootstrapLoad, LoginSubmit, ReauthSubmit, LoginResolves, handleLogout,
         NetworkChanges, TokenExpires
<1> QED
  BY <1>1, <1>2, <1>3, <1>4, <1>5, <1>6, <1>7, Zenon DEF AuthNext

(* A cached token is never replaced by an older one (tryRefreshToken merges  *)
(* its answer into the session it read before the request), unless refreshes *)
(* overlapped or a logout overtook one.                                      *)
THEOREM TokensOnlyGrow == AuthInit /\ [][AuthNext]_authVars => TokenNeverGoesBack
<1>1. AuthInv /\ [AuthNext]_authVars =>
        [mem # NoSession /\ mem' # NoSession /\ mem'.tok < mem.tok => refreshOverlapped \/ overtaken]_authVars
  BY TokenGrows
<1> QED
  BY <1>1, AuthStarts, AuthKeeps, PTL DEF TokenNeverGoesBack
-----------------------------------------------------------------------------
(* Unless an insert failed unnoticed or a cancel raced a restore: the flag   *)
(* and the users come after the stores, a thread has written what lies       *)
(* behind it, and what is announced, read or acted on is there.              *)
DataInv ==
    ~lossy /\ ~raced =>
        /\ "users" \in db => "stores" \in db
        /\ "flag" \in db => "users" \in db
        /\ \A t \in 1 .. MaxThreads :
              /\ thread[t] > 2 => "stores" \in db
              /\ thread[t] > 3 => "stock" \in db
              /\ thread[t] > 4 => "users" \in db
        /\ progress \in {"critical", "complete"} \/ answer \in {"critical", "complete"}
              \/ dismissed = "restored" => Critical \subseteq db

GenesisInv ==
    /\ thread \in [1 .. MaxThreads -> 0 .. 7] /\ lossy \in BOOLEAN /\ raced \in BOOLEAN
    /\ DataInv /\ NoDeadEnd

dataVars == <<db, thread, progress, answer, dismissed, lossy, raced>>

(* What a step of a restore thread writes.                                   *)
LEMMA WritesFacts ==
    /\ ThreadWrites(1) = {} /\ ThreadWrites(2) = {"stores"} /\ ThreadWrites(3) = {"stock"}
    /\ ThreadWrites(4) = {"users"} /\ ThreadWrites(5) = {} /\ ThreadWrites(6) = {"flag"}
    /\ ThreadWrites(7) = {"history"}
  BY DEF ThreadWrites, Tables

(* A step of a thread writes its table and moves on; an insert that failed   *)
(* is noted.                                                                 *)
LEMMA ThreadStepKeeps ==
    ASSUME GenesisInv, NEW t \in 1 .. MaxThreads, ThreadStep(t) PROVE GenesisInv'
<1> DEFINE k == thread[t]
<1>1. /\ k \in 1 .. 7 /\ thread' = [thread EXCEPT ![t] = IF k = 7 THEN 0 ELSE k + 1]
      /\ progress' = ThreadReports(k)
      /\ UNCHANGED <<answer, dismissed, hook, showGenesis, gate>> /\ raced' = raced
  BY DEF ThreadStep, GenesisInv, shellVars
<1>2. \/ db' = db \cup ThreadWrites(k) /\ lossy' = lossy
      \/ lossy'
  BY Zenon DEF ThreadStep
<1> HIDE DEF k
<1>3. thread' \in [1 .. MaxThreads -> 0 .. 7] /\ lossy' \in BOOLEAN /\ raced' \in BOOLEAN
  <2>1. thread' \in [1 .. MaxThreads -> 0 .. 7]
    BY <1>1 DEF GenesisInv
  <2> QED
    BY <1>1, <1>2, <2>1, Zenon DEF GenesisInv
<1>4. NoDeadEnd'
  BY <1>1 DEF GenesisInv, NoDeadEnd
<1>5. DataInv'
  <2> SUFFICES ASSUME ~lossy', ~raced' PROVE DataInv'
    BY Zenon DEF DataInv
  <2>1. ~lossy /\ ~raced /\ db' = db \cup ThreadWrites(k)
    BY <1>1, <1>2
  <2>2. /\ "users" \in db => "stores" \in db
        /\ "flag" \in db => "users" \in db
        /\ \A u \in 1 .. MaxThreads :
              /\ thread[u] > 2 => "stores" \in db
              /\ thread[u] > 3 => "stock" \in db
              /\ thread[u] > 4 => "users" \in db
        /\ answer \in {"critical", "complete"} \/ dismissed = "restored" => Critical \subseteq db
    BY <2>1 DEF GenesisInv, DataInv
  <2>3. /\ ("stores" \in db' <=> "stores" \in db \/ k = 2) /\ ("stock" \in db' <=> "stock" \in db \/ k = 3)
        /\ ("users" \in db' <=> "users" \in db \/ k = 4) /\ ("flag" \in db' <=> "flag" \in db \/ k = 6)
    BY <1>1, <2>1, WritesFacts
  <2>4. /\ "users" \in db' => "stores" \in db'
        /\ "flag" \in db' => "users" \in db'
    BY <1>1, <2>2, <2>3 DEF k
  <2>5. ASSUME NEW u \in 1 .. MaxThreads
        PROVE  /\ thread'[u] > 2 => "stores" \in db'
               /\ thread'[u] > 3 => "stock" \in db'
               /\ thread'[u] > 4 => "users" \in db'
    BY <1>1, <2>2, <2>3 DEF GenesisInv, k
  <2>6. progress' \in {"critical", "complete"} => Critical \subseteq db'
    <3>1. progress' \in {"critical", "complete"} => k > 4
      BY <1>1 DEF ThreadReports
    <3> QED
      BY <1>1, <2>2, <2>3, <3>1 DEF Critical, k
  <2>7. db \subseteq db'
    BY <2>1
  <2> QED
    BY <1>1, <2>2, <2>4, <2>5, <2>6, <2>7 DEF DataInv
<1> QED
  BY <1>3, <1>4, <1>5, Zenon DEF GenesisInv

(* A cancel empties the database, with every thread ended and no answer      *)
(* under way, or it is noted.                                                *)
LEMMA CancelRestoreKeeps == ASSUME GenesisInv, cancelRestore PROVE GenesisInv'
<1>1. /\ showGenesis' = TRUE /\ gate' = "loading" /\ dismissed' = "not yet"
      /\ UNCHANGED <<hook, thread, answer, lossy>>
      /\ (progress' = "idle" /\ db' = {}) \/ UNCHANGED <<progress, db>>
      /\ raced' \in BOOLEAN /\ (~raced' => ~raced /\ ThreadsEnded /\ answer = "idle")
  BY Zenon DEF cancelRestore
<1>2. NoDeadEnd'
  BY <1>1, Zenon DEF NoDeadEnd
<1>3. DataInv'
  <2>1. CASE progress' = "idle" /\ db' = {}
    <3>1. ~raced' => answer' = "idle" /\ \A t \in 1 .. MaxThreads : thread'[t] = 0
      BY <1>1, Zenon DEF ThreadsEnded
    <3>2. ~(0 > 2) /\ ~(0 > 3) /\ ~(0 > 4)
      OBVIOUS
    <3>3. "idle" \notin {"critical", "complete"} /\ dismissed' # "restored"
      BY <1>1
    <3> QED
      BY <2>1, <3>1, <3>2, <3>3, Zenon DEF DataInv
  <2>2. CASE UNCHANGED <<progress, db>>
    BY <1>1, <2>2 DEF DataInv, GenesisInv
  <2> QED
    BY <1>1, <2>1, <2>2
<1> QED
  BY <1>1, <1>2, <1>3, Zenon DEF GenesisInv

(* runGenesis removes a stale flag and adds the store, and the user after    *)
(* it.                                                                       *)
LEMMA RunGenesisKeeps == ASSUME GenesisInv, runGenesis PROVE GenesisInv'
<1>1. /\ UNCHANGED <<thread, progress, answer, lossy, raced>>
      /\ \/ /\ db' = (db \ {"flag"}) \cup {"stores", "users"}
            /\ gate' = "unauthenticated" /\ dismissed' = "set up"
         \/ /\ db' \in {db, db \ {"flag"}, (db \ {"flag"}) \cup {"stores"}}
            /\ UNCHANGED <<hook, showGenesis, gate, dismissed>>
  BY DEF runGenesis, shellVars
<1>2. NoDeadEnd'
  BY <1>1 DEF NoDeadEnd, GenesisInv
<1>3. DataInv'
  <2>1. /\ \A x \in Critical : x \in db => x \in db'
        /\ "flag" \in db' => db' = db \/ "users" \in db'
        /\ "users" \in db' => "stores" \in db' \/ "users" \in db
        /\ dismissed' = "restored" => dismissed = "restored"
    BY <1>1 DEF Critical
  <2>2. "stores" \in Critical /\ "stock" \in Critical /\ "users" \in Critical
    BY DEF Critical
  <2> QED
    BY <1>1, <2>1, <2>2 DEF DataInv, GenesisInv
<1> QED
  BY <1>1, <1>2, <1>3 DEF GenesisInv

(* Every step keeps the invariant.                                           *)
LEMMA GenesisKeeps == GenesisInv /\ [GenesisNext]_genesisVars => GenesisInv'
<1> SUFFICES ASSUME GenesisInv, [GenesisNext]_genesisVars PROVE GenesisInv'
  OBVIOUS
<1>1. CASE checkState
  <2>1. /\ UNCHANGED dataVars
        /\ \/ hook' = "ready" /\ gate' = "unauthenticated"
           \/ showGenesis' = TRUE
    BY <1>1 DEF checkState, dataVars, restoreVars
  <2> QED
    BY <2>1 DEF GenesisInv, DataInv, NoDeadEnd, dataVars
<1>2. CASE CancelSetup
  <2>1. UNCHANGED <<db, thread, progress, answer, lossy, raced>> /\ dismissed' = "given up"
    BY <1>2, Zenon DEF CancelSetup, restoreVars
  <2> QED
    BY <2>1 DEF GenesisInv, DataInv, NoDeadEnd
<1>3. CASE UNCHANGED <<dataVars, hook, showGenesis, gate>>
  BY <1>3 DEF dataVars, GenesisInv, DataInv, NoDeadEnd
<1>4. (\E m \in {"fresh", "restore"} : ChooseMode(m)) \/ AccountForm \/ RestoreLoginForm \/ Back
        \/ NextStep \/ SubmitFresh \/ handleValidateRestore \/ validateRestore \/ handleStartRestore
        \/ handleCancelRestore \/ UNCHANGED genesisVars
      => UNCHANGED <<dataVars, hook, showGenesis, gate>>
  BY Zenon DEF ChooseMode, AccountForm, RestoreLoginForm, FillForm, Back, NextStep, SubmitFresh,
     handleValidateRestore, validateRestore, handleStartRestore, handleCancelRestore, genesisVars,
     dataVars, shellVars, restoreVars
<1>5. CASE startRestore
  <2>1. /\ UNCHANGED <<db, answer, lossy, raced, hook, showGenesis, gate, dismissed>>
        /\ \/ (\E n : thread' = [thread EXCEPT ![n] = 1]) /\ progress' = "busy"
           \/ UNCHANGED <<thread, progress>>
    BY <1>5, Zenon DEF startRestore, shellVars
  <2>2. /\ thread' \in [1 .. MaxThreads -> 0 .. 7]
        /\ \A t \in 1 .. MaxThreads : thread'[t] = thread[t] \/ thread'[t] = 1
    <3>1. CASE thread' = thread
      BY <3>1 DEF GenesisInv
    <3>2. ASSUME NEW n, thread' = [thread EXCEPT ![n] = 1]
          PROVE  /\ thread' \in [1 .. MaxThreads -> 0 .. 7]
                 /\ \A t \in 1 .. MaxThreads : thread'[t] = thread[t] \/ thread'[t] = 1
      <4>1. thread \in [1 .. MaxThreads -> 0 .. 7] /\ 1 \in 0 .. 7
        BY DEF GenesisInv
      <4> QED
        BY <3>2, <4>1, Zenon
    <3> QED
      BY <2>1, <3>1, <3>2, Zenon
  <2>3. DataInv'
    BY <2>1, <2>2 DEF GenesisInv, DataInv
  <2> QED
    BY <2>1, <2>2, <2>3 DEF GenesisInv, NoDeadEnd
<1>6. ASSUME NEW t \in 1 .. MaxThreads, ThreadFails(t) PROVE GenesisInv'
  <2>1. /\ thread' = [thread EXCEPT ![t] = 0] /\ progress' = "error"
        /\ UNCHANGED <<db, answer, lossy, raced, hook, showGenesis, gate, dismissed>>
    BY <1>6, Zenon DEF ThreadFails, shellVars
  <2>2. /\ thread' \in [1 .. MaxThreads -> 0 .. 7]
        /\ \A u \in 1 .. MaxThreads : thread'[u] = thread[u] \/ thread'[u] = 0
    BY <2>1, GenesisAssumption DEF GenesisInv
  <2>3. DataInv'
    BY <2>1, <2>2 DEF GenesisInv, DataInv
  <2> QED
    BY <2>1, <2>2, <2>3 DEF GenesisInv, NoDeadEnd
<1>7. ASSUME NEW t \in 1 .. MaxThreads, ThreadStep(t) PROVE GenesisInv'
  BY <1>7, ThreadStepKeeps
<1>8. CASE PollTick
  <2>1. /\ answer' = progress
        /\ UNCHANGED <<db, thread, progress, lossy, raced, hook, showGenesis, gate, dismissed>>
    BY <1>8, Zenon DEF PollTick, shellVars
  <2> QED
    BY <2>1 DEF GenesisInv, DataInv, NoDeadEnd
<1>9. CASE PollAnswers
  <2>1. /\ answer' = "idle" /\ UNCHANGED <<db, thread, progress, lossy, raced, hook>>
        /\ \/ /\ gate' = "unauthenticated"
              /\ dismissed' = "failed" \/ (answer \in {"critical", "complete"} /\ dismissed' = "restored")
           \/ UNCHANGED <<showGenesis, gate, dismissed>>
    BY <1>9 DEF PollAnswers, Ended
  <2> QED
    BY <2>1 DEF GenesisInv, DataInv, NoDeadEnd
<1> QED
  BY <1>1, <1>2, <1>3, <1>4, <1>5, <1>6, <1>7, <1>8, <1>9, RunGenesisKeeps, CancelRestoreKeeps, Zenon
     DEF GenesisNext

(* A database that is taken for a set-up device has a store and a user, a    *)
(* restore that dismisses the wizard has brought its critical tables, and    *)
(* the splash screen is left, for any number of overlapping restores and     *)
(* cancels, unless an insert failed unnoticed or a cancel raced a restore    *)
(* (do_restore, handleRestoreStarted, handleCancelRestore).                  *)
THEOREM FirstStartSound == GenesisInit /\ [][GenesisNext]_genesisVars => []FirstStartIsSound
<1>1. GenesisInit => GenesisInv
  <2> SUFFICES ASSUME GenesisInit PROVE GenesisInv
    OBVIOUS
  <2>1. /\ hook = "loading" /\ thread = [t \in 1 .. MaxThreads |-> 0] /\ progress = "idle"
        /\ answer = "idle" /\ dismissed = "not yet" /\ lossy = FALSE /\ raced = FALSE
        /\ db = {} \/ db = {"stores", "users"}
    BY Zenon DEF GenesisInit
  <2>2. thread \in [1 .. MaxThreads -> 0 .. 7] /\ \A t \in 1 .. MaxThreads : thread[t] = 0
    <3>1. thread = [t \in 1 .. MaxThreads |-> 0]
      BY <2>1, Zenon
    <3> QED
      BY <3>1
  <2>3. DataInv
    <3>1. /\ db = {} \/ db = {"stores", "users"}
          /\ progress = "idle" /\ answer = "idle" /\ dismissed = "not yet"
      BY <2>1, Zenon
    <3>2. ("users" \in db => "stores" \in db) /\ "flag" \notin db
      BY <3>1
    <3>3. ~(0 > 2) /\ ~(0 > 3) /\ ~(0 > 4)
      OBVIOUS
    <3>4. /\ progress \notin {"critical", "complete"} /\ answer \notin {"critical", "complete"}
          /\ dismissed # "restored"
      BY <3>1
    <3> QED
      BY <2>2, <3>2, <3>3, <3>4, Zenon DEF DataInv
  <2> QED
    BY <2>1, <2>2, <2>3, Zenon DEF GenesisInv, NoDeadEnd
<1>2. GenesisInv => FirstStartIsSound
  <2>1. GenesisInv => ReadyIsUsable
    BY DEF GenesisInv, DataInv, ReadyIsUsable, Ready
  <2>2. GenesisInv => DismissedIsRestored
    BY DEF GenesisInv, DataInv, DismissedIsRestored
  <2> QED
    BY <2>1, <2>2, Zenon DEF GenesisInv, FirstStartIsSound
<1> QED
  BY <1>1, <1>2, GenesisKeeps, PTL
-----------------------------------------------------------------------------
(* A list of stores never holds the mark of one that was not read.           *)
FetchesAreTyped ==
    /\ appDb \subseteq ShellStores /\ appList \subseteq ShellStores
    /\ \A f \in appFetches :
          /\ f \in [snap : SUBSET (ShellStores \cup {NoStore}), to : ShellStores \cup {NoStore}]
          /\ f.snap # Waiting => f.snap \subseteq ShellStores

(* The strengthening ViewsAreTold needs: as long as nothing was crossed, a   *)
(* switch that is under way is to the store that is active.                  *)
SwitchIsToActive ==
    ~appCrossed => \A f \in appFetches : f.to # NoStore => f.to = appActive

ShellInv == FetchesAreTyped /\ ActiveStoreIsListed /\ OverlayIsBacked /\ SwitchIsToActive /\ ViewsAreTold

(* A fetch that begins is one of the fetches.                                *)
LEMMA FetchOfIsTyped ==
    ASSUME NEW to \in ShellStores \cup {NoStore}
    PROVE  /\ FetchOf(to) \in [snap : SUBSET (ShellStores \cup {NoStore}), to : ShellStores \cup {NoStore}]
           /\ FetchOf(to).snap = Waiting /\ FetchOf(to).to = to
  BY DEF FetchOf, Waiting

(* The first state satisfies the invariant.                                  *)
LEMMA ShellInvInit == AppInit => ShellInv
  BY DEF AppInit, ShellInv, FetchesAreTyped, ActiveStoreIsListed, OverlayIsBacked, SwitchIsToActive,
         ViewsAreTold

(* A read leaves the target of its fetch alone.                              *)
LEMMA GetStoresKeeps ==
    ASSUME ShellInv, NEW f \in appFetches, getStores(f) PROVE ShellInv'
<1> DEFINE g == [f EXCEPT !.snap = appDb]
<1>1. /\ g \in [snap : SUBSET (ShellStores \cup {NoStore}), to : ShellStores \cup {NoStore}]
      /\ g.snap = appDb /\ g.to = f.to
  BY DEF ShellInv, FetchesAreTyped
<1>2. /\ appFetches' = (appFetches \ {f}) \cup {g}
      /\ UNCHANGED <<appDb, appList, appActive, appOverlay, appTold, appCrossed>>
  BY DEF getStores
<1> HIDE DEF g
<1>3. FetchesAreTyped'
  BY <1>1, <1>2 DEF ShellInv, FetchesAreTyped
<1>4. ActiveStoreIsListed'
  BY <1>2 DEF ShellInv, ActiveStoreIsListed
<1>5. OverlayIsBacked'
  BY <1>1, <1>2 DEF ShellInv, OverlayIsBacked
<1>6. SwitchIsToActive' /\ ViewsAreTold'
  BY <1>1, <1>2 DEF ShellInv, SwitchIsToActive, ViewsAreTold
<1> QED
  BY <1>3, <1>4, <1>5, <1>6 DEF ShellInv

(* The end of a fetch replaces the list and, with it, an active store that   *)
(* is not in it; the end of a switch tells the views and lifts the overlay.  *)
LEMMA FetchStoresKeeps ==
    ASSUME ShellInv, NEW f \in appFetches, NEW ok \in BOOLEAN, fetchStores(f, ok) PROVE ShellInv'
<1>1. /\ FetchOf(NoStore) \in [snap : SUBSET (ShellStores \cup {NoStore}), to : ShellStores \cup {NoStore}]
      /\ FetchOf(NoStore).snap = Waiting /\ FetchOf(NoStore).to = NoStore
  BY FetchOfIsTyped
<1>2. FetchesAreTyped'
  BY <1>1 DEF ShellInv, FetchesAreTyped, fetchStores, SwitchEnds
<1>3. ActiveStoreIsListed'
  BY DEF ShellInv, ActiveStoreIsListed, fetchStores, ActiveAfter
<1>4. OverlayIsBacked'
  BY DEF ShellInv, OverlayIsBacked, fetchStores, SwitchEnds
<1>5. ~appCrossed' => ~appCrossed /\ appActive' = appActive
  BY DEF fetchStores
<1>6. SwitchIsToActive'
  BY <1>1, <1>5 DEF ShellInv, SwitchIsToActive, fetchStores, SwitchEnds
<1>7. ViewsAreTold'
  BY <1>1, <1>5 DEF ShellInv, SwitchIsToActive, ViewsAreTold, fetchStores, SwitchEnds
<1> QED
  BY <1>2, <1>3, <1>4, <1>6, <1>7 DEF ShellInv

(* A switch raises the overlay and is itself what will lift it.              *)
LEMMA SelectKeeps ==
    ASSUME ShellInv, NEW s \in ShellStores, handleSelectStoreAndReload(s) PROVE ShellInv'
<1>1. /\ FetchOf(s) \in [snap : SUBSET (ShellStores \cup {NoStore}), to : ShellStores \cup {NoStore}]
      /\ FetchOf(s).snap = Waiting /\ FetchOf(s).to = s /\ s # NoStore
  BY FetchOfIsTyped, ShellAssumption DEF ShellAssumption
<1>2. /\ appFetches' = appFetches \cup {FetchOf(s)} /\ appActive' = s /\ s \in appList
      /\ UNCHANGED <<appDb, appList, appTold>>
      /\ ~appCrossed' => ~appCrossed /\ ~\E f \in appFetches : f.to # NoStore
  BY DEF handleSelectStoreAndReload, StoresFetch, setActiveStoreId, StoreOffered
<1>3. FetchesAreTyped'
  BY <1>1, <1>2 DEF ShellInv, FetchesAreTyped
<1>4. ActiveStoreIsListed' /\ OverlayIsBacked'
  BY <1>1, <1>2 DEF ActiveStoreIsListed, OverlayIsBacked
<1>5. SwitchIsToActive' /\ ViewsAreTold'
  BY <1>1, <1>2 DEF SwitchIsToActive, ViewsAreTold
<1> QED
  BY <1>3, <1>4, <1>5 DEF ShellInv

(* A plain reload adds a fetch that is no switch.                            *)
LEMMA ReloadKeeps ==
    ASSUME ShellInv, StoresFetch(NoStore), appDb' \subseteq ShellStores,
           UNCHANGED <<appList, appActive, appOverlay, appTold, appCrossed>>
    PROVE  ShellInv'
<1>1. /\ FetchOf(NoStore) \in [snap : SUBSET (ShellStores \cup {NoStore}), to : ShellStores \cup {NoStore}]
      /\ FetchOf(NoStore).snap = Waiting /\ FetchOf(NoStore).to = NoStore
  BY FetchOfIsTyped
<1>2. appFetches' = appFetches \cup {FetchOf(NoStore)}
  BY DEF StoresFetch
<1>3. FetchesAreTyped'
  BY <1>1, <1>2 DEF ShellInv, FetchesAreTyped
<1>4. ActiveStoreIsListed' /\ OverlayIsBacked'
  BY <1>1, <1>2 DEF ShellInv, ActiveStoreIsListed, OverlayIsBacked
<1>5. SwitchIsToActive' /\ ViewsAreTold'
  BY <1>1, <1>2 DEF ShellInv, SwitchIsToActive, ViewsAreTold
<1> QED
  BY <1>3, <1>4, <1>5 DEF ShellInv

(* Navigation and menus touch none of it.                                    *)
LEMMA StoresUntouched ==
    ASSUME ShellInv,
           UNCHANGED <<appDb, appList, appActive, appFetches, appOverlay, appTold, appCrossed>>
    PROVE  ShellInv'
  BY DEF ShellInv, FetchesAreTyped, ActiveStoreIsListed, OverlayIsBacked, SwitchIsToActive, ViewsAreTold

(* Every step of the application keeps the invariant.                        *)
LEMMA ShellInvNext == ShellInv /\ [AppNext]_appVars => ShellInv'
<1> SUFFICES ASSUME ShellInv, [AppNext]_appVars PROVE ShellInv'
  OBVIOUS
<1>0. appDb \subseteq ShellStores
  BY DEF ShellInv, FetchesAreTyped
<1>1. ASSUME NEW f \in appFetches, getStores(f) PROVE ShellInv'
  BY <1>1, GetStoresKeeps
<1>2. ASSUME NEW f \in appFetches, NEW ok \in BOOLEAN, fetchStores(f, ok) PROVE ShellInv'
  BY <1>2, FetchStoresKeeps
<1>3. ASSUME NEW ss \in SUBSET ShellStores, StoresChange(ss) PROVE ShellInv'
  BY <1>3, ReloadKeeps DEF StoresChange
<1>4. CASE SyncThenFetch
  BY <1>0, <1>4, ReloadKeeps DEF SyncThenFetch
<1>5. ASSUME NEW s \in ShellStores, handleSelectStoreAndReload(s) PROVE ShellInv'
  BY <1>5, SelectKeeps
<1>6. ASSUME NEW m \in {"user", "store"}, toggleMenu(m) PROVE ShellInv'
  BY <1>6, StoresUntouched DEF toggleMenu, shellStoreVars
<1>7. CASE closeMenus \/ toggleMore
  BY <1>7, StoresUntouched DEF closeMenus, toggleMore, shellStoreVars
<1>8. ASSUME NEW v \in NavViews, navigate(v) PROVE ShellInv'
  BY <1>8, StoresUntouched DEF navigate
<1>9. CASE ShellSignIn
  BY <1>0, <1>9, ReloadKeeps DEF ShellSignIn
<1>10. CASE ShellSignOut
  BY <1>10, StoresUntouched DEF ShellSignOut, shellStoreVars
<1>11. CASE ShellRestart
  BY <1>11 DEF ShellRestart, ShellInv, FetchesAreTyped, ActiveStoreIsListed, OverlayIsBacked,
               SwitchIsToActive, ViewsAreTold
<1>12. CASE UNCHANGED appVars
  BY <1>12, StoresUntouched DEF appVars, shellStoreVars
<1> QED
  BY <1>1, <1>2, <1>3, <1>4, <1>5, <1>6, <1>7, <1>8, <1>9, <1>10, <1>11, <1>12 DEF AppNext

(* The active store is always one of the list on display, the overlay of a   *)
(* switch is always about to be lifted, and once the switches have ended the *)
(* views were last told of the active store, unless switches overlapped or a *)
(* list replaced the store (fetchStores, handleSelectStoreAndReload).        *)
THEOREM ShellSound == AppSpec => []ShellIsSound
<1>1. ShellInv => ShellIsSound
  BY DEF ShellInv, ShellIsSound
<1> QED
  BY <1>1, ShellInvInit, ShellInvNext, PTL DEF AppSpec
-----------------------------------------------------------------------------
Living(c) == drvChain[c] \in {"timer", "running"}

(* Sync is active exactly while somebody is signed in; then                  *)
(* _backgroundTimeoutId names a chain that goes on, and otherwise it names   *)
(* none. Without a revival there is one chain at most, and none of them has  *)
(* a timer after signing out.                                                *)
ChainInv ==
    /\ drvAuth \in {"none", "authenticated", "expired_offline"}
    /\ drvActive = (drvAuth = "authenticated")
    /\ drvChain \in [Chains -> {"unused", "timer", "running", "ended"}]
    /\ drvStarts \in Nat
    /\ drvRevived \in BOOLEAN
    /\ drvActive => drvTimeoutId \in Chains /\ Living(drvTimeoutId)
    /\ ~drvActive => drvTimeoutId = 0
    /\ ~drvRevived =>
         /\ \A c, d \in Chains : Living(c) /\ Living(d) => c = d
         /\ ~drvActive => \A c \in Chains : drvChain[c] # "timer"

(* The first state has no chain.                                             *)
LEMMA ChainInit == DriverInit => ChainInv
<1> SUFFICES ASSUME DriverInit PROVE ChainInv
  OBVIOUS
<1>1. /\ drvAuth = "none" /\ drvActive = FALSE /\ drvTimeoutId = 0 /\ drvRevived = FALSE
      /\ drvStarts = 0 /\ drvChain = [c \in Chains |-> "unused"]
  BY Zenon DEF DriverInit
<1>2. drvStarts \in Nat
  BY <1>1
<1>3. /\ drvChain \in [Chains -> {"unused", "timer", "running", "ended"}]
      /\ \A c \in Chains : ~Living(c) /\ drvChain[c] # "timer"
  BY <1>1 DEF Living
<1>4. drvAuth \in {"none", "authenticated", "expired_offline"} /\ drvAuth # "authenticated"
  BY <1>1
<1> QED
  BY <1>1, <1>2, <1>3, <1>4, Zenon DEF ChainInv

(* Signing in starts a chain where none is left, or notes the run that will  *)
(* revive an old one; signing out stops the chain that _backgroundTimeoutId  *)
(* names; a run that ends goes on only while sync is active.                 *)
LEMMA ChainNext == ChainInv /\ [DriverNext]_driverVars => ChainInv'
<1> SUFFICES ASSUME ChainInv, [DriverNext]_driverVars PROVE ChainInv'
  OBVIOUS
<1> USE DriverAssumption
<1>1. CASE DriverSignIn
  <2>0. ~drvActive /\ drvStarts \in Nat /\ drvStarts < MaxChains
    BY <1>1, Zenon DEF DriverSignIn, startBackgroundSync, ChainInv
  <2>1. ~drvActive /\ drvStarts \in Nat /\ drvStarts + 1 \in Chains
    BY <2>0 DEF Chains
  <2>2. /\ drvAuth' = "authenticated" /\ drvActive' = TRUE /\ drvStarts' = drvStarts + 1
        /\ drvChain' = [drvChain EXCEPT ![drvStarts + 1] = "timer"]
        /\ drvTimeoutId' = drvStarts + 1
        /\ drvRevived' = (drvRevived \/ \E c \in Chains : drvChain[c] = "running")
    BY <1>1, <2>1 DEF DriverSignIn, startBackgroundSync
  <2>3. ASSUME ~drvRevived' PROVE \A c \in Chains : ~Living(c)
    BY <2>1, <2>2, <2>3 DEF ChainInv, Living
  <2>4. ~drvRevived' => \A c, d \in Chains : Living(c)' /\ Living(d)' => c = d
    BY <2>2, <2>3 DEF ChainInv, Living
  <2>5. drvTimeoutId' \in Chains /\ Living(drvTimeoutId)'
    BY <2>1, <2>2 DEF ChainInv, Living
  <2>6. drvChain' \in [Chains -> {"unused", "timer", "running", "ended"}] /\ drvStarts' \in Nat
    BY <2>1, <2>2 DEF ChainInv
  <2>7. /\ drvActive' = (drvAuth' = "authenticated") /\ drvRevived' \in BOOLEAN
        /\ drvAuth' \in {"none", "authenticated", "expired_offline"}
    BY <2>2, Zenon
  <2> QED
    BY <2>2, <2>4, <2>5, <2>6, <2>7, Zenon DEF ChainInv
<1>2. ASSUME NEW a \in {"none", "expired_offline"}, DriverSignOut(a) PROVE ChainInv'
  <2>1. /\ drvActive /\ drvAuth' = a /\ drvActive' = FALSE /\ drvTimeoutId' = 0
        /\ drvStarts' = drvStarts /\ drvRevived' = drvRevived
    BY <1>2 DEF DriverSignOut, stopBackgroundSync, ChainInv
  <2>2. drvTimeoutId \in Chains /\ drvTimeoutId # 0 /\ Living(drvTimeoutId)
    BY <2>1 DEF ChainInv, Chains
  <2>3. \/ drvChain[drvTimeoutId] = "timer" /\ drvChain' = [drvChain EXCEPT ![drvTimeoutId] = "ended"]
        \/ drvChain[drvTimeoutId] = "running" /\ drvChain' = drvChain
    BY <1>2, <2>2 DEF DriverSignOut, stopBackgroundSync, Living
  <2>4. \A c \in Chains : Living(c)' => Living(c)
    BY <2>2, <2>3 DEF ChainInv, Living
  <2>5. ~drvRevived => \A c \in Chains : drvChain'[c] # "timer"
    BY <2>2, <2>3 DEF ChainInv, Living
  <2>6. drvChain' \in [Chains -> {"unused", "timer", "running", "ended"}]
    BY <2>2, <2>3 DEF ChainInv
  <2> QED
    BY <2>1, <2>4, <2>5, <2>6 DEF ChainInv
<1>3. ASSUME NEW c \in Chains, TimerFires(c) PROVE ChainInv'
  <2>1. \A d \in Chains : Living(d)' <=> Living(d)
    BY <1>3 DEF TimerFires, ChainInv, Living
  <2>2. \A d \in Chains : drvChain'[d] = "timer" => drvChain[d] = "timer"
    BY <1>3 DEF TimerFires, ChainInv
  <2> QED
    BY <1>3, <2>1, <2>2 DEF TimerFires, ChainInv, Living
<1>4. ASSUME NEW c \in Chains, NEW threw \in BOOLEAN, _scheduleNext(c, threw) PROVE ChainInv'
  <2>1. CASE drvActive
    <3>1. drvChain' = [drvChain EXCEPT ![c] = "timer"] /\ drvTimeoutId' = c
      BY <1>4, <2>1 DEF _scheduleNext, GoesOn
    <3>2. \A d \in Chains : Living(d)' <=> Living(d)
      BY <1>4, <3>1 DEF _scheduleNext, ChainInv, Living
    <3> QED
      BY <1>4, <2>1, <3>1, <3>2 DEF _scheduleNext, ChainInv, Living
  <2>2. CASE ~drvActive
    <3>1. drvChain' = [drvChain EXCEPT ![c] = "ended"] /\ drvTimeoutId' = drvTimeoutId
      BY <1>4, <2>2 DEF _scheduleNext, GoesOn
    <3>2. \A d \in Chains : Living(d)' => Living(d)
      BY <3>1 DEF ChainInv, Living
    <3>3. \A d \in Chains : drvChain'[d] = "timer" => drvChain[d] = "timer"
      BY <3>1 DEF ChainInv
    <3> QED
      BY <1>4, <2>2, <3>1, <3>2, <3>3 DEF _scheduleNext, ChainInv
  <2> QED
    BY <2>1, <2>2
<1>5. CASE UNCHANGED <<drvAuth, drvActive, drvChain, drvTimeoutId, drvStarts, drvRevived>>
  BY <1>5 DEF ChainInv, Living
<1>6. FirstRunEnds \/ ChipClicked \/ handleOnline \/ StatusClears
        \/ (\E threw \in BOOLEAN : ManualEnds(threw)) \/ UNCHANGED driverVars
      => UNCHANGED <<drvAuth, drvActive, drvChain, drvTimeoutId, drvStarts, drvRevived>>
  BY DEF FirstRunEnds, ChipClicked, handleOnline, StatusClears, ManualEnds, driverVars, chainVars
<1> QED
  BY <1>1, <1>2, <1>3, <1>4, <1>5, <1>6 DEF DriverNext

(* The invariant holds of every behaviour.                                   *)
LEMMA ChainAlways == DriverSpec => []ChainInv
  BY ChainInit, ChainNext, PTL DEF DriverSpec

(* One chain at most, through any number of sessions, unless sync was        *)
(* started while a run of an older chain was under way (startBackgroundSync, *)
(* _scheduleNext).                                                           *)
THEOREM SingleChain == DriverSpec => []ChainIsSingle
<1>1. ChainInv => ChainIsSingle
  <2> SUFFICES ASSUME ChainInv, ~drvRevived PROVE Cardinality(Alive) <= 1
    BY DEF ChainIsSingle
  <2>1. CASE Alive = {}
    BY <2>1, FS_EmptySet
  <2>2. CASE Alive # {}
    <3>1. PICK c \in Alive : TRUE
      BY <2>2
    <3>2. Alive = {c}
      BY <3>1 DEF ChainInv, Living, Alive
    <3> QED
      BY <3>2, FS_Singleton
  <2> QED
    BY <2>1, <2>2
<1> QED
  BY <1>1, ChainAlways, PTL

(* Whoever is signed in has a chain that goes on, whatever the runs throw,   *)
(* and signing out leaves no timer, with the same exception                  *)
(* (stopBackgroundSync).                                                     *)
THEOREM ChainOfSession == DriverSpec => []ChainFollowsSession
<1>1. ChainInv => ChainFollowsSession
  BY DEF ChainInv, Living, ChainFollowsSession, Alive
<1> QED
  BY <1>1, ChainAlways, PTL

(* While no two clicks overlapped there is one manual run at most, so the    *)
(* one that ends is the one the chip shows.                                  *)
ChipInv ==
    /\ drvManual \in Nat /\ drvIsSyncing \in BOOLEAN /\ drvOverlapped \in BOOLEAN
    /\ ~drvOverlapped => \/ drvManual = 0 /\ drvIsSyncing = FALSE
                         \/ drvManual = 1 /\ drvIsSyncing = TRUE

(* triggerManualSync raises the flag and its end lowers it, also after an    *)
(* error (the finally block of Header.tsx).                                  *)
LEMMA ChipNext == ChipInv /\ [DriverNext]_driverVars => ChipInv'
<1> SUFFICES ASSUME ChipInv, [DriverNext]_driverVars PROVE ChipInv'
  OBVIOUS
<1>1. CASE triggerManualSync
  <2>1. drvManual' \in Nat /\ drvIsSyncing' = TRUE /\ drvOverlapped' \in BOOLEAN
    BY <1>1 DEF triggerManualSync, ChipInv
  <2>2. ~drvOverlapped' => ~drvOverlapped /\ ~(drvManual > 0)
    BY <1>1 DEF triggerManualSync, ChipInv
  <2>3. ~(drvManual > 0) => drvManual' = 1
    BY <1>1 DEF triggerManualSync, ChipInv
  <2> QED
    BY <2>1, <2>2, <2>3 DEF ChipInv
<1>2. ASSUME NEW threw \in BOOLEAN, ManualEnds(threw) PROVE ChipInv'
  <2>1. /\ drvManual > 0 /\ drvManual' = drvManual - 1
        /\ drvIsSyncing' = FALSE /\ drvOverlapped' = drvOverlapped
    BY <1>2, Zenon DEF ManualEnds
  <2>2. drvManual' \in Nat /\ drvManual # 0 /\ (drvManual = 1 => drvManual' = 0)
    BY <2>1 DEF ChipInv
  <2> QED
    BY <2>1, <2>2, Zenon DEF ChipInv
<1>3. CASE UNCHANGED <<drvManual, drvIsSyncing, drvOverlapped>>
  BY <1>3 DEF ChipInv
<1>4. DriverSignIn \/ (\E a \in {"none", "expired_offline"} : DriverSignOut(a))
        \/ (\E c \in Chains : TimerFires(c) \/ \E threw \in BOOLEAN : _scheduleNext(c, threw))
        \/ FirstRunEnds \/ StatusClears \/ UNCHANGED driverVars
      => UNCHANGED <<drvManual, drvIsSyncing, drvOverlapped>>
  BY DEF DriverSignIn, DriverSignOut, TimerFires, _scheduleNext, FirstRunEnds, StatusClears,
         driverVars, chipVars
<1>5. ChipClicked \/ handleOnline => triggerManualSync
  BY DEF ChipClicked, handleOnline
<1> QED
  BY <1>1, <1>2, <1>3, <1>4, <1>5 DEF DriverNext

(* The chip says that a sync is under way exactly while one it started is,   *)
(* unless two of them overlapped.                                            *)
THEOREM ChipTrue == DriverSpec => []ChipTellsTruth
<1>1. DriverInit => ChipInv
  <2> SUFFICES ASSUME DriverInit PROVE ChipInv
    OBVIOUS
  <2>1. drvManual = 0 /\ drvIsSyncing = FALSE /\ drvOverlapped = FALSE
    BY Zenon DEF DriverInit
  <2>2. drvManual \in Nat
    BY <2>1
  <2> QED
    BY <2>1, <2>2, Zenon DEF ChipInv
<1>2. ChipInv => ChipTellsTruth
  <2>1. (drvManual = 0 => ~(drvManual > 0)) /\ (drvManual = 1 => drvManual > 0)
    OBVIOUS
  <2> QED
    BY <2>1 DEF ChipInv, ChipTellsTruth
<1> QED
  BY <1>1, <1>2, ChipNext, PTL DEF DriverSpec
-----------------------------------------------------------------------------
(* What the variables of the service hold.                                   *)
ServiceTypes ==
    /\ txState \in [Txs -> {"none", "queued", "synced", "rejected"}]
    /\ opState \in [Txs -> {"none", "syncing", "confirmed", "failed", "gone"}]
    /\ pendingOps \subseteq Txs /\ batchLeft \subseteq Txs /\ batchFailed \in {"none", "no", "yes"}
    /\ syncStatus \in {"idle", "syncing", "synced", "error"}
    /\ runs \subseteq [no : Nat, step : {"token", "running"}] /\ runsStarted \in Nat
    /\ restoreStep \in {"none", "token", "fetch", "apply", "transactions"}
    /\ background \in {"none", "timer", "important", "background"}
    /\ restoreShown \in {"none", "waiting", "usable", "complete"}

(* The flags are flags.                                                      *)
ServiceFlags ==
    /\ coalescing \in BOOLEAN /\ syncInProgress \in BOOLEAN /\ criticalIn \in BOOLEAN
    /\ cursorSet \in BOOLEAN /\ thrown \in BOOLEAN /\ flushedLate \in BOOLEAN

(* The in-progress flag is up only while a run with a token or a restore is  *)
(* under way, and a batch has operations left only while its call is.        *)
WorkIsFlagged ==
    /\ syncInProgress => restoreStep # "none" \/ \E r \in runs : r.step = "running"
    /\ batchLeft # {} => batchFailed # "none"

(* Whatever follows the critical data of a restore has it stored.            *)
RestoreInOrder ==
    /\ restoreStep = "transactions" \/ background # "none" => criticalIn
    /\ UsableIsRestored

ServiceInv ==
    /\ ServiceTypes /\ ServiceFlags /\ WorkIsFlagged /\ IndicatorSettles
    /\ OptimisticSettles /\ RestoreInOrder
-----------------------------------------------------------------------------
(* Nothing is under way at the start.                                        *)
LEMMA ServiceStarts == ServiceInit => ServiceInv
<1> SUFFICES ASSUME ServiceInit PROVE ServiceInv
  OBVIOUS
<1> USE ServiceAssumption
<1>1. ServiceTypes
  BY DEF ServiceInit, ServiceTypes
<1>2. ServiceFlags
  BY Zenon DEF ServiceInit, ServiceFlags
<1>3. WorkIsFlagged
  BY DEF ServiceInit, WorkIsFlagged
<1>4. IndicatorSettles
  BY DEF ServiceInit, IndicatorSettles
<1>5. OptimisticSettles
  BY DEF ServiceInit, OptimisticSettles
<1>6. RestoreInOrder
  BY DEF ServiceInit, RestoreInOrder, UsableIsRestored
<1> QED
  BY <1>1, <1>2, <1>3, <1>4, <1>5, <1>6, Zenon DEF ServiceInv

(* A run that is asked for waits for its token.                              *)
LEMMA SyncRequestedKeeps == ServiceInv /\ SyncRequested => ServiceInv'
<1> SUFFICES ASSUME ServiceInv, SyncRequested PROVE ServiceInv'
  OBVIOUS
<1> USE ServiceAssumption
<1>1. ServiceTypes'
  BY DEF SyncRequested, triggerSync, ServiceTypes, ServiceInv, opVars, restoreModeVars
<1>2. ServiceFlags'
  BY DEF SyncRequested, ServiceFlags, ServiceInv, opVars, restoreModeVars
<1>3. WorkIsFlagged'
  BY DEF SyncRequested, WorkIsFlagged, ServiceInv, opVars
<1>4. IndicatorSettles'
  BY DEF SyncRequested, triggerSync, IndicatorSettles, ServiceInv, opVars, restoreModeVars
<1>5. OptimisticSettles'
  BY DEF SyncRequested, OptimisticSettles, ServiceInv, opVars
<1>6. RestoreInOrder'
  BY DEF SyncRequested, RestoreInOrder, ServiceInv, UsableIsRestored, restoreModeVars
<1> QED
  BY <1>1, <1>2, <1>3, <1>4, <1>5, <1>6, Zenon DEF ServiceInv

(* A run with a token raises the flag, one without it leaves an error or     *)
(* throws.                                                                   *)
LEMMA RunGetsTokenKeeps ==
    ASSUME NEW r \in runs, ServiceInv, RunGetsToken(r)
    PROVE  ServiceInv'
<1> USE ServiceAssumption
<1>a. \/ /\ runs' = (runs \ {r}) \cup {[r EXCEPT !.step = "running"]} /\ UNCHANGED <<restoreStep,
                                                                                     batchFailed, batchLeft>>
      \/ /\ runs' = runs \ {r} /\ syncStatus' = "error" /\ UNCHANGED <<syncInProgress, restoreStep,
                                                                       batchFailed, batchLeft>>
      \/ /\ runs' = runs \ {r} /\ thrown' /\ UNCHANGED <<syncInProgress, restoreStep, batchFailed, batchLeft>>
  BY Zenon DEF RunGetsToken, restoreModeVars, opVars
<1>b. r.step = "token" /\ [r EXCEPT !.step = "running"].step = "running"
  BY DEF RunGetsToken, ServiceInv, ServiceTypes
<1>c. \/ \E x \in runs' : x.step = "running"
      \/ /\ \A x \in runs : x.step = "running" => x \in runs'
         /\ syncInProgress' = syncInProgress /\ (syncStatus' = "error" \/ thrown')
  BY <1>a, <1>b
<1>d. UNCHANGED <<restoreStep, batchFailed, batchLeft>>
  BY <1>a, Zenon
<1>1. ServiceTypes'
  BY DEF RunGetsToken, ServiceTypes, ServiceInv, opVars, restoreModeVars
<1>2. ServiceFlags'
  BY Zenon DEF RunGetsToken, ServiceFlags, ServiceInv, opVars, restoreModeVars
<1>3. WorkIsFlagged'
  BY <1>c, <1>d DEF WorkIsFlagged, ServiceInv
<1>4. IndicatorSettles'
  BY <1>c, <1>d DEF IndicatorSettles
<1>5. OptimisticSettles'
  BY DEF RunGetsToken, OptimisticSettles, ServiceInv, opVars
<1>6. RestoreInOrder'
  BY DEF RunGetsToken, RestoreInOrder, ServiceInv, UsableIsRestored, restoreModeVars
<1> QED
  BY <1>1, <1>2, <1>3, <1>4, <1>5, <1>6, Zenon DEF ServiceInv

(* A receipt confirms the optimistic update or takes it back.                *)
LEMMA ReceiptArrivesKeeps ==
    ASSUME NEW r \in runs, NEW t \in Txs, NEW accepted \in BOOLEAN, ServiceInv, ReceiptArrives(r, t, accepted)
    PROVE  ServiceInv'
<1> USE ServiceAssumption
<1>1. ServiceTypes'
  BY DEF ReceiptArrives, AfterReceipt, _confirmOptimisticUpdate, rollbackOptimisticUpdate, ServiceTypes,
         ServiceInv, restoreModeVars, flagVars
<1>2. ServiceFlags'
  BY DEF ReceiptArrives, ServiceFlags, ServiceInv, restoreModeVars, flagVars
<1>3. WorkIsFlagged'
  BY DEF ReceiptArrives, WorkIsFlagged, ServiceInv, flagVars
<1>4. IndicatorSettles'
  BY DEF ReceiptArrives, IndicatorSettles, flagVars
<1>5. OptimisticSettles'
  BY DEF ReceiptArrives, AfterReceipt, _confirmOptimisticUpdate, rollbackOptimisticUpdate, ServiceTypes,
         OptimisticSettles, ServiceInv
<1>6. RestoreInOrder'
  BY DEF ReceiptArrives, RestoreInOrder, ServiceInv, UsableIsRestored, restoreModeVars
<1> QED
  BY <1>1, <1>2, <1>3, <1>4, <1>5, <1>6, Zenon DEF ServiceInv

(* A run that ends sets the indicator and lowers the flag.                   *)
LEMMA RunEndsKeeps ==
    ASSUME NEW r \in runs, NEW outcome \in {"error", "synced"}, ServiceInv, RunEnds(r, outcome)
    PROVE  ServiceInv'
<1> USE ServiceAssumption
<1>1. ServiceTypes'
  BY DEF RunEnds, ServiceTypes, ServiceInv, opVars, restoreModeVars
<1>2. ServiceFlags'
  BY Zenon DEF RunEnds, ServiceFlags, ServiceInv, opVars, restoreModeVars
<1>3. WorkIsFlagged'
  BY DEF RunEnds, WorkIsFlagged, ServiceInv, opVars
<1>4. IndicatorSettles'
  BY DEF RunEnds, IndicatorSettles
<1>5. OptimisticSettles'
  BY DEF RunEnds, OptimisticSettles, ServiceInv, opVars
<1>6. RestoreInOrder'
  BY DEF RunEnds, RestoreInOrder, ServiceInv, UsableIsRestored, restoreModeVars
<1> QED
  BY <1>1, <1>2, <1>3, <1>4, <1>5, <1>6, Zenon DEF ServiceInv

(* A run that throws is noted.                                               *)
LEMMA RunThrowsKeeps ==
    ASSUME NEW r \in runs, ServiceInv, RunThrows(r)
    PROVE  ServiceInv'
<1> USE ServiceAssumption
<1>1. ServiceTypes'
  BY DEF RunThrows, ServiceTypes, ServiceInv, opVars, restoreModeVars
<1>2. ServiceFlags'
  BY Zenon DEF RunThrows, ServiceFlags, ServiceInv, opVars, restoreModeVars
<1>3. WorkIsFlagged'
  BY DEF RunThrows, WorkIsFlagged, ServiceInv, opVars
<1>4. IndicatorSettles'
  BY DEF RunThrows, IndicatorSettles
<1>5. OptimisticSettles'
  BY DEF RunThrows, OptimisticSettles, ServiceInv, opVars
<1>6. RestoreInOrder'
  BY DEF RunThrows, RestoreInOrder, ServiceInv, UsableIsRestored, restoreModeVars
<1> QED
  BY <1>1, <1>2, <1>3, <1>4, <1>5, <1>6, Zenon DEF ServiceInv

(* A recorded transaction is queued.                                         *)
LEMMA RecordTxKeeps ==
    ASSUME NEW t \in Txs, ServiceInv, RecordTx(t)
    PROVE  ServiceInv'
<1> USE ServiceAssumption
<1>1. ServiceTypes'
  BY DEF RecordTx, ServiceTypes, ServiceInv, restoreModeVars, flagVars
<1>2. ServiceFlags'
  BY DEF RecordTx, ServiceFlags, ServiceInv, restoreModeVars, flagVars
<1>3. WorkIsFlagged'
  BY DEF RecordTx, WorkIsFlagged, ServiceInv, restoreModeVars, flagVars
<1>4. IndicatorSettles'
  BY DEF RecordTx, IndicatorSettles, ServiceInv, restoreModeVars, flagVars
<1>5. OptimisticSettles'
  BY DEF RecordTx, OptimisticSettles, ServiceInv
<1>6. RestoreInOrder'
  BY DEF RecordTx, RestoreInOrder, ServiceInv, UsableIsRestored, restoreModeVars
<1> QED
  BY <1>1, <1>2, <1>3, <1>4, <1>5, <1>6, Zenon DEF ServiceInv

(* An operation waits to be coalesced.                                       *)
LEMMA EnqueueKeeps ==
    ASSUME NEW t \in Txs, ServiceInv, enqueueStockOperation(t)
    PROVE  ServiceInv'
<1> USE ServiceAssumption
<1>1. ServiceTypes'
  BY DEF enqueueStockOperation, ServiceTypes, ServiceInv, restoreModeVars, flagVars
<1>2. ServiceFlags'
  BY DEF enqueueStockOperation, ServiceFlags, ServiceInv, restoreModeVars, flagVars
<1>3. WorkIsFlagged'
  BY DEF enqueueStockOperation, WorkIsFlagged, ServiceInv, restoreModeVars, flagVars
<1>4. IndicatorSettles'
  BY DEF enqueueStockOperation, IndicatorSettles, ServiceInv, restoreModeVars, flagVars
<1>5. OptimisticSettles'
  BY DEF enqueueStockOperation, OptimisticSettles, ServiceInv
<1>6. RestoreInOrder'
  BY DEF enqueueStockOperation, RestoreInOrder, ServiceInv, UsableIsRestored, restoreModeVars
<1> QED
  BY <1>1, <1>2, <1>3, <1>4, <1>5, <1>6, Zenon DEF ServiceInv

(* A flush registers the operations and asks for a run, unless one is under  *)
(* way.                                                                      *)
LEMMA FlushKeeps == ServiceInv /\ _flushPendingOperations => ServiceInv'
<1> SUFFICES ASSUME ServiceInv, _flushPendingOperations PROVE ServiceInv'
  OBVIOUS
<1> USE ServiceAssumption
<1>a. runs' # {} \/ (syncInProgress /\ runs' = runs)
  <2>1. CASE syncInProgress
    BY <2>1, Zenon DEF _flushPendingOperations, triggerSync
  <2>2. CASE ~syncInProgress
    <3>1. runs' = runs \cup {[no |-> runsStarted, step |-> "token"]}
      BY <2>2, Zenon DEF _flushPendingOperations, triggerSync
    <3> QED
      BY <3>1
  <2> QED
    BY <2>1, <2>2
<1>b. /\ ~flushedLate' => ~flushedLate /\ \A t \in pendingOps : txState[t] = "queued"
      /\ txState' = txState
      /\ opState' = [t \in Txs |-> IF t \in pendingOps THEN "syncing" ELSE opState[t]]
  BY Zenon DEF _flushPendingOperations
<1>1. ServiceTypes'
  BY DEF _flushPendingOperations, triggerSync, ServiceTypes, ServiceInv, restoreModeVars
<1>2. ServiceFlags'
  BY Zenon DEF _flushPendingOperations, triggerSync, ServiceFlags, ServiceInv, opVars, restoreModeVars
<1>3. WorkIsFlagged'
  BY DEF _flushPendingOperations, triggerSync, WorkIsFlagged, ServiceInv, restoreModeVars
<1>4. IndicatorSettles'
  BY <1>a DEF _flushPendingOperations, WorkIsFlagged, IndicatorSettles, ServiceInv, restoreModeVars
<1>5. OptimisticSettles'
  BY <1>b DEF OptimisticSettles, ServiceInv
<1>6. RestoreInOrder'
  BY DEF _flushPendingOperations, RestoreInOrder, ServiceInv, UsableIsRestored, restoreModeVars
<1> QED
  BY <1>1, <1>2, <1>3, <1>4, <1>5, <1>6, Zenon DEF ServiceInv

(* An optimistic update is registered before its receipt.                    *)
LEMMA ApplyOptimisticKeeps ==
    ASSUME NEW t \in Txs, ServiceInv, applyOptimisticUpdate(t)
    PROVE  ServiceInv'
<1> USE ServiceAssumption
<1>1. ServiceTypes'
  BY DEF applyOptimisticUpdate, ServiceTypes, ServiceInv, restoreModeVars, flagVars
<1>2. ServiceFlags'
  BY DEF applyOptimisticUpdate, ServiceFlags, ServiceInv, restoreModeVars, flagVars
<1>3. WorkIsFlagged'
  BY DEF applyOptimisticUpdate, WorkIsFlagged, ServiceInv, restoreModeVars, flagVars
<1>4. IndicatorSettles'
  BY DEF applyOptimisticUpdate, IndicatorSettles, ServiceInv, restoreModeVars, flagVars
<1>5. OptimisticSettles'
  BY DEF applyOptimisticUpdate, OptimisticSettles, ServiceInv
<1>6. RestoreInOrder'
  BY DEF applyOptimisticUpdate, RestoreInOrder, ServiceInv, UsableIsRestored, restoreModeVars
<1> QED
  BY <1>1, <1>2, <1>3, <1>4, <1>5, <1>6, Zenon DEF ServiceInv

(* A batch begins with what is not recorded yet.                             *)
LEMMA BatchStartsKeeps == ServiceInv /\ batchStockOperations => ServiceInv'
<1> SUFFICES ASSUME ServiceInv, batchStockOperations PROVE ServiceInv'
  OBVIOUS
<1> USE ServiceAssumption
<1>1. ServiceTypes'
  BY DEF batchStockOperations, ServiceTypes, ServiceInv, restoreModeVars
<1>2. ServiceFlags'
  BY DEF batchStockOperations, ServiceFlags, ServiceInv, restoreModeVars
<1>3. WorkIsFlagged'
  BY DEF batchStockOperations, WorkIsFlagged, ServiceInv, restoreModeVars
<1>4. IndicatorSettles'
  BY DEF batchStockOperations, IndicatorSettles
<1>5. OptimisticSettles'
  BY DEF batchStockOperations, OptimisticSettles, ServiceInv
<1>6. RestoreInOrder'
  BY DEF batchStockOperations, RestoreInOrder, ServiceInv, UsableIsRestored, restoreModeVars
<1> QED
  BY <1>1, <1>2, <1>3, <1>4, <1>5, <1>6, Zenon DEF ServiceInv

(* An operation of the batch is recorded, or fails.                          *)
LEMMA BatchStepKeeps ==
    ASSUME NEW t \in batchLeft, NEW ok \in BOOLEAN, ServiceInv, BatchStep(t, ok)
    PROVE  ServiceInv'
<1> USE ServiceAssumption
<1>1. ServiceTypes'
  BY DEF BatchStep, ServiceTypes, ServiceInv, restoreModeVars
<1>2. ServiceFlags'
  BY DEF BatchStep, ServiceFlags, ServiceInv, restoreModeVars
<1>3. WorkIsFlagged'
  BY DEF BatchStep, WorkIsFlagged, ServiceInv, restoreModeVars
<1>4. IndicatorSettles'
  BY DEF BatchStep, WorkIsFlagged, IndicatorSettles, ServiceInv
<1>5. OptimisticSettles'
  BY DEF BatchStep, OptimisticSettles, ServiceInv
<1>6. RestoreInOrder'
  BY DEF BatchStep, RestoreInOrder, ServiceInv, UsableIsRestored, restoreModeVars
<1> QED
  BY <1>1, <1>2, <1>3, <1>4, <1>5, <1>6, Zenon DEF ServiceInv

(* The batch ends and sets the indicator.                                    *)
LEMMA BatchEndsKeeps == ServiceInv /\ BatchEnds => ServiceInv'
<1> SUFFICES ASSUME ServiceInv, BatchEnds PROVE ServiceInv'
  OBVIOUS
<1> USE ServiceAssumption
<1>1. ServiceTypes'
  BY DEF BatchEnds, ServiceTypes, ServiceInv, restoreModeVars
<1>2. ServiceFlags'
  BY DEF BatchEnds, ServiceFlags, ServiceInv, restoreModeVars
<1>3. WorkIsFlagged'
  BY DEF BatchEnds, WorkIsFlagged, ServiceInv, restoreModeVars
<1>4. IndicatorSettles'
  BY DEF BatchEnds, IndicatorSettles
<1>5. OptimisticSettles'
  BY DEF BatchEnds, OptimisticSettles, ServiceInv
<1>6. RestoreInOrder'
  BY DEF BatchEnds, RestoreInOrder, ServiceInv, UsableIsRestored, restoreModeVars
<1> QED
  BY <1>1, <1>2, <1>3, <1>4, <1>5, <1>6, Zenon DEF ServiceInv

(* A restore raises the flag at once.                                        *)
LEMMA RestoreStartsKeeps == ServiceInv /\ triggerRestoreSync => ServiceInv'
<1> SUFFICES ASSUME ServiceInv, triggerRestoreSync PROVE ServiceInv'
  OBVIOUS
<1> USE ServiceAssumption
<1>1. ServiceTypes'
  BY DEF triggerRestoreSync, ServiceTypes, ServiceInv, opVars
<1>2. ServiceFlags'
  BY DEF triggerRestoreSync, ServiceFlags, ServiceInv, opVars
<1>3. WorkIsFlagged'
  BY DEF triggerRestoreSync, WorkIsFlagged, ServiceInv, opVars
<1>4. IndicatorSettles'
  BY DEF triggerRestoreSync, IndicatorSettles
<1>5. OptimisticSettles'
  BY DEF triggerRestoreSync, OptimisticSettles, ServiceInv, opVars
<1>6. RestoreInOrder'
  BY DEF triggerRestoreSync, RestoreInOrder, ServiceInv, UsableIsRestored
<1> QED
  BY <1>1, <1>2, <1>3, <1>4, <1>5, <1>6, Zenon DEF ServiceInv

(* A restore that fails lowers the flag and shows the error.                 *)
LEMMA RestoreFailsKeeps == ServiceInv /\ RestoreFails => ServiceInv'
<1> SUFFICES ASSUME ServiceInv, RestoreFails PROVE ServiceInv'
  OBVIOUS
<1> USE ServiceAssumption
<1>1. ServiceTypes'
  BY DEF RestoreFails, ServiceTypes, ServiceInv, opVars
<1>2. ServiceFlags'
  BY Zenon DEF RestoreFails, ServiceFlags, ServiceInv, opVars, restoreModeVars
<1>3. WorkIsFlagged'
  BY DEF RestoreFails, WorkIsFlagged, ServiceInv, opVars
<1>4. IndicatorSettles'
  BY DEF RestoreFails, IndicatorSettles
<1>5. OptimisticSettles'
  BY DEF RestoreFails, OptimisticSettles, ServiceInv, opVars
<1>6. RestoreInOrder'
  BY DEF RestoreFails, RestoreInOrder, ServiceInv, UsableIsRestored
<1> QED
  BY <1>1, <1>2, <1>3, <1>4, <1>5, <1>6, Zenon DEF ServiceInv

(* A restore that goes on shows that it waits.                               *)
LEMMA RestoreGoesOnKeeps == ServiceInv /\ RestoreGoesOn => ServiceInv'
<1> SUFFICES ASSUME ServiceInv, RestoreGoesOn PROVE ServiceInv'
  OBVIOUS
<1> USE ServiceAssumption
<1>1. ServiceTypes'
  BY DEF RestoreGoesOn, ServiceTypes, ServiceInv, opVars, flagVars
<1>2. ServiceFlags'
  BY DEF RestoreGoesOn, ServiceFlags, ServiceInv, opVars, flagVars
<1>3. WorkIsFlagged'
  BY DEF RestoreGoesOn, WorkIsFlagged, ServiceInv, opVars
<1>4. IndicatorSettles'
  BY DEF RestoreGoesOn, IndicatorSettles
<1>5. OptimisticSettles'
  BY DEF RestoreGoesOn, OptimisticSettles, ServiceInv, opVars
<1>6. RestoreInOrder'
  BY DEF RestoreGoesOn, RestoreInOrder, ServiceInv, UsableIsRestored
<1> QED
  BY <1>1, <1>2, <1>3, <1>4, <1>5, <1>6, Zenon DEF ServiceInv

(* The critical data is stored.                                              *)
LEMMA CriticalStoredKeeps == ServiceInv /\ CriticalStored => ServiceInv'
<1> SUFFICES ASSUME ServiceInv, CriticalStored PROVE ServiceInv'
  OBVIOUS
<1> USE ServiceAssumption
<1>1. ServiceTypes'
  BY DEF CriticalStored, ServiceTypes, ServiceInv, opVars, flagVars
<1>2. ServiceFlags'
  BY DEF CriticalStored, ServiceFlags, ServiceInv, opVars, flagVars
<1>3. WorkIsFlagged'
  BY DEF CriticalStored, WorkIsFlagged, ServiceInv, opVars
<1>4. IndicatorSettles'
  BY DEF CriticalStored, IndicatorSettles
<1>5. OptimisticSettles'
  BY DEF CriticalStored, OptimisticSettles, ServiceInv, opVars
<1>6. RestoreInOrder'
  BY DEF CriticalStored, RestoreInOrder, UsableIsRestored
<1> QED
  BY <1>1, <1>2, <1>3, <1>4, <1>5, <1>6, Zenon DEF ServiceInv

(* The restore ends with its critical data stored.                           *)
LEMMA RestoreEndsKeeps == ServiceInv /\ RestoreEnds => ServiceInv'
<1> SUFFICES ASSUME ServiceInv, RestoreEnds PROVE ServiceInv'
  OBVIOUS
<1> USE ServiceAssumption
<1>1. ServiceTypes'
  BY DEF RestoreEnds, ServiceTypes, ServiceInv, opVars
<1>2. ServiceFlags'
  BY Zenon DEF RestoreEnds, ServiceFlags, ServiceInv, opVars, restoreModeVars
<1>3. WorkIsFlagged'
  BY DEF RestoreEnds, WorkIsFlagged, ServiceInv, opVars
<1>4. IndicatorSettles'
  BY DEF RestoreEnds, IndicatorSettles
<1>5. OptimisticSettles'
  BY DEF RestoreEnds, OptimisticSettles, ServiceInv, opVars
<1>6. RestoreInOrder'
  BY DEF RestoreEnds, RestoreInOrder, ServiceInv, UsableIsRestored
<1> QED
  BY <1>1, <1>2, <1>3, <1>4, <1>5, <1>6, Zenon DEF ServiceInv

(* The background phase follows a restore that has ended.                    *)
LEMMA BackgroundKeeps == ServiceInv /\ triggerBackgroundRestore => ServiceInv'
<1> SUFFICES ASSUME ServiceInv, triggerBackgroundRestore PROVE ServiceInv'
  OBVIOUS
<1> USE ServiceAssumption
<1>1. ServiceTypes'
  BY DEF triggerBackgroundRestore, ServiceTypes, ServiceInv, opVars, flagVars
<1>2. ServiceFlags'
  BY DEF triggerBackgroundRestore, ServiceFlags, ServiceInv, opVars, flagVars
<1>3. WorkIsFlagged'
  BY DEF triggerBackgroundRestore, WorkIsFlagged, ServiceInv, opVars, flagVars
<1>4. IndicatorSettles'
  BY DEF triggerBackgroundRestore, IndicatorSettles, ServiceInv, opVars, flagVars
<1>5. OptimisticSettles'
  BY DEF triggerBackgroundRestore, OptimisticSettles, ServiceInv, opVars
<1>6. RestoreInOrder'
  BY DEF triggerBackgroundRestore, RestoreInOrder, ServiceInv, UsableIsRestored
<1> QED
  BY <1>1, <1>2, <1>3, <1>4, <1>5, <1>6, Zenon DEF ServiceInv

(* A step of another part leaves the service alone.                          *)
LEMMA ServiceRests == ServiceInv /\ UNCHANGED serviceVars => ServiceInv'
<1> SUFFICES ASSUME ServiceInv, UNCHANGED serviceVars PROVE ServiceInv'
  OBVIOUS
<1>0. ServiceFlags'
  BY Zenon DEF serviceVars, ServiceInv, ServiceFlags
<1>1. ServiceTypes' /\ ServiceFlags'
  BY <1>0 DEF serviceVars, ServiceInv, ServiceTypes
<1>2. WorkIsFlagged' /\ IndicatorSettles'
  BY DEF serviceVars, ServiceInv, WorkIsFlagged, IndicatorSettles
<1>3. OptimisticSettles' /\ RestoreInOrder'
  BY DEF serviceVars, ServiceInv, OptimisticSettles, RestoreInOrder, UsableIsRestored
<1> QED
  BY <1>1, <1>2, <1>3, Zenon DEF ServiceInv

(* Every step keeps the invariant of the service.                            *)
LEMMA ServiceKeeps == ServiceInv /\ [ServiceNext]_serviceVars => ServiceInv'
<1> SUFFICES ASSUME ServiceInv, [ServiceNext]_serviceVars PROVE ServiceInv'
  OBVIOUS
<1>1. ASSUME NEW r \in runs, RunGetsToken(r) \/ RunThrows(r) PROVE ServiceInv'
  BY <1>1, RunGetsTokenKeeps, RunThrowsKeeps, Zenon
<1>2. ASSUME NEW r \in runs, NEW outcome \in {"error", "synced"}, RunEnds(r, outcome) PROVE ServiceInv'
  BY <1>2, RunEndsKeeps, Zenon
<1>3. ASSUME NEW r \in runs, NEW t \in Txs, NEW accepted \in BOOLEAN, ReceiptArrives(r, t, accepted)
      PROVE  ServiceInv'
  BY <1>3, ReceiptArrivesKeeps, Zenon
<1>4. ASSUME NEW t \in Txs, RecordTx(t) \/ enqueueStockOperation(t) \/ applyOptimisticUpdate(t)
      PROVE  ServiceInv'
  BY <1>4, RecordTxKeeps, EnqueueKeeps, ApplyOptimisticKeeps, Zenon
<1>5. ASSUME NEW t \in batchLeft, NEW ok \in BOOLEAN, BatchStep(t, ok) PROVE ServiceInv'
  BY <1>5, BatchStepKeeps, Zenon
<1> QED
  BY <1>1, <1>2, <1>3, <1>4, <1>5, SyncRequestedKeeps, FlushKeeps, BatchStartsKeeps, BatchEndsKeeps,
     RestoreStartsKeeps, RestoreFailsKeeps, RestoreGoesOnKeeps, CriticalStoredKeeps, RestoreEndsKeeps,
     BackgroundKeeps, ServiceRests, Zenon DEF ServiceNext

(* The indicator settles, optimistic updates settle, and a restore that is   *)
(* called usable has stored its critical data (triggerSync,                  *)
(* _confirmOptimisticUpdate, triggerRestoreSync).                            *)
THEOREM ServiceIsTended ==
    ServiceInit /\ [][ServiceNext]_serviceVars => [](IndicatorSettles /\ OptimisticSettles /\ UsableIsRestored)
<1>1. ServiceInv => IndicatorSettles /\ OptimisticSettles /\ UsableIsRestored
  BY Zenon DEF ServiceInv, RestoreInOrder
<1> QED
  BY <1>1, ServiceStarts, ServiceKeeps, PTL
-----------------------------------------------------------------------------
(* The ids that are about are ids that were generated.                       *)
DeviceTypes ==
    /\ devRuns \in [BootRuns -> [stage : {"none", "reading", "writing", "set", "done"}, id : Nat]]
    /\ devIds \in Nat /\ devStored \in Nat /\ deviceId \in Nat /\ devUnsure \in BOOLEAN
    /\ devStored <= devIds /\ deviceId <= devIds
    /\ \A r \in BootRuns :
          /\ devRuns[r].id <= devIds
          /\ devRuns[r].stage = "writing" => devRuns[r].id # 0

(* Before an id is saved at most one run has generated one and none uses it; *)
(* once it is saved no run is about to write another, and all use that one.  *)
OneDeviceId ==
    ~devUnsure =>
      /\ devStored = 0 =>
           /\ devUsed = {}
           /\ \A r \in BootRuns : devRuns[r].stage \notin {"set", "done"}
           /\ \A r, q \in BootRuns : devRuns[r].stage = "writing" /\ devRuns[q].stage = "writing" => r = q
      /\ devStored # 0 =>
           /\ devUsed \subseteq {devStored}
           /\ \A r \in BootRuns : devRuns[r].stage # "writing"
           /\ \A r \in BootRuns : devRuns[r].stage \in {"set", "done"} => devRuns[r].id = devStored

DeviceInv == DeviceTypes /\ OneDeviceId

(* There is no id at first.                                                  *)
LEMMA DeviceStarts == DeviceInit => DeviceInv
<1> SUFFICES ASSUME DeviceInit PROVE DeviceInv
  OBVIOUS
<1> USE DeviceAssumption
<1>1. DeviceTypes
  <2>1. devUnsure = FALSE /\ devRuns = Mounted /\ deviceId = 0 /\ devStored = 0 /\ devIds = 0
    BY Zenon DEF DeviceInit
  <2>2. /\ Mounted \in [BootRuns -> [stage : {"none", "reading", "writing", "set", "done"}, id : Nat]]
        /\ \A r \in BootRuns : Mounted[r].id = 0 /\ Mounted[r].stage # "writing"
    BY DEF Mounted, BootRuns
  <2>3. 0 \in Nat /\ 0 <= 0
    OBVIOUS
  <2>4. \A r \in BootRuns : devRuns[r].id = 0 /\ devRuns[r].stage # "writing"
    BY <2>1, <2>2, Zenon
  <2> QED
    BY <2>1, <2>2, <2>3, <2>4, Zenon DEF DeviceTypes
<1>2. OneDeviceId
  BY DEF DeviceInit, Mounted, OneDeviceId
<1> QED
  BY <1>1, <1>2, Zenon DEF DeviceInv

(* A run that finds the id takes it.                                         *)
LEMMA ReadIdKeeps ==
    ASSUME NEW r \in BootRuns, DeviceInv, _readStoredDeviceId(r)
    PROVE  DeviceInv'
<1> USE DeviceAssumption
<1>1. DeviceTypes'
  BY DEF _readStoredDeviceId, DeviceTypes, DeviceInv
<1>2. OneDeviceId'
  BY DEF _readStoredDeviceId, OneDeviceId, DeviceInv
<1> QED
  BY <1>1, <1>2, Zenon DEF DeviceInv

(* A run that finds none generates one, alone or noted.                      *)
LEMMA GenerateIdKeeps ==
    ASSUME NEW r \in BootRuns, DeviceInv, _generateDeviceId(r)
    PROVE  DeviceInv'
<1> USE DeviceAssumption
<1>a. ~devUnsure' => ~devUnsure /\ \A q \in BootRuns \ {r} : devRuns[q].stage \notin {"reading", "writing"}
  BY Zenon DEF _generateDeviceId
<1>1. DeviceTypes'
  BY DEF _generateDeviceId, DeviceTypes, DeviceInv
<1>2. OneDeviceId'
  BY <1>a DEF _generateDeviceId, OneDeviceId, DeviceInv
<1> QED
  BY <1>1, <1>2, Zenon DEF DeviceInv

(* The id is saved, or the failure is noted.                                 *)
LEMMA WriteIdKeeps ==
    ASSUME NEW r \in BootRuns, NEW ok \in BOOLEAN, DeviceInv, _writeStoredDeviceId(r, ok)
    PROVE  DeviceInv'
<1> USE DeviceAssumption
<1>a. ~devUnsure' => ~devUnsure /\ ok
  BY Zenon DEF _writeStoredDeviceId
<1>1. DeviceTypes'
  BY DEF _writeStoredDeviceId, DeviceTypes, DeviceInv
<1>2. OneDeviceId'
  BY <1>a DEF _writeStoredDeviceId, DeviceTypes, OneDeviceId, DeviceInv
<1> QED
  BY <1>1, <1>2, Zenon DEF DeviceInv

(* The application uses the id of the run.                                   *)
LEMMA UseIdKeeps ==
    ASSUME NEW r \in BootRuns, DeviceInv, getOrCreateDeviceId(r)
    PROVE  DeviceInv'
<1> USE DeviceAssumption
<1>1. DeviceTypes'
  BY DEF getOrCreateDeviceId, DeviceTypes, DeviceInv
<1>2. OneDeviceId'
  BY DEF getOrCreateDeviceId, OneDeviceId, DeviceInv
<1> QED
  BY <1>1, <1>2, Zenon DEF DeviceInv

(* The second run begins by reading.                                         *)
LEMMA RunsAgainKeeps == DeviceInv /\ EffectRunsAgain => DeviceInv'
<1> SUFFICES ASSUME DeviceInv, EffectRunsAgain PROVE DeviceInv'
  OBVIOUS
<1> USE DeviceAssumption
<1>1. DeviceTypes'
  BY DEF EffectRunsAgain, DeviceTypes, DeviceInv, BootRuns
<1>2. OneDeviceId'
  BY DEF EffectRunsAgain, OneDeviceId, DeviceInv
<1> QED
  BY <1>1, <1>2, Zenon DEF DeviceInv

(* A restart forgets all but what is saved; one that interrupts a write is   *)
(* noted.                                                                    *)
LEMMA DeviceRestartKeeps == DeviceInv /\ DeviceRestart => DeviceInv'
<1> SUFFICES ASSUME DeviceInv, DeviceRestart PROVE DeviceInv'
  OBVIOUS
<1> USE DeviceAssumption
<1>1. DeviceTypes'
  BY DEF DeviceRestart, Mounted, DeviceTypes, DeviceInv
<1>2. OneDeviceId'
  BY DEF DeviceRestart, Mounted, DeviceTypes, OneDeviceId, DeviceInv
<1> QED
  BY <1>1, <1>2, Zenon DEF DeviceInv

(* Every step keeps the invariant of the device id.                          *)
LEMMA DeviceKeeps == DeviceInv /\ [DeviceNext]_deviceVars => DeviceInv'
<1> SUFFICES ASSUME DeviceInv, [DeviceNext]_deviceVars PROVE DeviceInv'
  OBVIOUS
<1>1. ASSUME NEW r \in BootRuns, _readStoredDeviceId(r) \/ _generateDeviceId(r) \/ getOrCreateDeviceId(r)
      PROVE  DeviceInv'
  BY <1>1, ReadIdKeeps, GenerateIdKeeps, UseIdKeeps, Zenon
<1>2. ASSUME NEW r \in BootRuns, NEW ok \in BOOLEAN, _writeStoredDeviceId(r, ok) PROVE DeviceInv'
  BY <1>2, WriteIdKeeps, Zenon
<1>3. CASE UNCHANGED deviceVars
  BY <1>3 DEF deviceVars, DeviceInv, DeviceTypes, OneDeviceId
<1> QED
  BY <1>1, <1>2, <1>3, RunsAgainKeeps, DeviceRestartKeeps, Zenon DEF DeviceNext

(* The device keeps its id over any number of restarts, unless two runs of   *)
(* the effect generated one each or one was not saved (getOrCreateDeviceId). *)
THEOREM DeviceIdStable == DeviceInit /\ [][DeviceNext]_deviceVars => []DeviceIdIsStable
<1>1. DeviceInv => DeviceIdIsStable
  <2> SUFFICES ASSUME DeviceInv, ~devUnsure PROVE Cardinality(devUsed) <= 1
    BY DEF DeviceIdIsStable
  <2>1. devUsed = {} \/ devUsed = {devStored}
    BY DEF DeviceInv, OneDeviceId
  <2>2. Cardinality({}) = 0 /\ Cardinality({devStored}) = 1
    BY FS_EmptySet, FS_Singleton, Zenon
  <2> QED
    BY <2>1, <2>2
<1> QED
  BY <1>1, DeviceStarts, DeviceKeeps, PTL
-----------------------------------------------------------------------------
PushKinds == {"POST", "PATCH", "TOGGLE"}
Pushes == [kind : PushKinds, name : Nat, left : Int]
Loops == [busy : BOOLEAN, items : Seq(Pushes)]

(* Somewhere a push of this kind and name is under way or queued.            *)
Queued(q, k, n) == \E i \in DOMAIN q : q[i].kind = k /\ q[i].name = n
Direct(ps, k, n) == \E p \in ps : p.kind = k /\ p.name = n
PendingIn(ps, q, w, k, n) == Direct(ps, k, n) \/ Queued(q, k, n) \/ Queued(w, k, n)
Pending(k, n) == PendingIn(pushes, pushQueue, working.items, k, n)
PendingNext(k, n) == PendingIn(pushes', pushQueue', working'.items, k, n)

(* What the variables of the pushes hold; the loop has items only while it   *)
(* runs.                                                                     *)
PushTypes ==
    /\ dbName \in Nat /\ srvName \in Nat /\ edits \in Nat /\ dbName <= edits /\ srvName <= dbName
    /\ pushes \subseteq Pushes /\ pushQueue \in Seq(Pushes) /\ working \in Loops
    /\ working.items # <<>> => working.busy

(* Names grow from edit to edit: the creation has the first one, the last    *)
(* name is that of the last creation or renaming, and while that is the      *)
(* creation the server has no other name.                                    *)
NameInv ==
    /\ \A k \in PushKinds, n \in Nat : Pending(k, n) =>
          /\ 0 < n /\ n <= edits
          /\ IF k = "TOGGLE" THEN n # dbName ELSE n <= dbName
          /\ k = "POST" /\ n = dbName => srvName \in {0, dbName}
    /\ \A n, m \in Nat : Pending("POST", n) /\ Pending("POST", m) => n = m
    /\ \A n, m \in Nat : Pending("POST", n) /\ Pending("PATCH", m) => n < m
    /\ dbName = 0 => srvName = 0 /\ \A k \in PushKinds, n \in Nat : ~Pending(k, n)

DeliveredInv == dbName \in {0, srvName} \/ crossedName \/ \E k \in PushKinds : Pending(k, dbName)

StoreInv == PushTypes /\ NameInv /\ DeliveredInv /\ QueueIsServed
-----------------------------------------------------------------------------
(* What an appended, a first and a remaining push are.                       *)
LEMMA AppendFacts ==
    ASSUME NEW q \in Seq(Pushes), NEW p \in Pushes
    PROVE  /\ Append(q, p) \in Seq(Pushes) /\ Append(q, p) # <<>>
           /\ \A k, n : Queued(Append(q, p), k, n) <=> Queued(q, k, n) \/ (p.kind = k /\ p.name = n)
<1>0. Append(q, p) \in Seq(Pushes) /\ Len(Append(q, p)) = Len(q) + 1 /\ Len(q) \in Nat
  OBVIOUS
<1>1. Append(q, p) \in Seq(Pushes) /\ Append(q, p) # <<>>
  BY <1>0
<1>2. /\ DOMAIN q = 1 .. Len(q) /\ DOMAIN Append(q, p) = 1 .. Len(q) + 1 /\ Len(q) \in Nat
      /\ \A i \in 1 .. Len(q) : Append(q, p)[i] = q[i]
      /\ Append(q, p)[Len(q) + 1] = p
  OBVIOUS
<1>3. ASSUME NEW k, NEW n, Queued(q, k, n) PROVE Queued(Append(q, p), k, n)
  BY <1>2, <1>3 DEF Queued
<1>4. ASSUME NEW k, NEW n, p.kind = k, p.name = n PROVE Queued(Append(q, p), k, n)
  BY <1>2, <1>4 DEF Queued
<1>5. ASSUME NEW k, NEW n, Queued(Append(q, p), k, n) PROVE Queued(q, k, n) \/ (p.kind = k /\ p.name = n)
  BY <1>2, <1>5 DEF Queued
<1> QED
  BY <1>1, <1>3, <1>4, <1>5

(* The first and the remaining pushes of a queue.                            *)
LEMMA TailFacts ==
    ASSUME NEW q \in Seq(Pushes), q # <<>>
    PROVE  /\ Tail(q) \in Seq(Pushes) /\ Head(q) \in Pushes
           /\ \A k, n : Queued(q, k, n) <=> Queued(Tail(q), k, n) \/ (Head(q).kind = k /\ Head(q).name = n)
<1>1. Tail(q) \in Seq(Pushes) /\ Head(q) \in Pushes /\ Len(q) \in Nat /\ Len(q) > 0
  OBVIOUS
<1>2. /\ DOMAIN q = 1 .. Len(q) /\ DOMAIN Tail(q) = 1 .. Len(q) - 1
      /\ \A i \in 1 .. Len(q) - 1 : Tail(q)[i] = q[i + 1]
      /\ Head(q) = q[1]
  OBVIOUS
<1>3. ASSUME NEW k, NEW n, Queued(q, k, n) PROVE Queued(Tail(q), k, n) \/ (Head(q).kind = k /\ Head(q).name = n)
  <2>1. PICK i \in 1 .. Len(q) : q[i].kind = k /\ q[i].name = n
    BY <1>2, <1>3 DEF Queued
  <2>2. CASE i = 1
    BY <1>2, <2>1, <2>2
  <2>3. CASE i # 1
    <3>1. i - 1 \in 1 .. Len(q) - 1 /\ Tail(q)[i - 1] = q[i]
      BY <1>1, <1>2, <2>1, <2>3
    <3> QED
      BY <1>2, <2>1, <3>1 DEF Queued
  <2> QED
    BY <2>2, <2>3
<1>4. ASSUME NEW k, NEW n, Queued(Tail(q), k, n) PROVE Queued(q, k, n)
  <2>1. PICK i \in 1 .. Len(q) - 1 : q[i + 1].kind = k /\ q[i + 1].name = n
    BY <1>2, <1>4 DEF Queued
  <2>2. i + 1 \in 1 .. Len(q)
    BY <1>1, <2>1
  <2> QED
    BY <1>2, <2>1, <2>2 DEF Queued
<1>5. ASSUME NEW k, NEW n, Head(q).kind = k, Head(q).name = n PROVE Queued(q, k, n)
  BY <1>1, <1>2, <1>5 DEF Queued
<1> QED
  BY <1>1, <1>3, <1>4, <1>5

(* Nothing is in an empty queue.                                             *)
LEMMA NoneQueued == \A k, n : ~Queued(<<>>, k, n)
  BY DEF Queued

(* A push moves: what is pending stays pending.                              *)
LEMMA MoveKeepsNames ==
    ASSUME NameInv, DeliveredInv, UNCHANGED <<dbName, srvName, edits, crossedName>>,
           \A k \in PushKinds, n \in Nat : PendingNext(k, n) <=> Pending(k, n), PushTypes
    PROVE  NameInv' /\ DeliveredInv'
<1> DEFINE P(k, n) == Pending(k, n)
           Q(k, n) == PendingNext(k, n)
<1>1. \A k \in PushKinds, n \in Nat : Q(k, n) <=> P(k, n)
  OBVIOUS
<1>2. NameInv'
  BY Zenon DEF NameInv, PushKinds, Pending, PendingNext
<1>3. DeliveredInv'
  BY Zenon DEF DeliveredInv, PushTypes, Pending, PendingNext
<1> QED
  BY <1>2, <1>3
(* The server does what a push asks, or nothing: names stay ordered, and the *)
(* last name arrives, stays pending, or is overwritten by an older push.     *)
LEMMA ServeKeepsNames ==
    ASSUME PushTypes, NameInv, DeliveredInv, NEW p \in Pushes, Pending(p.kind, p.name),
           NEW answered \in BOOLEAN, _fetchApi(p, answered), UNCHANGED <<dbName, edits>>,
           \A k \in PushKinds, n \in Nat : PendingNext(k, n) => Pending(k, n),
           \A k \in PushKinds, n \in Nat :
               Pending(k, n) /\ ~(answered /\ k = p.kind /\ n = p.name) => PendingNext(k, n)
    PROVE  NameInv' /\ DeliveredInv' /\ srvName' \in Nat /\ srvName' <= dbName'
<1> DEFINE P(k, n) == Pending(k, n)
           Q(k, n) == PendingNext(k, n)
<1>p. p.kind \in PushKinds /\ p.name \in Nat
  BY DEF Pushes
<1>t. /\ dbName \in Nat /\ srvName \in Nat /\ edits \in Nat /\ dbName <= edits /\ srvName <= dbName
      /\ dbName' = dbName /\ edits' = edits
  BY DEF PushTypes
<1>1. CASE UNCHANGED <<srvName, crossedName>> /\ ~answered
  <2>1. \A k \in PushKinds, n \in Nat : PendingNext(k, n) <=> Pending(k, n)
    BY <1>1, Zenon
  <2>2. UNCHANGED <<dbName, srvName, edits, crossedName>>
    BY <1>1
  <2>3. NameInv' /\ DeliveredInv'
    BY <2>1, <2>2, MoveKeepsNames
  <2> QED
    BY <1>1, <1>t, <2>3
<1>2. CASE Known(p) /\ Serves(p)
  <2>k. p.kind = "POST" \/ srvName # 0
    BY <1>2 DEF Known
  <2>s. /\ srvName' = IF (p.kind = "POST" /\ srvName = 0) \/ (p.kind = "PATCH" /\ srvName # 0)
                      THEN p.name ELSE srvName
        /\ crossedName \/ (p.kind = "PATCH" /\ srvName > p.name) => crossedName'
    BY <1>2, Zenon DEF Serves
  <2>n. /\ 0 < p.name /\ p.name <= edits
        /\ IF p.kind = "TOGGLE" THEN p.name # dbName ELSE p.name <= dbName
        /\ p.kind = "POST" /\ p.name = dbName => srvName \in {0, dbName}
    BY <1>p, Zenon DEF NameInv
  <2>d. dbName # 0
    BY <1>p, Zenon DEF NameInv
  <2>1. srvName' \in Nat /\ srvName' <= dbName'
    BY <1>p, <1>t, <2>s, <2>n
  <2>o. /\ \A n, m \in Nat : P("POST", n) /\ P("POST", m) => n = m
        /\ \A n, m \in Nat : P("POST", n) /\ P("PATCH", m) => n < m
        /\ \A k \in PushKinds, n \in Nat : P(k, n) =>
              /\ 0 < n /\ n <= edits
              /\ IF k = "TOGGLE" THEN n # dbName ELSE n <= dbName
              /\ k = "POST" /\ n = dbName => srvName \in {0, dbName}
    BY Zenon DEF NameInv
  <2>q. /\ \A k \in PushKinds, n \in Nat : Q(k, n) => P(k, n)
        /\ P(p.kind, p.name)
        /\ \A k \in PushKinds, n \in Nat : P(k, n) /\ ~(answered /\ k = p.kind /\ n = p.name) => Q(k, n)
    OBVIOUS
  <2>e. DeliveredInv => dbName \in {0, srvName} \/ crossedName \/ \E k \in PushKinds : P(k, dbName)
    BY Zenon DEF DeliveredInv
  <2>kk. PushKinds = {"POST", "PATCH", "TOGGLE"}
    BY DEF PushKinds
  <2> HIDE DEF P, Q
  <2>2. \A n \in Nat : Q("POST", n) /\ n = dbName => srvName' \in {0, dbName}
    BY <1>p, <1>t, <2>k, <2>s, <2>n, <2>d, <2>o, <2>q, <2>kk
  <2>3. dbName \in {0, srvName'} \/ crossedName' \/ \E k \in PushKinds : Q(k, dbName)
    <3>1. CASE dbName = srvName
      <4>1. CASE p.kind = "PATCH" /\ p.name < dbName
        BY <1>p, <1>t, <2>s, <3>1, <4>1
      <4>2. CASE p.kind # "PATCH" \/ p.name = dbName
        BY <1>p, <1>t, <2>s, <2>d, <3>1, <4>2
      <4> QED
        BY <1>p, <1>t, <2>n, <4>1, <4>2
    <3>2. CASE crossedName
      BY <2>s, <3>2
    <3>3. ASSUME NEW k \in PushKinds, P(k, dbName) PROVE dbName \in {0, srvName'} \/ \E kk \in PushKinds : Q(kk, dbName)
      <4>1. CASE k = p.kind /\ dbName = p.name
        BY <1>p, <1>t, <2>k, <2>s, <2>n, <4>1, <2>kk
      <4>2. CASE ~(k = p.kind /\ dbName = p.name)
        <5>1. Q(k, dbName)
          BY <1>t, <2>q, <3>3, <4>2, Zenon
        <5> QED
          BY <5>1
      <4> QED
        BY <4>1, <4>2
    <3> QED
      BY <2>d, <2>e, <3>1, <3>2, <3>3
  <2>4. /\ \A n, m \in Nat : Q("POST", n) /\ Q("POST", m) => n = m
        /\ \A n, m \in Nat : Q("POST", n) /\ Q("PATCH", m) => n < m
        /\ \A k \in PushKinds, n \in Nat : Q(k, n) =>
              /\ 0 < n /\ n <= edits'
              /\ IF k = "TOGGLE" THEN n # dbName' ELSE n <= dbName'
              /\ k = "POST" /\ n = dbName' => srvName' \in {0, dbName'}
    <3>1. "POST" \in PushKinds /\ "PATCH" \in PushKinds
      BY <2>kk
    <3>2. /\ \A n, m \in Nat : Q("POST", n) /\ Q("POST", m) => n = m
          /\ \A n, m \in Nat : Q("POST", n) /\ Q("PATCH", m) => n < m
      BY <2>o, <2>q, <3>1, Zenon
    <3>3. ASSUME NEW k \in PushKinds, NEW n \in Nat, Q(k, n)
          PROVE  /\ 0 < n /\ n <= edits
                 /\ IF k = "TOGGLE" THEN n # dbName ELSE n <= dbName
                 /\ k = "POST" /\ n = dbName => srvName' \in {0, dbName}
      <4>1. P(k, n)
        BY <2>q, <3>3, Zenon
      <4>2. k = "POST" /\ n = dbName => srvName' \in {0, dbName}
        BY <2>2, <3>3, Zenon
      <4> QED
        BY <2>o, <4>1, <4>2, Zenon
    <3> QED
      BY <1>t, <3>2, <3>3, Zenon
  <2> USE DEF P, Q
  <2>5. NameInv'
    BY <1>t, <2>4, <2>d, Zenon DEF NameInv, Pending, PendingNext
  <2>6. DeliveredInv'
    BY <1>t, <2>3, Zenon DEF DeliveredInv, Pending, PendingNext
  <2> QED
    BY <2>1, <2>5, <2>6
<1> QED
  BY <1>1, <1>2, Zenon DEF _fetchApi

(* A change of the store adds its push, under a name of its own.             *)
LEMMA SaveKeepsNames ==
    ASSUME PushTypes, NameInv, DeliveredInv, NEW k0 \in PushKinds,
           edits' = edits + 1, UNCHANGED <<srvName, crossedName>>,
           \A k \in PushKinds, n \in Nat : PendingNext(k, n) <=> Pending(k, n) \/ (k = k0 /\ n = edits + 1),
           IF k0 = "TOGGLE" THEN dbName # 0 /\ dbName' = dbName
           ELSE dbName' = edits + 1 /\ (k0 = "POST" <=> dbName = 0)
    PROVE  NameInv' /\ DeliveredInv' /\ dbName' \in Nat /\ dbName' <= edits' /\ srvName' <= dbName'
<1> DEFINE P(k, n) == Pending(k, n)
           Q(k, n) == PendingNext(k, n)
<1>t. /\ dbName \in Nat /\ srvName \in Nat /\ edits \in Nat /\ dbName <= edits /\ srvName <= dbName
      /\ srvName' = srvName /\ edits' = edits + 1 /\ crossedName' = crossedName
  BY DEF PushTypes
<1>o. /\ \A n, m \in Nat : P("POST", n) /\ P("POST", m) => n = m
      /\ \A n, m \in Nat : P("POST", n) /\ P("PATCH", m) => n < m
      /\ \A k \in PushKinds, n \in Nat : P(k, n) =>
            /\ 0 < n /\ n <= edits
            /\ IF k = "TOGGLE" THEN n # dbName ELSE n <= dbName
            /\ k = "POST" /\ n = dbName => srvName \in {0, dbName}
      /\ dbName = 0 => srvName = 0 /\ \A k \in PushKinds, n \in Nat : ~P(k, n)
  BY Zenon DEF NameInv
<1>q. \A k \in PushKinds, n \in Nat : Q(k, n) <=> P(k, n) \/ (k = k0 /\ n = edits + 1)
  OBVIOUS
<1>e. dbName \in {0, srvName} \/ crossedName \/ \E k \in PushKinds : P(k, dbName)
  BY Zenon DEF DeliveredInv
<1>k. PushKinds = {"POST", "PATCH", "TOGGLE"} /\ (IF k0 = "TOGGLE" THEN dbName # 0 /\ dbName' = dbName
           ELSE dbName' = edits + 1 /\ (k0 = "POST" <=> dbName = 0))
  BY DEF PushKinds
<1> HIDE DEF P, Q
<1>1. dbName' \in Nat /\ dbName' <= edits' /\ srvName' <= dbName' /\ dbName' # 0
  BY <1>t, <1>k
<1>2. /\ \A n, m \in Nat : Q("POST", n) /\ Q("POST", m) => n = m
      /\ \A n, m \in Nat : Q("POST", n) /\ Q("PATCH", m) => n < m
  BY <1>t, <1>k, <1>o, <1>q
<1>3. ASSUME NEW k \in PushKinds, NEW n \in Nat, Q(k, n)
      PROVE  /\ 0 < n /\ n <= edits'
             /\ IF k = "TOGGLE" THEN n # dbName' ELSE n <= dbName'
             /\ k = "POST" /\ n = dbName' => srvName' \in {0, dbName'}
  <2>1. CASE P(k, n)
    BY <1>t, <1>k, <1>o, <2>1
  <2>2. CASE k = k0 /\ n = edits + 1
    BY <1>t, <1>k, <1>o, <2>2
  <2> QED
    BY <1>q, <1>3, <2>1, <2>2
<1>4. dbName' \in {0, srvName'} \/ crossedName' \/ \E k \in PushKinds : Q(k, dbName')
  <2>1. CASE k0 = "TOGGLE"
    <3>1. dbName' = dbName /\ dbName # 0
      BY <1>k, <2>1
    <3>2. CASE dbName = srvName
      BY <1>t, <3>1, <3>2
    <3>3. CASE crossedName
      BY <1>t, <3>3, Zenon
    <3>4. ASSUME NEW k \in PushKinds, P(k, dbName) PROVE \E kk \in PushKinds : Q(kk, dbName')
      BY <1>t, <1>q, <3>1, <3>4
    <3> QED
      BY <1>e, <3>1, <3>2, <3>3, <3>4
  <2>2. CASE k0 # "TOGGLE"
    <3>1. dbName' = edits + 1 /\ edits + 1 \in Nat
      BY <1>k, <1>t, <2>2
    <3> QED
      BY <1>q, <3>1, Zenon
  <2> QED
    BY <2>1, <2>2
<1> USE DEF P, Q
<1>5. NameInv'
  BY <1>1, <1>2, <1>3, Zenon DEF NameInv, Pending, PendingNext
<1>6. DeliveredInv'
  BY <1>4, Zenon DEF DeliveredInv, Pending, PendingNext
<1> QED
  BY <1>1, <1>5, <1>6
(* Without a change of the pushes and names nothing changes.                 *)
LEMMA RestKeepsStore ==
    ASSUME StoreInv, UNCHANGED <<dbName, edits>>, UNCHANGED pushVars
    PROVE  StoreInv'
<1>1. UNCHANGED <<dbName, edits, srvName, pushes, pushQueue, working, retryTimer, crossedName>>
  BY DEF pushVars
<1>2. PushTypes /\ NameInv /\ DeliveredInv /\ QueueIsServed
  BY Zenon DEF StoreInv
<1>3. \A k, n : PendingNext(k, n) <=> Pending(k, n)
  BY <1>1 DEF Pending, PendingNext
<1>4. UNCHANGED <<dbName, srvName, edits, crossedName>>
  BY <1>1
<1>5. NameInv' /\ DeliveredInv'
  BY <1>2, <1>3, <1>4, MoveKeepsNames
<1>6. PushTypes' /\ QueueIsServed'
  BY <1>1, <1>2, Zenon DEF PushTypes, QueueIsServed
<1> QED
  BY <1>5, <1>6, Zenon DEF StoreInv

(* _processPushQueue takes the whole queue, or leaves it to the running loop.*)
LEMMA StartQueueFacts ==
    ASSUME PushTypes, NEW q \in Seq(Pushes), StartQueue(q)
    PROVE  /\ pushQueue' \in Seq(Pushes) /\ working' \in Loops
           /\ working'.items # <<>> => working'.busy
           /\ pushQueue' # <<>> => working'.busy
           /\ \A k, n : Queued(pushQueue', k, n) \/ Queued(working'.items, k, n)
                        <=> Queued(q, k, n) \/ Queued(working.items, k, n)
<1>t. working \in Loops /\ (working.items # <<>> => working.busy)
  BY DEF PushTypes
<1>1. CASE working.busy \/ q = <<>>
  <2>1. pushQueue' = q /\ working' = working
    BY <1>1, Zenon DEF StartQueue
  <2> QED
    BY <1>t, <1>1, <2>1
<1>2. CASE ~(working.busy \/ q = <<>>)
  <2>1. pushQueue' = <<>> /\ working' = [busy |-> TRUE, items |-> q] /\ working.items = <<>>
    BY <1>2, <1>t, Zenon DEF StartQueue
  <2>2. working'.items = q /\ working'.busy /\ working' \in Loops
    BY <2>1 DEF Loops
  <2>3. pushQueue' \in Seq(Pushes)
    BY <2>1
  <2> QED
    BY <2>1, <2>2, <2>3, NoneQueued, Zenon
<1> QED
  BY <1>1, <1>2

(* An attempt of a push: answered, tried again, or queued.                   *)
LEMMA PushStep ==
    ASSUME StoreInv, NEW p \in pushes, NEW answered \in BOOLEAN, _pushStoreToApi(p, answered)
    PROVE  StoreInv'
<1>t. /\ PushTypes /\ NameInv /\ DeliveredInv /\ QueueIsServed /\ pushes \subseteq Pushes /\ p \in Pushes
      /\ pushQueue \in Seq(Pushes) /\ working \in Loops /\ (working.items # <<>> => working.busy)
  BY DEF StoreInv, PushTypes
<1>a. /\ _fetchApi(p, answered) /\ UNCHANGED <<dbName, retryTimer, edits>>
      /\ \/ answered /\ pushes' = pushes \ {p} /\ UNCHANGED <<pushQueue, working>>
         \/ /\ ~answered /\ pushes' = (pushes \ {p}) \cup {[p EXCEPT !.left = p.left - 1]}
            /\ UNCHANGED <<pushQueue, working>>
         \/ ~answered /\ pushes' = pushes \ {p} /\ StartQueue(Append(pushQueue, p))
  BY Zenon DEF _pushStoreToApi
<1>d. Direct(pushes, p.kind, p.name)
  BY Zenon DEF Direct
<1>p. Pending(p.kind, p.name)
  BY <1>d, Zenon DEF Pending, PendingIn
<1>1. /\ pushes' \subseteq Pushes /\ pushQueue' \in Seq(Pushes) /\ working' \in Loops
      /\ working'.items # <<>> => working'.busy
      /\ pushQueue' # <<>> => working'.busy \/ retryTimer'
      /\ \A k \in PushKinds, n \in Nat : PendingNext(k, n) => Pending(k, n)
      /\ \A k \in PushKinds, n \in Nat :
             Pending(k, n) /\ ~(answered /\ k = p.kind /\ n = p.name) => PendingNext(k, n)
  <2>1. CASE answered /\ pushes' = pushes \ {p} /\ UNCHANGED <<pushQueue, working>>
    <3>1. \A k, n : Direct(pushes', k, n) => Direct(pushes, k, n)
      BY <2>1, Zenon DEF Direct
    <3>2. \A k, n : Direct(pushes, k, n) /\ ~(k = p.kind /\ n = p.name) => Direct(pushes', k, n)
      BY <2>1, Zenon DEF Direct
    <3>3. pushQueue' # <<>> => working'.busy \/ retryTimer'
      BY <1>t, <1>a, <2>1, Zenon DEF QueueIsServed
    <3> QED
      BY <1>t, <2>1, <3>1, <3>2, <3>3, Zenon DEF Pending, PendingIn, PendingNext
  <2>2. CASE /\ ~answered /\ pushes' = (pushes \ {p}) \cup {[p EXCEPT !.left = p.left - 1]}
             /\ UNCHANGED <<pushQueue, working>>
    <3>0. PICK r : r = [p EXCEPT !.left = p.left - 1]
      OBVIOUS
    <3>r. r \in Pushes /\ r.kind = p.kind /\ r.name = p.name /\ pushes' = (pushes \ {p}) \cup {r}
      BY <1>t, <2>2, <3>0 DEF Pushes
    <3>1. \A k, n : Direct(pushes', k, n) => Direct(pushes, k, n)
      BY <3>r, Zenon DEF Direct
    <3>2. \A k, n : Direct(pushes, k, n) => Direct(pushes', k, n)
      BY <3>r, Zenon DEF Direct
    <3>3. pushQueue' # <<>> => working'.busy \/ retryTimer'
      BY <1>t, <1>a, <2>2, Zenon DEF QueueIsServed
    <3> QED
      BY <1>t, <2>2, <3>r, <3>1, <3>2, <3>3, Zenon DEF Pending, PendingIn, PendingNext
  <2>3. CASE ~answered /\ pushes' = pushes \ {p} /\ StartQueue(Append(pushQueue, p))
    <3>1. /\ Append(pushQueue, p) \in Seq(Pushes)
          /\ \A k, n : Queued(Append(pushQueue, p), k, n) <=> Queued(pushQueue, k, n) \/ (p.kind = k /\ p.name = n)
      BY <1>t, AppendFacts
    <3>2. /\ pushQueue' \in Seq(Pushes) /\ working' \in Loops
          /\ working'.items # <<>> => working'.busy
          /\ pushQueue' # <<>> => working'.busy
          /\ \A k, n : Queued(pushQueue', k, n) \/ Queued(working'.items, k, n)
                       <=> Queued(Append(pushQueue, p), k, n) \/ Queued(working.items, k, n)
      BY <1>t, <2>3, <3>1, StartQueueFacts
    <3>3. \A k, n : Direct(pushes', k, n) => Direct(pushes, k, n)
      BY <2>3, Zenon DEF Direct
    <3>4. \A k, n : Direct(pushes, k, n) /\ ~(k = p.kind /\ n = p.name) => Direct(pushes', k, n)
      BY <2>3, Zenon DEF Direct
    <3>5. \A k, n : PendingNext(k, n) => Pending(k, n)
      BY <1>d, <3>1, <3>2, <3>3, Zenon DEF Pending, PendingIn, PendingNext
    <3>6. \A k, n : Pending(k, n) => PendingNext(k, n)
      BY <3>1, <3>2, <3>4, Zenon DEF Pending, PendingIn, PendingNext
    <3> QED
      BY <1>t, <2>3, <3>2, <3>5, <3>6, Zenon
  <2> QED
    BY <1>a, <2>1, <2>2, <2>3, Zenon
<1>2. NameInv' /\ DeliveredInv' /\ srvName' \in Nat /\ srvName' <= dbName'
  <2>1. UNCHANGED <<dbName, edits>>
    BY <1>a
  <2> QED
    BY <1>t, <1>a, <1>p, <1>1, <2>1, ServeKeepsNames
<1>3. PushTypes'
  BY <1>t, <1>a, <1>1, <1>2, Zenon DEF PushTypes
<1> QED
  BY <1>1, <1>2, <1>3, Zenon DEF StoreInv, QueueIsServed

(* The loop takes an item off; one that failed is queued again.              *)
LEMMA QueueStep ==
    ASSUME StoreInv, NEW answered \in BOOLEAN, _processPushQueue(answered)
    PROVE  StoreInv'
<1>t. /\ PushTypes /\ NameInv /\ DeliveredInv /\ QueueIsServed /\ pushes \subseteq Pushes
      /\ pushQueue \in Seq(Pushes) /\ working \in Loops /\ (working.items # <<>> => working.busy)
  BY DEF StoreInv, PushTypes
<1>0. PICK p : p = Head(working.items)
  OBVIOUS
<1>w. working.items \in Seq(Pushes) /\ working.busy \in BOOLEAN /\ working = [busy |-> working.busy, items |-> working.items]
  BY <1>t DEF Loops
<1>a. /\ working.items # <<>> /\ _fetchApi(p, answered) /\ UNCHANGED <<dbName, retryTimer, edits, pushes>>
      /\ working' = [working EXCEPT !.items = Tail(working.items)]
      /\ IF answered THEN UNCHANGED pushQueue ELSE pushQueue' = Append(pushQueue, p)
  BY <1>0, Zenon DEF _processPushQueue
<1>h. /\ Tail(working.items) \in Seq(Pushes) /\ p \in Pushes
      /\ \A k, n : Queued(working.items, k, n) <=> Queued(Tail(working.items), k, n) \/ (p.kind = k /\ p.name = n)
  BY <1>w, <1>a, <1>0, TailFacts
<1>k. /\ Append(pushQueue, p) \in Seq(Pushes)
      /\ \A k, n : Queued(Append(pushQueue, p), k, n) <=> Queued(pushQueue, k, n) \/ (p.kind = k /\ p.name = n)
  BY <1>t, <1>h, AppendFacts
<1>1. working'.items = Tail(working.items) /\ working'.busy = working.busy /\ working' \in Loops /\ working.busy
  BY <1>t, <1>w, <1>a, <1>h DEF Loops
<1>p. Pending(p.kind, p.name)
  BY <1>h, Zenon DEF Pending, PendingIn
<1>2. /\ pushQueue' \in Seq(Pushes)
      /\ \A k \in PushKinds, n \in Nat : PendingNext(k, n) => Pending(k, n)
      /\ \A k \in PushKinds, n \in Nat :
             Pending(k, n) /\ ~(answered /\ k = p.kind /\ n = p.name) => PendingNext(k, n)
  <2>0. pushes' = pushes
    BY <1>a
  <2>1. CASE answered
    <3>1. pushQueue' = pushQueue
      BY <1>a, <2>1
    <3>2. \A k, n : Queued(working'.items, k, n) => Queued(working.items, k, n)
      BY <1>h, <1>1
    <3>3. \A k, n : Queued(working.items, k, n) => Queued(working'.items, k, n) \/ (p.kind = k /\ p.name = n)
      BY <1>h, <1>1
    <3>4. /\ \A k, n : PendingNext(k, n) => Pending(k, n)
          /\ \A k, n : Pending(k, n) /\ ~(k = p.kind /\ n = p.name) => PendingNext(k, n)
      BY <2>0, <3>1, <3>2, <3>3, Zenon DEF Pending, PendingIn, PendingNext
    <3> QED
      BY <1>t, <2>1, <3>1, <3>4, Zenon
  <2>2. CASE ~answered
    <3>1. pushQueue' = Append(pushQueue, p)
      BY <1>a, <2>2
    <3>2. \A k, n : Queued(pushQueue', k, n) <=> Queued(pushQueue, k, n) \/ (p.kind = k /\ p.name = n)
      BY <1>k, <3>1
    <3>3. \A k, n : Queued(working'.items, k, n) => Queued(working.items, k, n)
      BY <1>h, <1>1
    <3>4. \A k, n : Queued(working.items, k, n) => Queued(working'.items, k, n) \/ (p.kind = k /\ p.name = n)
      BY <1>h, <1>1
    <3>5. \A k, n : PendingNext(k, n) => Pending(k, n)
      BY <1>h, <2>0, <3>2, <3>3, Zenon DEF Pending, PendingIn, PendingNext
    <3>6. \A k, n : Pending(k, n) => PendingNext(k, n)
      BY <2>0, <3>2, <3>4, Zenon DEF Pending, PendingIn, PendingNext
    <3> QED
      BY <1>k, <3>1, <3>5, <3>6
  <2> QED
    BY <2>1, <2>2
<1>3. NameInv' /\ DeliveredInv' /\ srvName' \in Nat /\ srvName' <= dbName'
  <2>1. UNCHANGED <<dbName, edits>>
    BY <1>a
  <2> QED
    BY <1>t, <1>a, <1>h, <1>p, <1>2, <2>1, ServeKeepsNames
<1>4. PushTypes'
  BY <1>t, <1>a, <1>1, <1>2, <1>3, Zenon DEF PushTypes
<1>5. QueueIsServed'
  BY <1>1, Zenon DEF QueueIsServed
<1> QED
  BY <1>3, <1>4, <1>5, Zenon DEF StoreInv

(* A cycle ends, or the queue is taken up by the timer or by going online.   *)
LEMMA QueueMoves ==
    ASSUME StoreInv, QueueCycleEnds \/ QueueTimerFires \/ OnlineEvent
    PROVE  StoreInv'
<1>t. /\ PushTypes /\ NameInv /\ DeliveredInv /\ QueueIsServed /\ pushes \subseteq Pushes
      /\ pushQueue \in Seq(Pushes) /\ working \in Loops /\ (working.items # <<>> => working.busy)
  BY DEF StoreInv, PushTypes
<1>u. UNCHANGED <<dbName, srvName, edits, crossedName>> /\ UNCHANGED pushes
  BY Zenon DEF QueueCycleEnds, QueueTimerFires, OnlineEvent
<1>1. /\ pushQueue' \in Seq(Pushes) /\ working' \in Loops
      /\ working'.items # <<>> => working'.busy
      /\ pushQueue' # <<>> => working'.busy \/ retryTimer'
      /\ \A k, n : Queued(pushQueue', k, n) \/ Queued(working'.items, k, n)
                   <=> Queued(pushQueue, k, n) \/ Queued(working.items, k, n)
  <2>1. CASE QueueCycleEnds
    <3>1. /\ working.items = <<>> /\ working' = Resting /\ pushQueue' = pushQueue
          /\ pushQueue # <<>> => retryTimer'
      BY <2>1, Zenon DEF QueueCycleEnds, _scheduleQueueRetry
    <3>2. working'.items = <<>> /\ working' \in Loops
      BY <3>1 DEF Resting, Loops
    <3> QED
      BY <1>t, <3>1, <3>2, Zenon
  <2>2. CASE QueueTimerFires \/ OnlineEvent
    <3>1. StartQueue(pushQueue)
      BY <2>2, Zenon DEF QueueTimerFires, OnlineEvent
    <3> QED
      BY <1>t, <3>1, StartQueueFacts
  <2> QED
    BY <2>1, <2>2
<1>2. \A k \in PushKinds, n \in Nat : PendingNext(k, n) <=> Pending(k, n)
  BY <1>1, <1>u, Zenon DEF Pending, PendingIn, PendingNext
<1>3. NameInv' /\ DeliveredInv'
  BY <1>t, <1>u, <1>2, MoveKeepsNames
<1>4. PushTypes'
  BY <1>t, <1>u, <1>1, Zenon DEF PushTypes
<1> QED
  BY <1>1, <1>3, <1>4, Zenon DEF StoreInv, QueueIsServed

(* A change of the store is saved and its push begins.                       *)
LEMMA SaveStep ==
    ASSUME StoreInv, NEW k0 \in PushKinds, Save(k0, edits + 1),
           IF k0 = "TOGGLE" THEN dbName # 0 /\ dbName' = dbName
           ELSE dbName' = edits + 1 /\ (k0 = "POST" <=> dbName = 0)
    PROVE  StoreInv'
<1>t. /\ PushTypes /\ NameInv /\ DeliveredInv /\ QueueIsServed /\ pushes \subseteq Pushes /\ edits \in Nat
      /\ pushQueue \in Seq(Pushes) /\ working \in Loops /\ (working.items # <<>> => working.busy)
      /\ srvName \in Nat
  BY DEF StoreInv, PushTypes
<1>0. PICK r : r = Push(k0, edits + 1)
  OBVIOUS
<1>r. r \in Pushes /\ r.kind = k0 /\ r.name = edits + 1
  BY <1>0, <1>t, StoreAssumption DEF Push, Pushes
<1>a. /\ edits' = edits + 1 /\ pushes' = pushes \cup {r} /\ UNCHANGED <<srvName, crossedName>>
      /\ UNCHANGED <<pushQueue, working, retryTimer>>
  BY <1>0, Zenon DEF Save
<1>1. \A k, n : Direct(pushes', k, n) <=> Direct(pushes, k, n) \/ (k = k0 /\ n = edits + 1)
  BY <1>r, <1>a, Zenon DEF Direct
<1>2. \A k \in PushKinds, n \in Nat : PendingNext(k, n) <=> Pending(k, n) \/ (k = k0 /\ n = edits + 1)
  <2>1. pushQueue' = pushQueue /\ working' = working
    BY <1>a
  <2>2. ASSUME NEW k, NEW n
        PROVE  PendingNext(k, n) <=> Direct(pushes', k, n) \/ Queued(pushQueue, k, n) \/ Queued(working.items, k, n)
    BY <2>1 DEF PendingIn, PendingNext
  <2> QED
    BY <1>1, <2>2 DEF Pending, PendingIn
<1>3. NameInv' /\ DeliveredInv' /\ dbName' \in Nat /\ dbName' <= edits' /\ srvName' <= dbName'
  BY <1>t, <1>a, <1>2, SaveKeepsNames
<1>e. edits' \in Nat
  BY <1>t, <1>a
<1>4. PushTypes'
  BY <1>t, <1>r, <1>a, <1>e, <1>3, Zenon DEF PushTypes
<1>5. QueueIsServed'
  BY <1>t, <1>a, Zenon DEF QueueIsServed
<1> QED
  BY <1>3, <1>4, <1>5, Zenon DEF StoreInv

(* Without a store nothing is pending.                                       *)
LEMMA StoreStarts == StoreInit => StoreInv
<1> SUFFICES ASSUME StoreInit PROVE StoreInv
  OBVIOUS
<1>1. dbName = 0 /\ srvName = 0 /\ edits = 0 /\ pushes = {} /\ pushQueue = <<>> /\ working = Resting
  BY Zenon DEF StoreInit
<1>2. working.items = <<>> /\ working \in Loops
  BY <1>1 DEF Resting, Loops
<1>3. \A k, n : ~Pending(k, n)
  BY <1>1, <1>2, NoneQueued, Zenon DEF Pending, PendingIn, Direct
<1>4. PushTypes
  BY <1>1, <1>2 DEF PushTypes
<1>5. NameInv /\ DeliveredInv /\ QueueIsServed
  BY <1>1, <1>3, Zenon DEF NameInv, DeliveredInv, QueueIsServed
<1> QED
  BY <1>4, <1>5 DEF StoreInv

(* Every step keeps the invariant of the stores.                             *)
LEMMA StoreKeeps == StoreInv /\ [StoreNext]_storeVars => StoreInv'
<1> SUFFICES ASSUME StoreInv, [StoreNext]_storeVars PROVE StoreInv'
  OBVIOUS
<1>1. CASE UNCHANGED storeVars
  BY <1>1, RestKeepsStore, Zenon DEF storeVars, pushVars
<1>2. CASE \E p \in pushes, answered \in BOOLEAN : _pushStoreToApi(p, answered)
  BY <1>2, PushStep
<1>3. CASE \E answered \in BOOLEAN : _processPushQueue(answered)
  BY <1>3, QueueStep
<1>4. CASE QueueCycleEnds \/ QueueTimerFires \/ OnlineEvent
  BY <1>4, QueueMoves
<1>5. CASE handleAddStore \/ handleEditStore \/ CloseStoreModal \/ handleStoreModalSubmit
  <2>1. UNCHANGED <<dbName, edits>> /\ UNCHANGED pushVars
    BY <1>5, Zenon DEF handleAddStore, handleEditStore, CloseStoreModal, handleStoreModalSubmit
  <2> QED
    BY <2>1, RestKeepsStore
<1>k. "POST" \in PushKinds /\ "PATCH" \in PushKinds /\ "TOGGLE" \in PushKinds
  BY DEF PushKinds
<1>6. CASE StoreModalAnswers
  <2>1. CASE createStore
    <3>1. Save("POST", edits + 1) /\ dbName = 0 /\ dbName' = edits + 1
      BY <2>1, Zenon DEF createStore
    <3> QED
      BY <1>k, <3>1, SaveStep
  <2>2. CASE updateStore
    <3>1. Save("PATCH", edits + 1) /\ dbName # 0 /\ dbName' = edits + 1
      BY <2>2, Zenon DEF updateStore
    <3> QED
      BY <1>k, <3>1, SaveStep
  <2>3. CASE UNCHANGED <<dbName, edits, modal, pushVars>>
    <3>1. UNCHANGED <<dbName, edits>> /\ UNCHANGED pushVars
      BY <2>3
    <3> QED
      BY <3>1, RestKeepsStore
  <2> QED
    BY <1>6, <2>1, <2>2, <2>3, Zenon DEF StoreModalAnswers
<1>7. CASE handleToggleStore
  <2>1. Save("TOGGLE", edits + 1) /\ dbName # 0 /\ dbName' = dbName
    BY <1>7, Zenon DEF handleToggleStore, toggleStoreActive
  <2> QED
    BY <1>k, <2>1, SaveStep
<1> QED
  BY <1>1, <1>2, <1>3, <1>4, <1>5, <1>6, <1>7, Zenon DEF StoreNext

(* The invariant says what is promised of stores.                            *)
LEMMA StoreMeans == StoreInv => LastNameIsDelivered /\ QueueIsServed
<1> SUFFICES ASSUME StoreInv PROVE LastNameIsDelivered /\ QueueIsServed
  OBVIOUS
<1>1. DeliveredInv /\ QueueIsServed
  BY Zenon DEF StoreInv
<1>2. \A k \in PushKinds : Pending(k, dbName) => StillPending(dbName)
  BY Zenon DEF Pending, PendingIn, Direct, Queued, StillPending, InQueue
<1> QED
  BY <1>1, <1>2, Zenon DEF DeliveredInv, LastNameIsDelivered

(* The last name of a store is on the server, under way or overwritten by    *)
(* an older push, and a queued push has somebody to send it, for any number  *)
(* of edits, attempts and requeues (_pushStoreToApi, _processPushQueue).     *)
THEOREM NamesDelivered ==
    StoreInit /\ [][StoreNext]_storeVars => [](LastNameIsDelivered /\ QueueIsServed)
  BY StoreStarts, StoreKeeps, StoreMeans, PTL
-----------------------------------------------------------------------------
LocalDbs == [rows : SUBSET Records, queued : SUBSET Records, cursor : SUBSET Records]
MemCursors == [known : BOOLEAN, rows : SUBSET Records]

(* What the variables hold; the list names existing files, and one of them   *)
(* is put back.                                                              *)
MaintenanceTypes ==
    /\ localDb \in LocalDbs /\ serverRows \subseteq Records /\ syncBatch \subseteq Records
    /\ memCursor \in MemCursors
    /\ \A b \in DOMAIN backups : backups[b] \in LocalDbs
    /\ shownBackups \subseteq DOMAIN backups
    /\ restoringBackup = NoBackup \/ restoringBackup \in DOMAIN backups

(* As long as deletions and restores keep clear of the sync: no run is under *)
(* way during either, what a finished deletion deleted is not on its way     *)
(* either, and what the deletion under way deletes is not here.              *)
WipedInv ==
    ~crossedRun =>
        /\ wipeStep # "none" \/ restored => syncStep = "idle"
        /\ wiped \cap (localDb.rows \cup localDb.queued \cup serverRows \cup syncBatch) = {}
        /\ wipeStep \in {"token", "server"} => doomed \cap (localDb.rows \cup localDb.queued) = {}

(* The cursor of a database, of a backup too, covers only rows it has; so    *)
(* does the one in memory while it belongs to the database.                  *)
Covered(d) == d.cursor \subseteq d.rows
CursorInv ==
    ~crossedRun /\ ~halfWiped =>
        /\ Covered(localDb)
        /\ \A b \in DOMAIN backups : Covered(backups[b])
        /\ wipeStep \in {"none", "local"} /\ ~restored /\ memCursor.known =>
               memCursor.rows \subseteq localDb.rows

MaintenanceInv == MaintenanceTypes /\ WipedInv /\ CursorInv /\ BackupsAreListed
-----------------------------------------------------------------------------
(* The fields of a database.                                                 *)
LEMMA DbFacts ==
    ASSUME NEW d \in LocalDbs
    PROVE  d.rows \subseteq Records /\ d.queued \subseteq Records /\ d.cursor \subseteq Records
  BY DEF LocalDbs

(* An empty database satisfies the invariant.                                *)
LEMMA MaintenanceStarts == MaintenanceInit => MaintenanceInv
<1> SUFFICES ASSUME MaintenanceInit PROVE MaintenanceInv
  OBVIOUS
<1>1. /\ localDb = EmptyDb /\ serverRows = {} /\ memCursor = NoCursor /\ syncBatch = {} /\ syncStep = "idle"
      /\ backups = <<>> /\ shownBackups = {} /\ restoringBackup = NoBackup /\ wiped = {} /\ doomed = {}
  BY Zenon DEF MaintenanceInit
<1>2. localDb \in LocalDbs /\ Covered(localDb) /\ DOMAIN backups = {}
  BY <1>1 DEF EmptyDb, LocalDbs, Covered
<1>3. memCursor \in MemCursors /\ memCursor.rows = {}
  BY <1>1 DEF NoCursor, MemCursors
<1>4. MaintenanceTypes
  BY <1>1, <1>2, <1>3, Zenon DEF MaintenanceTypes
<1>5. WipedInv /\ CursorInv
  BY <1>1, <1>2, <1>3 DEF WipedInv, CursorInv
<1>6. BackupsAreListed
  BY <1>1, <1>2 DEF BackupsAreListed
<1> QED
  BY <1>4, <1>5, <1>6 DEF MaintenanceInv

(* Without a change of the data nothing changes.                             *)
LEMMA RestKeepsMaintenance ==
    ASSUME MaintenanceInv,
           UNCHANGED <<localDb, serverRows, memCursor, syncStep, syncBatch, wipeStep>>,
           UNCHANGED <<backups, shownBackups, restoringBackup, backupsRead, restored, wiped, doomed,
                       crossedRun, halfWiped>>
    PROVE  MaintenanceInv'
<1>1. MaintenanceTypes'
  BY Zenon DEF MaintenanceInv, MaintenanceTypes
<1>2. WipedInv'
  BY Zenon DEF MaintenanceInv, WipedInv
<1>3. CursorInv'
  BY Zenon DEF MaintenanceInv, CursorInv, Covered
<1>4. BackupsAreListed'
  BY Zenon DEF MaintenanceInv, BackupsAreListed
<1> QED
  BY <1>1, <1>2, <1>3, <1>4, Zenon DEF MaintenanceInv

(* A new record is none that was deleted.                                    *)
LEMMA RecordKeeps ==
    ASSUME MaintenanceInv, NEW r \in Records, Record(r)
    PROVE  MaintenanceInv'
<1>i. MaintenanceTypes /\ WipedInv /\ CursorInv /\ BackupsAreListed /\ localDb \in LocalDbs
  BY DEF MaintenanceInv, MaintenanceTypes
<1>0. PICK d : d = [localDb EXCEPT !.rows = localDb.rows \cup {r}, !.queued = localDb.queued \cup {r}]
  OBVIOUS
<1>a. /\ r \notin wiped \cup doomed /\ localDb' = d
      /\ UNCHANGED <<serverRows, memCursor, syncStep, syncBatch, wipeStep, restored, wiped, doomed,
                     crossedRun, halfWiped>>
      /\ UNCHANGED <<backups, shownBackups, restoringBackup, backupsRead>>
  BY <1>0, Zenon DEF Record, runVars, wipeVars, backupVars
<1>d. /\ d \in LocalDbs /\ d.rows = localDb.rows \cup {r} /\ d.queued = localDb.queued \cup {r}
      /\ d.cursor = localDb.cursor
  BY <1>i, <1>0 DEF LocalDbs
<1>1. MaintenanceTypes'
  BY <1>i, <1>a, <1>d, Zenon DEF MaintenanceTypes
<1>2. WipedInv'
  BY <1>i, <1>a, <1>d DEF WipedInv
<1>3. CursorInv'
  BY <1>i, <1>a, <1>d DEF CursorInv, Covered
<1>4. BackupsAreListed'
  BY <1>i, <1>a, Zenon DEF BackupsAreListed
<1> QED
  BY <1>1, <1>2, <1>3, <1>4, Zenon DEF MaintenanceInv

(* A sync takes what is queued.                                              *)
LEMMA SyncStartsKeeps ==
    ASSUME MaintenanceInv, SyncStarts
    PROVE  MaintenanceInv'
<1>i. MaintenanceTypes /\ WipedInv /\ CursorInv /\ BackupsAreListed /\ localDb \in LocalDbs
  BY DEF MaintenanceInv, MaintenanceTypes
<1>q. localDb.queued \subseteq Records
  BY <1>i, DbFacts
<1>a. /\ syncBatch' = localDb.queued
      /\ ~crossedRun' => ~crossedRun /\ wipeStep = "none" /\ ~restored
      /\ UNCHANGED <<localDb, serverRows, memCursor, wipeStep, restored, wiped, doomed, halfWiped>>
      /\ UNCHANGED <<backups, shownBackups, restoringBackup, backupsRead>>
  BY Zenon DEF SyncStarts, backupVars
<1>1. MaintenanceTypes'
  BY <1>i, <1>q, <1>a, Zenon DEF MaintenanceTypes
<1>2. WipedInv'
  <2>1. ASSUME ~crossedRun'
        PROVE  /\ ~(wipeStep' # "none" \/ restored')
               /\ wiped' \cap (localDb'.rows \cup localDb'.queued \cup serverRows' \cup syncBatch') = {}
    <3>1. ~crossedRun /\ wipeStep = "none" /\ ~restored
      BY <1>a, <2>1, Zenon
    <3>2. wiped \cap (localDb.rows \cup localDb.queued \cup serverRows \cup syncBatch) = {}
      BY <1>i, <3>1, Zenon DEF WipedInv
    <3>3. wiped \cap (localDb.rows \cup localDb.queued \cup serverRows \cup localDb.queued) = {}
      BY <3>2
    <3> QED
      BY <1>a, <3>1, <3>3, Zenon
  <2> QED
    BY <2>1 DEF WipedInv
<1>3. CursorInv'
  BY <1>i, <1>a, Zenon DEF CursorInv, Covered
<1>4. BackupsAreListed'
  BY <1>i, <1>a, Zenon DEF BackupsAreListed
<1> QED
  BY <1>1, <1>2, <1>3, <1>4, Zenon DEF MaintenanceInv

(* What was queued is on the server.                                         *)
LEMMA SyncPushesKeeps ==
    ASSUME MaintenanceInv, SyncPushes
    PROVE  MaintenanceInv'
<1>i. MaintenanceTypes /\ WipedInv /\ CursorInv /\ BackupsAreListed /\ localDb \in LocalDbs
  BY DEF MaintenanceInv, MaintenanceTypes
<1>0. PICK d : d = [localDb EXCEPT !.queued = localDb.queued \ syncBatch]
  OBVIOUS
<1>a. /\ syncStep = "pushing" /\ localDb' = d /\ serverRows' = serverRows \cup syncBatch /\ syncBatch' = {}
      /\ UNCHANGED <<memCursor, wipeStep, restored, wiped, doomed, crossedRun, halfWiped>>
      /\ UNCHANGED <<backups, shownBackups, restoringBackup, backupsRead>>
  BY <1>0, Zenon DEF SyncPushes, wipeVars, backupVars
<1>d. /\ d \in LocalDbs /\ d.rows = localDb.rows /\ d.queued = localDb.queued \ syncBatch
      /\ d.cursor = localDb.cursor
  BY <1>i, <1>0 DEF LocalDbs
<1>b. syncBatch' \subseteq Records /\ serverRows' \subseteq Records
  BY <1>i, <1>a DEF MaintenanceTypes
<1>1. MaintenanceTypes'
  BY <1>i, <1>a, <1>b, <1>d, Zenon DEF MaintenanceTypes
<1>2. WipedInv'
  BY <1>i, <1>a, <1>d DEF WipedInv
<1>3. CursorInv'
  BY <1>i, <1>a, <1>d DEF CursorInv, Covered
<1>4. BackupsAreListed'
  BY <1>i, <1>a, Zenon DEF BackupsAreListed
<1> QED
  BY <1>1, <1>2, <1>3, <1>4, Zenon DEF MaintenanceInv

(* A pull has rows of the server.                                            *)
LEMMA SyncPullsKeeps ==
    ASSUME MaintenanceInv, SyncPulls
    PROVE  MaintenanceInv'
<1>i. MaintenanceTypes /\ WipedInv /\ CursorInv /\ BackupsAreListed
  BY DEF MaintenanceInv
<1>a. /\ syncStep = "pulling" /\ syncBatch' = serverRows \ Cursor
      /\ UNCHANGED <<localDb, serverRows, memCursor, wipeStep, restored, wiped, doomed, crossedRun,
                     halfWiped>>
      /\ UNCHANGED <<backups, shownBackups, restoringBackup, backupsRead>>
  BY Zenon DEF SyncPulls, wipeVars, backupVars
<1>b. syncBatch' \subseteq serverRows /\ syncBatch' \subseteq Records
  BY <1>i, <1>a DEF MaintenanceTypes
<1>1. MaintenanceTypes'
  BY <1>i, <1>a, <1>b, Zenon DEF MaintenanceTypes
<1>2. WipedInv'
  BY <1>i, <1>a, <1>b DEF WipedInv
<1>3. CursorInv'
  BY <1>i, <1>a, Zenon DEF CursorInv, Covered
<1>4. BackupsAreListed'
  BY <1>i, <1>a, Zenon DEF BackupsAreListed
<1> QED
  BY <1>1, <1>2, <1>3, <1>4, Zenon DEF MaintenanceInv

(* The cursor a pull uses covers rows of the database, unless a deletion or  *)
(* a restore came in between.                                                *)
LEMMA CursorFacts ==
    ASSUME MaintenanceInv
    PROVE  /\ Cursor \subseteq Records
           /\ ~crossedRun /\ ~halfWiped /\ wipeStep \in {"none", "local"} /\ ~restored => Cursor \subseteq localDb.rows
<1>i. MaintenanceTypes /\ CursorInv /\ localDb \in LocalDbs /\ memCursor \in MemCursors
  BY DEF MaintenanceInv, MaintenanceTypes
<1>1. memCursor.rows \subseteq Records
  BY <1>i DEF MemCursors
<1>2. localDb.cursor \subseteq Records
  BY <1>i, DbFacts
<1>3. Cursor \subseteq Records
  BY <1>1, <1>2, Zenon DEF Cursor
<1>4. ASSUME ~crossedRun, ~halfWiped, wipeStep \in {"none", "local"}, ~restored
      PROVE  Cursor \subseteq localDb.rows
  BY <1>i, <1>4, Zenon DEF CursorInv, Covered, Cursor
<1> QED
  BY <1>3, <1>4

(* Pulled rows are stored together with the cursor that covers them.         *)
LEMMA SyncAppliesKeeps ==
    ASSUME MaintenanceInv, SyncApplies
    PROVE  MaintenanceInv'
<1>i. /\ MaintenanceTypes /\ WipedInv /\ CursorInv /\ BackupsAreListed /\ localDb \in LocalDbs
      /\ syncBatch \subseteq Records
  BY DEF MaintenanceInv, MaintenanceTypes
<1>c. PICK c : c = Cursor \cup syncBatch
  OBVIOUS
<1>0. PICK d : d = [localDb EXCEPT !.rows = localDb.rows \cup syncBatch, !.cursor = c]
  OBVIOUS
<1>a. /\ syncStep = "applying" /\ localDb' = d /\ syncBatch' = {}
      /\ UNCHANGED <<serverRows, wipeStep, restored, wiped, doomed, crossedRun, halfWiped>>
      /\ UNCHANGED <<backups, shownBackups, restoringBackup, backupsRead>>
  BY <1>0, <1>c, Zenon DEF SyncApplies, wipeVars, backupVars
<1>m. memCursor' = [known |-> TRUE, rows |-> c]
  BY <1>c, Zenon DEF SyncApplies
<1>d. /\ d \in LocalDbs /\ d.rows = localDb.rows \cup syncBatch /\ d.queued = localDb.queued /\ d.cursor = c
      /\ c \subseteq Records
  BY <1>i, <1>c, <1>0, CursorFacts DEF LocalDbs
<1>n. memCursor' \in MemCursors /\ memCursor'.rows = c
  BY <1>m, <1>d DEF MemCursors
<1>b. syncBatch' \subseteq Records
  BY <1>a
<1>1. MaintenanceTypes'
  BY <1>i, <1>a, <1>b, <1>d, <1>n, Zenon DEF MaintenanceTypes
<1>o. ~crossedRun => wipeStep = "none" /\ ~restored
  BY <1>i, <1>a, Zenon DEF WipedInv
<1>2. WipedInv'
  BY <1>i, <1>a, <1>d, <1>o DEF WipedInv
<1>3. CursorInv'
  <2>1. ASSUME ~crossedRun, ~halfWiped PROVE c \subseteq d.rows
    BY <1>c, <1>d, <1>o, <2>1, CursorFacts
  <2> QED
    BY <1>i, <1>a, <1>d, <1>n, <2>1, Zenon DEF CursorInv, Covered
<1>4. BackupsAreListed'
  BY <1>i, <1>a, Zenon DEF BackupsAreListed
<1> QED
  BY <1>1, <1>2, <1>3, <1>4, Zenon DEF MaintenanceInv

(* A deletion begins.                                                        *)
LEMMA DeleteStartKeeps ==
    ASSUME MaintenanceInv, handleDeleteAllData
    PROVE  MaintenanceInv'
<1>i. MaintenanceTypes /\ WipedInv /\ CursorInv /\ BackupsAreListed
  BY DEF MaintenanceInv
<1>a. /\ wipeStep = "none" /\ wipeStep' = "local"
      /\ ~crossedRun' => ~crossedRun /\ syncStep = "idle"
      /\ UNCHANGED <<localDb, serverRows, memCursor, syncStep, syncBatch, restored, wiped, doomed, halfWiped>>
      /\ UNCHANGED <<backups, shownBackups, restoringBackup, backupsRead>>
  BY Zenon DEF handleDeleteAllData, DeleteAllOffered, runVars, backupVars
<1>1. MaintenanceTypes'
  BY <1>i, <1>a, Zenon DEF MaintenanceTypes
<1>n. wipeStep' \notin {"token", "server"} /\ wipeStep \in {"none", "local"}
  BY <1>a
<1>2. WipedInv'
  BY <1>i, <1>a, <1>n, Zenon DEF WipedInv
<1>3. CursorInv'
  BY <1>i, <1>a, <1>n, Zenon DEF CursorInv, Covered
<1>4. BackupsAreListed'
  BY <1>i, <1>a, Zenon DEF BackupsAreListed
<1> QED
  BY <1>1, <1>2, <1>3, <1>4, Zenon DEF MaintenanceInv

(* The local rows go with their cursor, or the deletion is refused.          *)
LEMMA LocalDeleteKeeps ==
    ASSUME MaintenanceInv, deleteAllData
    PROVE  MaintenanceInv'
<1>i. MaintenanceTypes /\ WipedInv /\ CursorInv /\ BackupsAreListed
  BY DEF MaintenanceInv
<1>a. /\ wipeStep = "local"
      /\ UNCHANGED <<serverRows, memCursor, syncStep, syncBatch, restored, wiped, crossedRun, halfWiped>>
      /\ UNCHANGED <<backups, shownBackups, restoringBackup, backupsRead>>
      /\ \/ localDb' = EmptyDb /\ wipeStep' = "token"
         \/ wipeStep' = "none" /\ UNCHANGED localDb
  BY Zenon DEF deleteAllData, runVars, backupVars
<1>e. EmptyDb \in LocalDbs /\ EmptyDb.rows = {} /\ EmptyDb.queued = {} /\ EmptyDb.cursor = {}
  BY DEF EmptyDb, LocalDbs
<1>1. MaintenanceTypes'
  BY <1>i, <1>a, <1>e, Zenon DEF MaintenanceTypes
<1>2. ASSUME localDb' = EmptyDb, wipeStep' = "token" PROVE WipedInv' /\ CursorInv'
  <2>1. WipedInv'
    BY <1>i, <1>a, <1>e, <1>2 DEF WipedInv
  <2>2. wipeStep' \notin {"none", "local"}
    BY <1>2
  <2>3. Covered(localDb')
    BY <1>2, <1>e DEF Covered
  <2>4. CursorInv'
    BY <1>i, <1>a, <2>2, <2>3, Zenon DEF CursorInv, Covered
  <2> QED
    BY <2>1, <2>4
<1>3. ASSUME wipeStep' = "none", UNCHANGED localDb PROVE WipedInv' /\ CursorInv'
  <2>0. wipeStep' \notin {"token", "server"} /\ wipeStep \in {"none", "local"} /\ wipeStep # "none"
    BY <1>a, <1>3
  <2>1. WipedInv'
    BY <1>i, <1>a, <1>3, <2>0, Zenon DEF WipedInv
  <2>2. CursorInv'
    BY <1>i, <1>a, <1>3, <2>0, Zenon DEF CursorInv, Covered
  <2> QED
    BY <2>1, <2>2
<1>4. BackupsAreListed'
  BY <1>i, <1>a, Zenon DEF BackupsAreListed
<1>5. WipedInv' /\ CursorInv'
  BY <1>a, <1>2, <1>3, Zenon
<1> QED
  BY <1>1, <1>4, <1>5, Zenon DEF MaintenanceInv

(* The page is loaded anew: what is in memory is gone.                       *)
LEMMA ReloadFacts ==
    ASSUME Reload
    PROVE  /\ memCursor' \in MemCursors /\ ~memCursor'.known /\ syncBatch' = {} /\ syncStep' = "idle"
           /\ wipeStep' = "none" /\ restoringBackup' = NoBackup /\ backupsRead' /\ ~restored'
<1>1. /\ memCursor' = NoCursor /\ syncBatch' = {} /\ syncStep' = "idle"
      /\ wipeStep' = "none" /\ restoringBackup' = NoBackup /\ backupsRead' /\ ~restored'
  BY Zenon DEF Reload
<1>2. NoCursor \in MemCursors /\ ~NoCursor.known
  BY DEF NoCursor, MemCursors
<1> QED
  BY <1>1, <1>2, Zenon

(* A reload keeps what holds of the database.                                *)
LEMMA PageReloadKeeps ==
    ASSUME MaintenanceInv, Reload, UNCHANGED <<localDb, backups, shownBackups, halfWiped>>,
           serverRows' \subseteq Records, ~crossedRun' => ~crossedRun,
           ~crossedRun' => wiped' \cap (localDb.rows \cup localDb.queued \cup serverRows') = {}
    PROVE  MaintenanceInv'
<1>i. MaintenanceTypes /\ WipedInv /\ CursorInv /\ BackupsAreListed
  BY DEF MaintenanceInv
<1>r. /\ memCursor' \in MemCursors /\ ~memCursor'.known /\ syncBatch' = {} /\ syncStep' = "idle"
      /\ wipeStep' = "none" /\ restoringBackup' = NoBackup /\ backupsRead' /\ ~restored'
  BY ReloadFacts
<1>b. syncBatch' \subseteq Records
  BY <1>r
<1>1. MaintenanceTypes'
  BY <1>i, <1>r, <1>b, Zenon DEF MaintenanceTypes
<1>2. WipedInv'
  <2>1. wipeStep' \notin {"token", "server"}
    BY <1>r
  <2>2. ASSUME ~crossedRun'
        PROVE  wiped' \cap (localDb'.rows \cup localDb'.queued \cup serverRows' \cup syncBatch') = {}
    <3>1. wiped' \cap (localDb.rows \cup localDb.queued \cup serverRows') = {}
      BY <2>2, Zenon
    <3> QED
      BY <1>r, <3>1
  <2> QED
    BY <1>r, <2>1, <2>2, Zenon DEF WipedInv
<1>3. CursorInv'
  BY <1>i, <1>r, Zenon DEF CursorInv, Covered
<1>4. BackupsAreListed'
  BY <1>r, Zenon DEF BackupsAreListed
<1> QED
  BY <1>1, <1>2, <1>3, <1>4, Zenon DEF MaintenanceInv

(* With a token the server is next; without, it is passed over.              *)
LEMMA TokenKeeps ==
    ASSUME MaintenanceInv, NEW token \in BOOLEAN, TokenIsRead(token)
    PROVE  MaintenanceInv'
<1>i. MaintenanceTypes /\ WipedInv /\ CursorInv /\ BackupsAreListed /\ serverRows \subseteq Records
  BY DEF MaintenanceInv, MaintenanceTypes
<1>1. CASE token
  <2>a. /\ wipeStep = "token" /\ wipeStep' = "server"
        /\ UNCHANGED <<localDb, serverRows, memCursor, syncStep, syncBatch, restored, wiped, doomed,
                       crossedRun, halfWiped>>
        /\ UNCHANGED <<backups, shownBackups, restoringBackup, backupsRead>>
    BY <1>1, Zenon DEF TokenIsRead, runVars, backupVars
  <2>n. wipeStep \in {"token", "server"} /\ wipeStep # "none" /\ wipeStep' \notin {"none", "local"}
    BY <2>a
  <2>1. MaintenanceTypes'
    BY <1>i, <2>a, Zenon DEF MaintenanceTypes
  <2>2. WipedInv'
    BY <1>i, <2>a, <2>n, Zenon DEF WipedInv
  <2>3. CursorInv'
    BY <1>i, <2>a, <2>n, Zenon DEF CursorInv, Covered
  <2>4. BackupsAreListed'
    BY <1>i, <2>a, Zenon DEF BackupsAreListed
  <2> QED
    BY <2>1, <2>2, <2>3, <2>4, Zenon DEF MaintenanceInv
<1>2. CASE ~token
  <2>1. Reload /\ UNCHANGED <<localDb, backups, shownBackups, halfWiped>> /\ UNCHANGED serverRows /\ crossedRun'
    BY <1>2, Zenon DEF TokenIsRead, clearLocalBusinessCaches
  <2> QED
    BY <1>i, <2>1, PageReloadKeeps, Zenon
<1> QED
  BY <1>1, <1>2

(* The server has deleted all, or the deletion is half done.                 *)
LEMMA ServerDeleteKeeps ==
    ASSUME MaintenanceInv, NEW done \in BOOLEAN, NEW answered \in BOOLEAN, wipeServerData(done, answered)
    PROVE  MaintenanceInv'
<1>i. MaintenanceTypes /\ WipedInv /\ CursorInv /\ BackupsAreListed /\ serverRows \subseteq Records
  BY DEF MaintenanceInv, MaintenanceTypes
<1>a. wipeStep = "server" /\ serverRows' = IF done THEN {} ELSE serverRows
  BY Zenon DEF wipeServerData
<1>s. serverRows' \subseteq Records /\ serverRows' \subseteq serverRows
  BY <1>i, <1>a
<1>1. CASE done /\ answered /\ clearLocalBusinessCaches /\ UNCHANGED crossedRun
  <2>1. /\ Reload /\ UNCHANGED <<localDb, backups, shownBackups, halfWiped>> /\ UNCHANGED crossedRun
        /\ wiped' = wiped \cup doomed /\ serverRows' = {}
    BY <1>1, <1>a, Zenon DEF clearLocalBusinessCaches
  <2>2. ASSUME ~crossedRun
        PROVE  (wiped \cup doomed) \cap (localDb.rows \cup localDb.queued \cup {}) = {}
    <3>1. wipeStep \in {"token", "server"}
      BY <1>a
    <3>2. /\ wiped \cap (localDb.rows \cup localDb.queued \cup serverRows \cup syncBatch) = {}
          /\ doomed \cap (localDb.rows \cup localDb.queued) = {}
      BY <1>i, <2>2, <3>1, Zenon DEF WipedInv
    <3> QED
      BY <3>2
  <2>3. ~crossedRun' => wiped' \cap (localDb.rows \cup localDb.queued \cup serverRows') = {}
    BY <2>1, <2>2, Zenon
  <2> QED
    BY <1>s, <2>1, <2>3, PageReloadKeeps, Zenon
<1>2. CASE ~answered
  <2>a. /\ wipeStep' = "none" /\ halfWiped'
        /\ UNCHANGED <<localDb, memCursor, syncStep, syncBatch, restored, wiped, crossedRun>>
        /\ UNCHANGED <<backups, shownBackups, restoringBackup, backupsRead>>
    BY <1>2, Zenon DEF wipeServerData, runVars, backupVars
  <2>1. MaintenanceTypes'
    BY <1>i, <1>s, <2>a, Zenon DEF MaintenanceTypes
  <2>2. WipedInv'
    BY <1>i, <1>a, <1>s, <2>a DEF WipedInv
  <2>3. CursorInv'
    BY <2>a, Zenon DEF CursorInv
  <2>4. BackupsAreListed'
    BY <1>i, <2>a, Zenon DEF BackupsAreListed
  <2> QED
    BY <2>1, <2>2, <2>3, <2>4, Zenon DEF MaintenanceInv
<1> QED
  BY <1>1, <1>2, Zenon DEF wipeServerData

(* A backup is a copy of the database.                                       *)
LEMMA CreateKeeps ==
    ASSUME MaintenanceInv, createLocalBackup
    PROVE  MaintenanceInv'
<1>i. MaintenanceTypes /\ WipedInv /\ CursorInv /\ BackupsAreListed
  BY DEF MaintenanceInv
<1>a. /\ UNCHANGED <<localDb, serverRows, memCursor, syncStep, syncBatch, wipeStep, restored, wiped,
                     doomed, crossedRun, halfWiped>>
      /\ UNCHANGED <<shownBackups, restoringBackup>>
  BY Zenon DEF createLocalBackup, runVars, wipeVars
<1>1. CASE UNCHANGED <<backups, backupsRead>>
  <2>1. /\ UNCHANGED <<localDb, serverRows, memCursor, syncStep, syncBatch, wipeStep>>
        /\ UNCHANGED <<backups, shownBackups, restoringBackup, backupsRead, restored, wiped, doomed,
                       crossedRun, halfWiped>>
    BY <1>a, <1>1
  <2> QED
    BY <2>1, RestKeepsMaintenance
<1>2. CASE ~UNCHANGED <<backups, backupsRead>>
  <2>0. PICK n : n = Cardinality(DOMAIN backups) + 1
    OBVIOUS
  <2>1. /\ backups' = [b \in DOMAIN backups \cup {n} |-> IF b \in DOMAIN backups THEN backups[b] ELSE localDb]
        /\ backupsRead'
    BY <1>2, <2>0, Zenon DEF createLocalBackup, fetchBackups
  <2>2. /\ \A b \in DOMAIN backups' : backups'[b] = localDb \/ (b \in DOMAIN backups /\ backups'[b] = backups[b])
        /\ DOMAIN backups \subseteq DOMAIN backups'
    BY <2>1
  <2>3. MaintenanceTypes'
    <3>1. \A b \in DOMAIN backups' : backups'[b] \in LocalDbs
      BY <1>i, <2>2, Zenon DEF MaintenanceTypes
    <3> QED
      BY <1>i, <1>a, <2>2, <3>1, Zenon DEF MaintenanceTypes
  <2>4. WipedInv'
    BY <1>i, <1>a, Zenon DEF WipedInv
  <2>5. CursorInv'
    <3>1. ASSUME ~crossedRun, ~halfWiped PROVE \A b \in DOMAIN backups' : Covered(backups'[b])
      <4>1. Covered(localDb) /\ \A b \in DOMAIN backups : Covered(backups[b])
        BY <1>i, <3>1, Zenon DEF CursorInv
      <4> QED
        BY <2>2, <4>1
    <3> QED
      BY <1>i, <1>a, <3>1, Zenon DEF CursorInv, Covered
  <2>6. BackupsAreListed'
    BY <2>1, Zenon DEF BackupsAreListed
  <2> QED
    BY <2>3, <2>4, <2>5, <2>6, Zenon DEF MaintenanceInv
<1> QED
  BY <1>1, <1>2

(* The list names every backup.                                              *)
LEMMA ListKeeps ==
    ASSUME MaintenanceInv, listLocalBackups
    PROVE  MaintenanceInv'
<1>i. MaintenanceTypes /\ WipedInv /\ CursorInv
  BY DEF MaintenanceInv
<1>a. /\ UNCHANGED <<localDb, serverRows, memCursor, syncStep, syncBatch, wipeStep, restored, wiped,
                     doomed, crossedRun, halfWiped>>
      /\ UNCHANGED <<backups, restoringBackup>> /\ shownBackups' = DOMAIN backups
  BY Zenon DEF listLocalBackups, runVars, wipeVars
<1>b. shownBackups' \subseteq DOMAIN backups' /\ shownBackups' = DOMAIN backups'
  BY <1>a
<1>1. MaintenanceTypes'
  BY <1>i, <1>a, <1>b, Zenon DEF MaintenanceTypes
<1>2. WipedInv'
  BY <1>i, <1>a, Zenon DEF WipedInv
<1>3. CursorInv'
  BY <1>i, <1>a, Zenon DEF CursorInv, Covered
<1>4. BackupsAreListed'
  BY <1>b, Zenon DEF BackupsAreListed
<1> QED
  BY <1>1, <1>2, <1>3, <1>4, Zenon DEF MaintenanceInv

(* A listed backup is chosen.                                                *)
LEMMA BackupChosenKeeps ==
    ASSUME MaintenanceInv, NEW b \in shownBackups, handleRestoreBackup(b)
    PROVE  MaintenanceInv'
<1>i. MaintenanceTypes /\ WipedInv /\ CursorInv /\ BackupsAreListed
  BY DEF MaintenanceInv
<1>a. /\ UNCHANGED <<localDb, serverRows, memCursor, syncStep, syncBatch, wipeStep, restored, wiped,
                     doomed, crossedRun, halfWiped>>
      /\ UNCHANGED <<backups, shownBackups, backupsRead>> /\ restoringBackup' = b
  BY Zenon DEF handleRestoreBackup, runVars, wipeVars
<1>1. MaintenanceTypes'
  BY <1>i, <1>a, Zenon DEF MaintenanceTypes
<1>2. WipedInv'
  BY <1>i, <1>a, Zenon DEF WipedInv
<1>3. CursorInv'
  BY <1>i, <1>a, Zenon DEF CursorInv, Covered
<1>4. BackupsAreListed'
  BY <1>i, <1>a, Zenon DEF BackupsAreListed
<1> QED
  BY <1>1, <1>2, <1>3, <1>4, Zenon DEF MaintenanceInv

(* A backup takes the place of the database.                                 *)
LEMMA RestoreKeeps ==
    ASSUME MaintenanceInv, restoreFromBackup
    PROVE  MaintenanceInv'
<1>i. MaintenanceTypes /\ WipedInv /\ CursorInv /\ BackupsAreListed
  BY DEF MaintenanceInv
<1>a. /\ restoringBackup # NoBackup
      /\ UNCHANGED <<serverRows, memCursor, syncStep, syncBatch, backups, shownBackups, backupsRead>>
      /\ \/ /\ localDb' = backups[restoringBackup] /\ restored' /\ wiped' = {} /\ doomed' = {}
            /\ ~crossedRun' => ~crossedRun /\ syncStep = "idle" /\ wipeStep = "none"
            /\ UNCHANGED <<restoringBackup, wipeStep, halfWiped>>
         \/ /\ restoringBackup' = NoBackup
            /\ UNCHANGED <<localDb, restored, wipeStep, wiped, doomed, crossedRun, halfWiped>>
  BY Zenon DEF restoreFromBackup, runVars, wipeVars
<1>b. restoringBackup \in DOMAIN backups
  BY <1>i, <1>a, Zenon DEF MaintenanceTypes
<1>4. BackupsAreListed'
  BY <1>i, <1>a, Zenon DEF BackupsAreListed
<1>1. CASE /\ localDb' = backups[restoringBackup] /\ restored' /\ wiped' = {} /\ doomed' = {}
           /\ ~crossedRun' => ~crossedRun /\ syncStep = "idle" /\ wipeStep = "none"
           /\ UNCHANGED <<restoringBackup, wipeStep, halfWiped>>
  <2>1. MaintenanceTypes'
    BY <1>i, <1>a, <1>b, <1>1, Zenon DEF MaintenanceTypes
  <2>2. WipedInv'
    <3>1. wiped' \cap (localDb'.rows \cup localDb'.queued \cup serverRows' \cup syncBatch') = {}
      BY <1>1
    <3>2. doomed' \cap (localDb'.rows \cup localDb'.queued) = {}
      BY <1>1
    <3> QED
      BY <1>a, <1>1, <3>1, <3>2, Zenon DEF WipedInv
  <2>3. CursorInv'
    <3>1. ASSUME ~crossedRun', ~halfWiped' PROVE Covered(localDb') /\ \A b \in DOMAIN backups' : Covered(backups'[b])
      BY <1>i, <1>a, <1>b, <1>1, <3>1, Zenon DEF CursorInv
    <3> QED
      BY <1>1, <3>1, Zenon DEF CursorInv, Covered
  <2> QED
    BY <1>4, <2>1, <2>2, <2>3, Zenon DEF MaintenanceInv
<1>2. CASE /\ restoringBackup' = NoBackup
           /\ UNCHANGED <<localDb, restored, wipeStep, wiped, doomed, crossedRun, halfWiped>>
  <2>1. MaintenanceTypes'
    BY <1>i, <1>a, <1>2, Zenon DEF MaintenanceTypes
  <2>2. WipedInv'
    BY <1>i, <1>a, <1>2, Zenon DEF WipedInv
  <2>3. CursorInv'
    BY <1>i, <1>a, <1>2, Zenon DEF CursorInv, Covered
  <2> QED
    BY <1>4, <2>1, <2>2, <2>3, Zenon DEF MaintenanceInv
<1> QED
  BY <1>a, <1>1, <1>2, Zenon

(* After a restore the page is loaded anew.                                  *)
LEMMA ReloadRestoredKeeps ==
    ASSUME MaintenanceInv, ReloadRestored
    PROVE  MaintenanceInv'
<1>1. WipedInv /\ serverRows \subseteq Records
  BY DEF MaintenanceInv, MaintenanceTypes
<1>2. Reload /\ UNCHANGED <<localDb, backups, shownBackups, halfWiped>> /\ UNCHANGED <<serverRows, wiped,
                                                                                       crossedRun>>
  BY Zenon DEF ReloadRestored
<1>3. ASSUME ~crossedRun PROVE wiped \cap (localDb.rows \cup localDb.queued \cup serverRows) = {}
  <2>1. wiped \cap (localDb.rows \cup localDb.queued \cup serverRows \cup syncBatch) = {}
    BY <1>1, <1>3, Zenon DEF WipedInv
  <2> QED
    BY <2>1
<1>4. ~crossedRun' => wiped' \cap (localDb.rows \cup localDb.queued \cup serverRows') = {}
  BY <1>2, <1>3, Zenon
<1> QED
  BY <1>1, <1>2, <1>4, PageReloadKeeps, Zenon

(* Every step keeps the invariant of maintenance.                            *)
LEMMA MaintenanceKeeps == MaintenanceInv /\ [MaintenanceNext]_maintenanceVars => MaintenanceInv'
<1> SUFFICES ASSUME MaintenanceInv, [MaintenanceNext]_maintenanceVars PROVE MaintenanceInv'
  OBVIOUS
<1>1. CASE UNCHANGED maintenanceVars \/ OpenDeleteModal \/ CloseDeleteModal \/ handleCreateBackup
  <2>1. /\ UNCHANGED <<localDb, serverRows, memCursor, syncStep, syncBatch, wipeStep>>
        /\ UNCHANGED <<backups, shownBackups, restoringBackup, backupsRead, restored, wiped, doomed,
                       crossedRun, halfWiped>>
    BY <1>1, Zenon DEF maintenanceVars, OpenDeleteModal, CloseDeleteModal, handleCreateBackup, runVars,
           wipeVars, backupVars
  <2> QED
    BY <2>1, RestKeepsMaintenance
<1>2. CASE \E r \in Records : Record(r)
  BY <1>2, RecordKeeps
<1>3. CASE SyncStarts \/ SyncPushes \/ SyncPulls \/ SyncApplies
  BY <1>3, SyncStartsKeeps, SyncPushesKeeps, SyncPullsKeeps, SyncAppliesKeeps
<1>4. CASE handleDeleteAllData \/ deleteAllData
  BY <1>4, DeleteStartKeeps, LocalDeleteKeeps
<1>5. CASE \E token \in BOOLEAN : TokenIsRead(token)
  BY <1>5, TokenKeeps
<1>6. CASE \E done, answered \in BOOLEAN : wipeServerData(done, answered)
  BY <1>6, ServerDeleteKeeps
<1>7. CASE createLocalBackup \/ listLocalBackups
  BY <1>7, CreateKeeps, ListKeeps
<1>8. CASE \E b \in shownBackups : handleRestoreBackup(b)
  BY <1>8, BackupChosenKeeps
<1>9. CASE restoreFromBackup \/ ReloadRestored
  BY <1>9, RestoreKeeps, ReloadRestoredKeeps
<1> QED
  BY <1>1, <1>2, <1>3, <1>4, <1>5, <1>6, <1>7, <1>8, <1>9, Zenon DEF MaintenanceNext

(* The invariant says what is promised of deletion and restore.              *)
LEMMA MaintenanceMeans == MaintenanceInv => DeletedStaysDeleted /\ PulledIsHere /\ BackupsAreListed
<1> SUFFICES ASSUME MaintenanceInv PROVE DeletedStaysDeleted /\ PulledIsHere /\ BackupsAreListed
  OBVIOUS
<1>1. BackupsAreListed /\ WipedInv
  BY DEF MaintenanceInv
<1>2. ASSUME ~crossedRun PROVE wiped \cap (localDb.rows \cup serverRows \cup localDb.queued) = {}
  <2>1. wiped \cap (localDb.rows \cup localDb.queued \cup serverRows \cup syncBatch) = {}
    BY <1>1, <1>2, Zenon DEF WipedInv
  <2> QED
    BY <2>1
<1>3. ASSUME ~crossedRun, ~halfWiped, wipeStep = "none", ~restored
      PROVE  Cursor \cap serverRows \subseteq localDb.rows
  <2>0. wipeStep \in {"none", "local"}
    BY <1>3
  <2>1. Cursor \subseteq localDb.rows
    BY <1>3, <2>0, CursorFacts, Zenon
  <2> QED
    BY <2>1
<1> QED
  BY <1>1, <1>2, <1>3, Zenon DEF DeletedStaysDeleted, PulledIsHere

(* What was deleted stays deleted, what the cursor covers is here, and the   *)
(* list of backups is complete, for any set of records and any number of     *)
(* deletions, syncs and backups (handleDeleteAllData, restoreFromBackup).    *)
THEOREM MaintenanceSound ==
    MaintenanceInit /\ [][MaintenanceNext]_maintenanceVars =>
        [](DeletedStaysDeleted /\ PulledIsHere /\ BackupsAreListed)
  BY MaintenanceStarts, MaintenanceKeeps, MaintenanceMeans, PTL
-----------------------------------------------------------------------------
Schedulers == [stopped : BOOLEAN, midnight : Nat, observedDate : Nat]
Rearms(i) == [of |-> i, then |-> TRUE]
Armed(s, i, rs) == IF s.stopped THEN s.midnight = 0 ELSE s.midnight # 0 \/ Rearms(i) \in rs

(* What the variables hold; the schedulers are numbered in order of start.   *)
SchedulerTypes ==
    /\ today \in Nat /\ 0 < today /\ lastDaily \in Nat /\ dailyBackups \subseteq Nat
    /\ \E n \in Nat : DOMAIN schedulers = 1 .. n
    /\ \A i \in DOMAIN schedulers : schedulers[i] \in Schedulers
    /\ \A r \in backupRuns : r.of \in DOMAIN schedulers

(* The last daily backup is one that was taken; a scheduler has seen no date *)
(* that is still to come, and the date it acted on is backed up or a run     *)
(* that will do so is under way.                                             *)
DatesInv ==
    /\ lastDaily \in dailyBackups \cup {0}
    /\ \A i \in DOMAIN schedulers :
          /\ schedulers[i].observedDate <= today
          /\ failedOn = {} => \/ ~(schedulers[i].observedDate > started[i]) \/ backupRuns # {}
                              \/ \E b \in dailyBackups : b >= schedulers[i].observedDate
ArmedInv == \A i \in DOMAIN schedulers : Armed(schedulers[i], i, backupRuns)

SchedulerInv == SchedulerTypes /\ DatesInv /\ ArmedInv
-----------------------------------------------------------------------------
(* Before the first start there is nothing to arm.                           *)
LEMMA SchedulerStarts == SchedulerInit => SchedulerInv
<1> SUFFICES ASSUME SchedulerInit PROVE SchedulerInv
  OBVIOUS
<1>1. today = 1 /\ lastDaily = 0 /\ dailyBackups = {} /\ schedulers = <<>> /\ backupRuns = {}
  BY Zenon DEF SchedulerInit
<1>2. DOMAIN schedulers = 1 .. 0 /\ DOMAIN schedulers = {}
  BY <1>1
<1> QED
  BY <1>1, <1>2 DEF SchedulerInv, SchedulerTypes, DatesInv, ArmedInv

(* A start adds the next scheduler; it is armed and has seen today.          *)
LEMMA StartArms ==
    ASSUME SchedulerInv, startDailyBackupScheduler
    PROVE  SchedulerInv'
<1>t. SchedulerTypes /\ DatesInv /\ ArmedInv
  BY DEF SchedulerInv
<1>1. PICK m \in Nat : DOMAIN schedulers = 1 .. m
  BY <1>t DEF SchedulerTypes
<1>2. Cardinality(DOMAIN schedulers) = m
  BY <1>1, FS_Interval
<1>0. PICK s : s = [stopped |-> FALSE, midnight |-> today + 1, observedDate |-> today]
  OBVIOUS
<1>a. /\ schedulers' = [i \in 1..(m + 1) |-> IF i < m + 1 THEN schedulers[i] ELSE s]
      /\ started' = [i \in 1..(m + 1) |-> IF i < m + 1 THEN started[i] ELSE today]
      /\ UNCHANGED <<today, lastDaily, dailyBackups, backupRuns, failedOn>>
  BY <1>0, <1>2, Zenon DEF startDailyBackupScheduler
<1>d. today \in Nat /\ 0 < today
  BY <1>t DEF SchedulerTypes
<1>s. s \in Schedulers /\ s.observedDate = today /\ s.midnight = today + 1 /\ s.midnight # 0 /\ ~s.stopped
  BY <1>0, <1>d DEF Schedulers
<1>3. DOMAIN schedulers' = 1 .. (m + 1) /\ m + 1 \in Nat
  BY <1>a
<1>4. /\ \A i \in DOMAIN schedulers : schedulers'[i] = schedulers[i] /\ started'[i] = started[i]
      /\ schedulers'[m + 1] = s /\ started'[m + 1] = today
      /\ \A i \in DOMAIN schedulers' : i \in DOMAIN schedulers \/ i = m + 1
      /\ \A i \in DOMAIN schedulers : i \in DOMAIN schedulers'
  BY <1>1, <1>a
<1>5. SchedulerTypes'
  <2>1. \A i \in DOMAIN schedulers' : schedulers'[i] \in Schedulers
    BY <1>t, <1>4, <1>s, Zenon DEF SchedulerTypes
  <2> QED
    BY <1>t, <1>a, <1>3, <1>4, <2>1, Zenon DEF SchedulerTypes
<1>6. DatesInv'
  <2>0. today <= today /\ ~(today > today)
    BY <1>d
  <2>1. ASSUME NEW i \in DOMAIN schedulers'
        PROVE  /\ schedulers'[i].observedDate <= today
               /\ failedOn = {} => \/ ~(schedulers'[i].observedDate > started'[i]) \/ backupRuns # {}
                                   \/ \E b \in dailyBackups : b >= schedulers'[i].observedDate
    <3>1. CASE i \in DOMAIN schedulers
      BY <1>t, <1>4, <3>1 DEF DatesInv
    <3>2. CASE i = m + 1
      BY <1>4, <1>s, <2>0, <3>2
    <3> QED
      BY <1>4, <3>1, <3>2
  <2> QED
    BY <1>t, <1>a, <2>1, Zenon DEF DatesInv
<1>7. ArmedInv'
  <2>1. ASSUME NEW i \in DOMAIN schedulers' PROVE Armed(schedulers'[i], i, backupRuns)
    <3>1. CASE i \in DOMAIN schedulers
      BY <1>t, <1>4, <3>1 DEF ArmedInv
    <3>2. CASE i = m + 1
      BY <1>4, <1>s, <3>2, Zenon DEF Armed
    <3> QED
      BY <1>4, <3>1, <3>2
  <2> QED
    BY <1>a, <2>1 DEF ArmedInv
<1> QED
  BY <1>5, <1>6, <1>7 DEF SchedulerInv

(* The step of one scheduler: it is armed after it, and what it observed is  *)
(* what it had or today with a run under way.                                *)
LEMMA OneMoves ==
    ASSUME SchedulerInv, NEW i \in DOMAIN schedulers, NEW s \in Schedulers,
           schedulers' = [schedulers EXCEPT ![i] = s], Armed(s, i, backupRuns'),
           backupRuns \subseteq backupRuns', \A r \in backupRuns' : r \in backupRuns \/ r.of = i,
           s.observedDate = schedulers[i].observedDate \/ (s.observedDate = today /\ backupRuns' # {}),
           UNCHANGED <<today, lastDaily, dailyBackups, started, failedOn>>
    PROVE  SchedulerInv'
<1>t. SchedulerTypes /\ DatesInv /\ ArmedInv
  BY DEF SchedulerInv
<1>d. today \in Nat
  BY <1>t DEF SchedulerTypes
<1>1. /\ DOMAIN schedulers' = DOMAIN schedulers /\ schedulers'[i] = s
      /\ \A j \in DOMAIN schedulers : j # i => schedulers'[j] = schedulers[j]
  OBVIOUS
<1>2. SchedulerTypes'
  <2>1. \A j \in DOMAIN schedulers' : schedulers'[j] \in Schedulers
    BY <1>t, <1>1, Zenon DEF SchedulerTypes
  <2>2. \A r \in backupRuns' : r.of \in DOMAIN schedulers'
    BY <1>t, <1>1, Zenon DEF SchedulerTypes
  <2> QED
    BY <1>t, <1>1, <2>1, <2>2, Zenon DEF SchedulerTypes
<1>3. DatesInv'
  <2>1. ASSUME NEW j \in DOMAIN schedulers'
        PROVE  /\ schedulers'[j].observedDate <= today
               /\ failedOn = {} => \/ ~(schedulers'[j].observedDate > started[j]) \/ backupRuns' # {}
                                   \/ \E b \in dailyBackups : b >= schedulers'[j].observedDate
    <3>0. /\ schedulers[j].observedDate <= today
          /\ failedOn = {} => \/ ~(schedulers[j].observedDate > started[j]) \/ backupRuns # {}
                              \/ \E b \in dailyBackups : b >= schedulers[j].observedDate
      BY <1>t, <1>1, Zenon DEF DatesInv
    <3>1. CASE schedulers'[j].observedDate = schedulers[j].observedDate
      BY <3>0, <3>1
    <3>2. CASE schedulers'[j].observedDate = today /\ backupRuns' # {}
      BY <1>d, <3>2
    <3> QED
      BY <1>1, <3>1, <3>2
  <2> QED
    BY <1>t, <2>1, Zenon DEF DatesInv
<1>4. ArmedInv'
  <2>1. ASSUME NEW j \in DOMAIN schedulers' PROVE Armed(schedulers'[j], j, backupRuns')
    <3>1. CASE j # i
      BY <1>t, <1>1, <3>1, Zenon DEF ArmedInv, Armed
    <3>2. CASE j = i
      BY <1>1, <3>2
    <3> QED
      BY <3>1, <3>2
  <2> QED
    BY <2>1 DEF ArmedInv
<1> QED
  BY <1>2, <1>3, <1>4 DEF SchedulerInv

(* A stopped scheduler has no timer.                                         *)
LEMMA StopArms ==
    ASSUME SchedulerInv, NEW i \in DOMAIN schedulers, stopDailyBackupScheduler(i)
    PROVE  SchedulerInv'
<1>t. schedulers[i] \in Schedulers
  BY DEF SchedulerInv, SchedulerTypes
<1>0. PICK s : s = [schedulers[i] EXCEPT !.stopped = TRUE, !.midnight = 0]
  OBVIOUS
<1>s. s \in Schedulers /\ s.stopped /\ s.midnight = 0 /\ s.observedDate = schedulers[i].observedDate
  BY <1>0, <1>t DEF Schedulers
<1>a. UNCHANGED <<today, lastDaily, dailyBackups, started, failedOn>> /\ UNCHANGED backupRuns
  BY Zenon DEF stopDailyBackupScheduler
<1>1. schedulers' = [schedulers EXCEPT ![i] = s]
  BY <1>0, <1>t DEF stopDailyBackupScheduler, Schedulers
<1>2. Armed(s, i, backupRuns')
  BY <1>s, Zenon DEF Armed
<1> QED
  BY <1>s, <1>a, <1>1, <1>2, OneMoves

(* A timer that fired is set again by its run.                               *)
LEMMA FireArms ==
    ASSUME SchedulerInv, NEW i \in DOMAIN schedulers, MidnightFires(i)
    PROVE  SchedulerInv'
<1>t. schedulers[i] \in Schedulers /\ today \in Nat
  BY DEF SchedulerInv, SchedulerTypes
<1>0. PICK s : s = [schedulers[i] EXCEPT !.midnight = 0, !.observedDate = today]
  OBVIOUS
<1>s. s \in Schedulers /\ s.stopped = schedulers[i].stopped /\ s.midnight = 0 /\ s.observedDate = today
  BY <1>0, <1>t DEF Schedulers
<1>a. UNCHANGED <<today, lastDaily, dailyBackups, started, failedOn>> /\ backupRuns' = backupRuns \cup {Rearms(i)}
  BY Zenon DEF MidnightFires, Rearms
<1>1. schedulers' = [schedulers EXCEPT ![i] = s]
  BY <1>0, <1>t DEF MidnightFires, Schedulers
<1>2. Armed(s, i, backupRuns')
  BY <1>s, <1>a, Zenon DEF Armed
<1>3. Rearms(i).of = i
  BY DEF Rearms
<1> QED
  BY <1>s, <1>a, <1>1, <1>2, <1>3, OneMoves

(* A resumed scheduler keeps its timer.                                      *)
LEMMA ResumeArms ==
    ASSUME SchedulerInv, NEW i \in DOMAIN schedulers, handleResume(i)
    PROVE  SchedulerInv'
<1>t. schedulers[i] \in Schedulers /\ today \in Nat /\ Armed(schedulers[i], i, backupRuns)
  BY DEF SchedulerInv, SchedulerTypes, ArmedInv
<1>0. PICK s : s = [schedulers[i] EXCEPT !.observedDate = today]
  OBVIOUS
<1>s. s \in Schedulers /\ s.stopped = schedulers[i].stopped /\ s.midnight = schedulers[i].midnight /\ s.observedDate = today
  BY <1>0, <1>t DEF Schedulers
<1>r. PICK r : r = [of |-> i, then |-> FALSE]
  OBVIOUS
<1>a. UNCHANGED <<today, lastDaily, dailyBackups, started, failedOn>> /\ backupRuns' = backupRuns \cup {r}
  BY <1>r, Zenon DEF handleResume
<1>1. schedulers' = [schedulers EXCEPT ![i] = s]
  BY <1>0, <1>t DEF handleResume, Schedulers
<1>2. Armed(s, i, backupRuns')
  BY <1>t, <1>s, <1>a, Zenon DEF Armed
<1>3. r.of = i
  BY <1>r
<1> QED
  BY <1>s, <1>a, <1>1, <1>2, <1>3, OneMoves

(* A run ends: the date is backed up, or the failure is on record.           *)
LEMMA RunArms ==
    ASSUME SchedulerInv, NEW r \in backupRuns, runBackup(r)
    PROVE  SchedulerInv'
<1>t. SchedulerTypes /\ DatesInv /\ ArmedInv
  BY DEF SchedulerInv
<1>d. /\ today \in Nat /\ 0 < today /\ r.of \in DOMAIN schedulers /\ schedulers[r.of] \in Schedulers
      /\ dailyBackups \subseteq Nat /\ lastDaily \in Nat
  BY <1>t DEF SchedulerTypes
<1>u. UNCHANGED <<today, started>> /\ backupRuns' = backupRuns \ {r}
  BY Zenon DEF runBackup
<1>b. /\ lastDaily' \in Nat /\ dailyBackups' \subseteq Nat /\ lastDaily' \in dailyBackups' \cup {0}
      /\ failedOn' = {} => today \in dailyBackups'
  <2>1. CASE lastDaily = today /\ UNCHANGED <<lastDaily, dailyBackups, failedOn>>
    BY <1>t, <1>d, <2>1 DEF DatesInv
  <2>2. CASE lastDaily' = today /\ dailyBackups' = dailyBackups \cup {today}
    BY <1>d, <2>2
  <2>3. CASE failedOn' = failedOn \cup {today} /\ UNCHANGED <<lastDaily, dailyBackups>>
    BY <1>t, <1>d, <2>3 DEF DatesInv
  <2> QED
    BY <2>1, <2>2, <2>3, Zenon DEF runBackup, BackedUpToday
<1>s. PICK s \in Schedulers : /\ schedulers'[r.of] = s /\ DOMAIN schedulers' = DOMAIN schedulers
                              /\ \A j \in DOMAIN schedulers : j # r.of => schedulers'[j] = schedulers[j]
                              /\ s.observedDate = schedulers[r.of].observedDate /\ s.stopped = schedulers[r.of].stopped
                              /\ \/ s = schedulers[r.of] /\ (s.stopped \/ ~r.then)
                                 \/ s.midnight # 0 /\ ~s.stopped
  <2>1. CASE r.then /\ ~schedulers[r.of].stopped
    <3>0. PICK s : s = [schedulers[r.of] EXCEPT !.midnight = today + 1]
      OBVIOUS
    <3>1. /\ s \in Schedulers /\ s.observedDate = schedulers[r.of].observedDate
          /\ s.stopped = schedulers[r.of].stopped /\ s.midnight # 0
      BY <1>d, <3>0 DEF Schedulers
    <3>2. schedulers' = [schedulers EXCEPT ![r.of] = s]
      BY <2>1, <3>0, Zenon DEF runBackup, scheduleNextMidnight
    <3>3. /\ schedulers'[r.of] = s /\ DOMAIN schedulers' = DOMAIN schedulers
          /\ \A j \in DOMAIN schedulers : j # r.of => schedulers'[j] = schedulers[j]
      BY <1>d, <3>2
    <3> QED
      BY <2>1, <3>1, <3>3, Zenon
  <2>2. CASE ~(r.then /\ ~schedulers[r.of].stopped)
    <3>1. schedulers' = schedulers \/ schedulers' = [schedulers EXCEPT ![r.of] = schedulers[r.of]]
      BY <2>2, Zenon DEF runBackup, scheduleNextMidnight
    <3>3. /\ schedulers'[r.of] = schedulers[r.of] /\ DOMAIN schedulers' = DOMAIN schedulers
          /\ \A j \in DOMAIN schedulers : j # r.of => schedulers'[j] = schedulers[j]
      BY <1>d, <3>1
    <3> QED
      BY <1>d, <2>2, <3>3, Zenon
  <2> QED
    BY <2>1, <2>2
<1>1. /\ DOMAIN schedulers' = DOMAIN schedulers /\ schedulers'[r.of] = s
      /\ \A j \in DOMAIN schedulers : j # r.of => schedulers'[j] = schedulers[j]
  BY <1>s
<1>2. SchedulerTypes'
  <2>1. \A j \in DOMAIN schedulers' : schedulers'[j] \in Schedulers
    BY <1>t, <1>1, Zenon DEF SchedulerTypes
  <2>2. \A q \in backupRuns' : q.of \in DOMAIN schedulers'
    BY <1>t, <1>1, <1>u, Zenon DEF SchedulerTypes
  <2> QED
    BY <1>t, <1>u, <1>b, <1>1, <2>1, <2>2, Zenon DEF SchedulerTypes
<1>3. DatesInv'
  <2>1. ASSUME NEW j \in DOMAIN schedulers'
        PROVE  /\ schedulers'[j].observedDate <= today
               /\ failedOn' = {} => \E b \in dailyBackups' : b >= schedulers'[j].observedDate
    <3>1. schedulers[j].observedDate <= today /\ schedulers'[j].observedDate = schedulers[j].observedDate
      BY <1>t, <1>1, <1>s, Zenon DEF DatesInv
    <3>2. schedulers[j] \in Schedulers
      BY <1>t, <1>1, Zenon DEF SchedulerTypes
    <3>3. schedulers[j].observedDate \in Nat
      BY <3>2 DEF Schedulers
    <3> QED
      BY <1>d, <1>b, <3>1, <3>3
  <2> QED
    BY <1>b, <1>u, <2>1, Zenon DEF DatesInv
<1>4. ArmedInv'
  <2>1. ASSUME NEW j \in DOMAIN schedulers' PROVE Armed(schedulers'[j], j, backupRuns')
    <3>a. Armed(schedulers[j], j, backupRuns)
      BY <1>t, <1>1, Zenon DEF ArmedInv
    <3>o. Rearms(j).of = j
      BY DEF Rearms
    <3>1. CASE j # r.of
      BY <1>1, <1>u, <3>a, <3>o, <3>1, Zenon DEF Armed
    <3>2. CASE j = r.of /\ s.midnight # 0 /\ ~s.stopped
      BY <1>1, <3>2, Zenon DEF Armed
    <3>3. CASE j = r.of /\ s = schedulers[r.of] /\ (s.stopped \/ ~r.then)
      <4>1. CASE s.stopped
        BY <1>1, <3>a, <3>3, <4>1, Zenon DEF Armed
      <4>2. CASE ~r.then
        <5>1. r # Rearms(j)
          BY <4>2 DEF Rearms
        <5> QED
          BY <1>1, <1>u, <3>a, <3>3, <5>1, Zenon DEF Armed
      <4> QED
        BY <3>3, <4>1, <4>2
    <3> QED
      BY <1>s, <3>1, <3>2, <3>3, Zenon
  <2> QED
    BY <2>1 DEF ArmedInv
<1> QED
  BY <1>2, <1>3, <1>4 DEF SchedulerInv

(* Every step keeps the invariant of the schedulers.                         *)
LEMMA SchedulerKeeps == SchedulerInv /\ [SchedulerNext]_schedulerVars => SchedulerInv'
<1> SUFFICES ASSUME SchedulerInv, [SchedulerNext]_schedulerVars PROVE SchedulerInv'
  OBVIOUS
<1>1. CASE UNCHANGED schedulerVars
  BY <1>1 DEF schedulerVars, SchedulerInv, SchedulerTypes, DatesInv, ArmedInv
<1>2. CASE DayPasses
  <2>1. today' = today + 1 /\ UNCHANGED <<lastDaily, dailyBackups, schedulers, backupRuns, started, failedOn>>
    BY <1>2 DEF DayPasses
  <2>2. SchedulerTypes /\ DatesInv /\ ArmedInv
    BY DEF SchedulerInv
  <2>3. SchedulerTypes'
    BY <2>1, <2>2 DEF SchedulerTypes
  <2>4. DatesInv'
    <3>1. ASSUME NEW i \in DOMAIN schedulers PROVE schedulers[i].observedDate <= today + 1
      <4>1. schedulers[i] \in Schedulers /\ schedulers[i].observedDate <= today /\ today \in Nat
        BY <2>2 DEF SchedulerTypes, DatesInv
      <4>2. schedulers[i].observedDate \in Nat
        BY <4>1 DEF Schedulers
      <4> QED
        BY <4>1, <4>2
    <3> QED
      BY <2>1, <2>2, <3>1, Zenon DEF DatesInv
  <2>5. ArmedInv'
    BY <2>1, <2>2 DEF ArmedInv
  <2> QED
    BY <2>3, <2>4, <2>5 DEF SchedulerInv
<1>3. CASE startDailyBackupScheduler
  BY <1>3, StartArms
<1>4. CASE \E i \in DOMAIN schedulers : stopDailyBackupScheduler(i) \/ MidnightFires(i) \/ handleResume(i)
  BY <1>4, StopArms, FireArms, ResumeArms
<1>5. CASE \E r \in backupRuns : runBackup(r)
  BY <1>5, RunArms
<1> QED
  BY <1>1, <1>2, <1>3, <1>4, <1>5, Zenon DEF SchedulerNext

(* The invariant says what is promised of the daily backup.                  *)
LEMMA SchedulerMeans == SchedulerInv => SchedulerIsArmed /\ ObservedDayIsBackedUp
<1> SUFFICES ASSUME SchedulerInv PROVE SchedulerIsArmed /\ ObservedDayIsBackedUp
  OBVIOUS
<1>1. SchedulerIsArmed
  BY Zenon DEF SchedulerInv, ArmedInv, Armed, Rearms, SchedulerIsArmed
<1>2. ASSUME NEW i \in DOMAIN schedulers, backupRuns = {}, schedulers[i].observedDate > started[i], failedOn = {}
      PROVE  \E b \in dailyBackups : b >= schedulers[i].observedDate
  BY <1>2 DEF SchedulerInv, DatesInv
<1>3. ObservedDayIsBackedUp
  BY <1>2, Zenon DEF ObservedDayIsBackedUp
<1> QED
  BY <1>1, <1>3

(* A running scheduler is about to act, a stopped one never is, and a date   *)
(* that was acted on has its backup, for any number of schedulers and dates  *)
(* (scheduleNextMidnight, runBackup, handleResume).                          *)
THEOREM SchedulerSound ==
    SchedulerInit /\ [][SchedulerNext]_schedulerVars => [](SchedulerIsArmed /\ ObservedDayIsBackedUp)
  BY SchedulerStarts, SchedulerKeeps, SchedulerMeans, PTL
-----------------------------------------------------------------------------
(* The flag and the stage are those of the command.  The range of the stage  *)
(* of the command is what makes a failed download end in one of its states.  *)
FlagIsOfDownload ==
    /\ isDownloading = (download # "none")
    /\ overlappedCheck \in BOOLEAN
    /\ StageIsOfDownload

(* The first state satisfies the invariant.                                  *)
LEMMA FlagInit == UpdaterInit => FlagIsOfDownload
  BY DEF UpdaterInit, FlagIsOfDownload, StageIsOfDownload

(* Every step of the context and of the view keeps it: no check starts       *)
(* during a download, and one that answers meanwhile is noted.               *)
LEMMA FlagNext == FlagIsOfDownload /\ [UpdaterNext]_updaterVars => FlagIsOfDownload'
<1> SUFFICES ASSUME FlagIsOfDownload, [UpdaterNext]_updaterVars PROVE FlagIsOfDownload'
  OBVIOUS
<1> USE DEF FlagIsOfDownload, StageIsOfDownload
<1>1. CASE checkForUpdates
  BY <1>1 DEF checkForUpdates, CheckOffered
<1>2. ASSUME NEW c, NEW info, CheckAnswers(c, info) PROVE FlagIsOfDownload'
  BY <1>2 DEF CheckAnswers
<1>3. CASE startUpdate
  BY <1>3 DEF startUpdate, DownloadOffered
<1>4. CASE ProgressEvent
  BY <1>4 DEF ProgressEvent
<1>5. CASE InstallingEvent
  BY <1>5 DEF InstallingEvent
<1>6. CASE CompleteEvent
  BY <1>6 DEF CompleteEvent
<1>7. CASE DownloadFails
  BY <1>7 DEF DownloadFails
<1>8. CASE OpenSettings
  BY <1>8 DEF OpenSettings
<1>9. CASE UNCHANGED updaterVars
  BY <1>9 DEF updaterVars
<1> QED
  BY <1>1, <1>2, <1>3, <1>4, <1>5, <1>6, <1>7, <1>8, <1>9 DEF UpdaterNext

(* The invariant holds of every behaviour.                                   *)
LEMMA FlagAlways == UpdaterSpec => []FlagIsOfDownload
  BY FlagInit, FlagNext, PTL DEF UpdaterSpec

(* The flag is up exactly while the download command runs, and meanwhile the *)
(* application is never called up to date: a download that failed can be     *)
(* tried again, and none is started twice (startUpdate of UpdaterContext).   *)
THEOREM DownloadShown == UpdaterSpec => []DownloadIsShown
<1>1. FlagIsOfDownload => DownloadIsShown
  BY DEF FlagIsOfDownload, DownloadIsShown, SaysUpToDate
<1> QED
  BY <1>1, FlagAlways, PTL

(* The stage that is shown is that of the command, unless a check was        *)
(* answered during the download (the finally block of checkForUpdates).      *)
THEOREM StageShown == UpdaterSpec => []StageIsOfDownload
<1>1. FlagIsOfDownload => StageIsOfDownload
  BY DEF FlagIsOfDownload
<1> QED
  BY <1>1, FlagAlways, PTL
-----------------------------------------------------------------------------
(* The shell's variables have their types: a fetch that ends brings stores,  *)
(* and the store it names is one (fetchStores, SwitchEnds).                  *)
LEMMA ShellTypeNext == ShellInv /\ AppTypeOK /\ [AppNext]_appVars => AppTypeOK'
<1> SUFFICES ASSUME ShellInv, AppTypeOK, [AppNext]_appVars PROVE AppTypeOK'
  OBVIOUS
<1> USE DEF AppTypeOK
<1>1. ASSUME NEW f \in appFetches, getStores(f) PROVE AppTypeOK'
  BY <1>1 DEF getStores, shellNavVars
<1>2. ASSUME NEW f \in appFetches, NEW ok \in BOOLEAN, fetchStores(f, ok) PROVE AppTypeOK'
  <2>1. f.to \in ShellStores \cup {NoStore} /\ f.snap \subseteq ShellStores
    BY <1>2 DEF ShellInv, FetchesAreTyped, fetchStores
  <2>2. appList' \subseteq ShellStores /\ appActive' \in ShellStores \cup {NoStore}
    BY <1>2, <2>1 DEF fetchStores, ActiveAfter
  <2>3. appTold' \in ShellStores \cup {NoStore} /\ appOverlay' \in BOOLEAN
    BY <1>2, <2>1 DEF fetchStores, SwitchEnds
  <2> QED
    BY <1>2, <2>2, <2>3 DEF fetchStores, shellNavVars
<1>3. ASSUME NEW ss \in SUBSET ShellStores, StoresChange(ss) PROVE AppTypeOK'
  BY <1>3 DEF StoresChange, shellNavVars
<1>4. CASE SyncThenFetch
  BY <1>4 DEF SyncThenFetch, shellNavVars
<1>5. ASSUME NEW s \in ShellStores, handleSelectStoreAndReload(s) PROVE AppTypeOK'
  BY <1>5 DEF handleSelectStoreAndReload, setActiveStoreId
<1>6. ASSUME NEW m \in {"user", "store"}, toggleMenu(m) PROVE AppTypeOK'
  BY <1>6 DEF toggleMenu, shellStoreVars
<1>7. CASE closeMenus \/ toggleMore
  BY <1>7 DEF closeMenus, toggleMore, shellStoreVars
<1>8. ASSUME NEW v \in NavViews, navigate(v) PROVE AppTypeOK'
  <2>1. appMore' \in BOOLEAN
    <3>1. \/ appMore' = (v \in MORE_NAV_ITEMS)
          \/ appMore' = (appMore /\ v \notin MORE_NAV_ITEMS)
      BY <1>8, Zenon DEF navigate, setCurrentView
    <3>2. (v \in MORE_NAV_ITEMS) \in BOOLEAN /\ (appMore /\ v \notin MORE_NAV_ITEMS) \in BOOLEAN
      OBVIOUS
    <3> QED
      BY <3>1, <3>2, Zenon
  <2> QED
    BY <1>8, <2>1 DEF navigate, setCurrentView
<1>9. CASE ShellSignIn
  <2>1. appMore' \in BOOLEAN
    <3>1. appMore' = (appView \in MORE_NAV_ITEMS)
      BY <1>9, Zenon DEF ShellSignIn
    <3> QED
      BY <3>1
  <2> QED
    BY <1>9, <2>1 DEF ShellSignIn
<1>11. CASE ShellSignOut \/ ShellRestart
  BY <1>11 DEF ShellSignOut, ShellRestart, shellStoreVars
<1>10. CASE UNCHANGED appVars
  BY <1>10 DEF appVars, shellStoreVars, shellNavVars
<1> QED
  BY <1>1, <1>2, <1>3, <1>4, <1>5, <1>6, <1>7, <1>8, <1>9, <1>10, <1>11 DEF AppNext

(* The types of the shell (App.tsx, Header.tsx, Sidebar.tsx).                *)
THEOREM ShellTyped == AppSpec => []AppTypeOK
<1>1. AppInit => AppTypeOK
  BY DEF AppInit, AppTypeOK, NavViews
<1> QED
  BY <1>1, ShellInvInit, ShellInvNext, ShellTypeNext, PTL DEF AppSpec
-----------------------------------------------------------------------------
(* The types of the updater hold of every step.                              *)
LEMMA UpdaterTypeNext == UpdaterTypeOK /\ [UpdaterNext]_updaterVars => UpdaterTypeOK'
<1> SUFFICES ASSUME UpdaterTypeOK, [UpdaterNext]_updaterVars PROVE UpdaterTypeOK'
  OBVIOUS
<1> USE DEF UpdaterTypeOK
<1>0. MaxVisitsOfSettings \in Nat /\ MaxVisitsOfSettings >= 1 /\ MaxChecks \in Nat /\ MaxDownloads \in Nat
  BY UpdaterAssumption
<1>1. CASE checkForUpdates
  BY <1>0, <1>1 DEF checkForUpdates
<1>2. ASSUME NEW c \in checks, NEW info \in {"none", "available", "error"}, CheckAnswers(c, info)
      PROVE UpdaterTypeOK'
  BY <1>2 DEF CheckAnswers
<1>3. CASE startUpdate
  BY <1>0, <1>3 DEF startUpdate
<1>4. CASE ProgressEvent \/ InstallingEvent
  BY <1>4 DEF ProgressEvent, InstallingEvent
<1>5. CASE CompleteEvent \/ DownloadFails
  <2>1. isDownloading' = FALSE /\ checkingUpdate' \in BOOLEAN /\ overlappedCheck' \in BOOLEAN
    BY <1>5, Zenon DEF CompleteEvent, DownloadFails
  <2>2. settingsVisit' \in 1..MaxVisitsOfSettings
    BY <1>0, <1>5 DEF CompleteEvent, DownloadFails
  <2> QED
    BY <1>0, <1>5, <2>1, <2>2 DEF CompleteEvent, DownloadFails
<1>6. CASE OpenSettings
  <2>1. checkingUpdate' = FALSE /\ settingsVisit < MaxVisitsOfSettings /\ settingsVisit' = settingsVisit + 1
    BY <1>6, Zenon DEF OpenSettings
  <2>2. settingsVisit' \in 1..MaxVisitsOfSettings
    BY <1>0, <2>1
  <2> QED
    BY <1>6, <2>1, <2>2 DEF OpenSettings
<1>7. CASE UNCHANGED updaterVars
  BY <1>7 DEF updaterVars
<1> QED
  BY <1>1, <1>2, <1>3, <1>4, <1>5, <1>6, <1>7 DEF UpdaterNext

(* The types of the updater, its counters within their bounds (UpdaterContext). *)
THEOREM UpdaterTyped == UpdaterSpec => []UpdaterTypeOK
<1>1. UpdaterInit => UpdaterTypeOK
  <2>1. MaxVisitsOfSettings \in Nat /\ MaxVisitsOfSettings >= 1 /\ MaxChecks \in Nat /\ MaxDownloads \in Nat
    BY UpdaterAssumption
  <2> QED
    BY <2>1, 1 \in 1..MaxVisitsOfSettings, 0 \in 0..MaxChecks, 0 \in 0..MaxDownloads, Zenon
       DEF UpdaterInit, UpdaterTypeOK
<1> QED
  BY <1>1, UpdaterTypeNext, PTL DEF UpdaterSpec
-----------------------------------------------------------------------------
(* What the device's invariant says of the types.                            *)
THEOREM DeviceTyped == DeviceInit /\ [][DeviceNext]_deviceVars => []DeviceTypeOK
<1>1. DeviceInv => DeviceTypeOK
  BY DEF DeviceInv, DeviceTypes, DeviceTypeOK
<1> QED
  BY <1>1, DeviceStarts, DeviceKeeps, PTL
-----------------------------------------------------------------------------
(* The types of the sync driver, from those of its chains: the timer names a *)
(* chain or none, and the chip shows one of its four texts.                  *)
LEMMA ChipTypeNext ==
    /\ drvIsSyncing \in BOOLEAN /\ drvStatus \in {"", "SYNCHING", "SYNCHED", "SYNC FAILED"}
    /\ [DriverNext]_driverVars
    => (drvIsSyncing \in BOOLEAN /\ drvStatus \in {"", "SYNCHING", "SYNCHED", "SYNC FAILED"})'
<1> SUFFICES ASSUME drvIsSyncing \in BOOLEAN, drvStatus \in {"", "SYNCHING", "SYNCHED", "SYNC FAILED"},
                    [DriverNext]_driverVars
             PROVE  drvIsSyncing' \in BOOLEAN /\ drvStatus' \in {"", "SYNCHING", "SYNCHED", "SYNC FAILED"}
  OBVIOUS
<1>1. CASE triggerManualSync
  BY <1>1 DEF triggerManualSync
<1>2. ASSUME NEW threw \in BOOLEAN, ManualEnds(threw)
      PROVE drvIsSyncing' \in BOOLEAN /\ drvStatus' \in {"", "SYNCHING", "SYNCHED", "SYNC FAILED"}
  BY <1>2 DEF ManualEnds
<1>3. CASE StatusClears
  BY <1>3 DEF StatusClears
<1>4. CASE UNCHANGED <<drvIsSyncing, drvStatus>>
  BY <1>4
<1>5. DriverSignIn \/ (\E a \in {"none", "expired_offline"} : DriverSignOut(a))
        \/ (\E c \in Chains : TimerFires(c) \/ \E threw \in BOOLEAN : _scheduleNext(c, threw))
        \/ FirstRunEnds \/ UNCHANGED driverVars
      => UNCHANGED <<drvIsSyncing, drvStatus>>
  BY DEF DriverSignIn, DriverSignOut, TimerFires, _scheduleNext, FirstRunEnds, driverVars, chipVars
<1>6. ChipClicked \/ handleOnline => triggerManualSync
  BY DEF ChipClicked, handleOnline
<1> QED
  BY <1>1, <1>2, <1>3, <1>4, <1>5, <1>6 DEF DriverNext

(* The types of the sync driver (startBackgroundSync, Header.tsx).           *)
THEOREM DriverTyped == DriverSpec => []DriverTypeOK
<1>0. 0 \in 0 .. MaxChains /\ \A c \in Chains : c \in 0 .. MaxChains
  BY DriverAssumption DEF Chains
<1> DEFINE Chip == drvIsSyncing \in BOOLEAN /\ drvStatus \in {"", "SYNCHING", "SYNCHED", "SYNC FAILED"}
<1>1. DriverInit => Chip
  BY DEF DriverInit
<1>2. ChainInv /\ Chip => DriverTypeOK
  <2> SUFFICES ASSUME ChainInv, Chip PROVE DriverTypeOK
    OBVIOUS
  <2>1. drvActive \in BOOLEAN
    <3>1. CASE drvAuth = "authenticated"
      BY <3>1, drvActive = TRUE, Zenon DEF ChainInv
    <3>2. CASE drvAuth # "authenticated"
      BY <3>2, drvActive = FALSE, Zenon DEF ChainInv
    <3> QED
      BY <3>1, <3>2
  <2>2. drvTimeoutId \in 0 .. MaxChains
    <3>1. drvTimeoutId \in Chains \/ drvTimeoutId = 0
      BY <2>1, Zenon DEF ChainInv
    <3> QED
      BY <3>1, <1>0, Zenon
  <2> QED
    BY <2>1, <2>2, Zenon DEF ChainInv, DriverTypeOK
<1>3. Chip /\ [DriverNext]_driverVars => Chip'
  BY ChipTypeNext
<1> HIDE DEF Chip
<1> QED
  BY <1>1, <1>2, <1>3, ChainInit, ChainNext, PTL DEF DriverSpec
-----------------------------------------------------------------------------
(* The types of the sync service (TauriSyncService).                         *)
THEOREM ServiceTyped == ServiceInit /\ [][ServiceNext]_serviceVars => []ServiceTypeOK
<1>1. ServiceInv => ServiceTypeOK
  <2> SUFFICES ASSUME ServiceInv PROVE ServiceTypeOK
    OBVIOUS
  <2>1. \A b \in {coalescing, syncInProgress, criticalIn, cursorSet, thrown, flushedLate} : b \in BOOLEAN
    BY Zenon DEF ServiceInv, ServiceFlags
  <2> QED
    BY <2>1, Zenon DEF ServiceInv, ServiceTypes, ServiceTypeOK
<1> QED
  BY <1>1, ServiceStarts, ServiceKeeps, PTL
-----------------------------------------------------------------------------
(* No name is newer than the last edit, of which there are at most MaxEdits. *)
LEMMA ModalTypeNext ==
    StoreInv /\ StoreTypeOK /\ edits <= MaxEdits /\ [StoreNext]_storeVars => (StoreTypeOK /\ edits <= MaxEdits)'
<1> SUFFICES ASSUME StoreInv, StoreTypeOK, edits <= MaxEdits, [StoreNext]_storeVars
             PROVE  StoreTypeOK' /\ edits' <= MaxEdits
  OBVIOUS
<1>0. edits \in Nat /\ MaxEdits \in Nat /\ StoreInv'
  BY StoreKeeps, StoreAssumption DEF StoreInv, PushTypes
<1>1. edits' <= MaxEdits /\ modal' \in {"closed", "create", "edit"} /\ modalBusy' \in BOOLEAN
  <2>1. ASSUME NEW p \in pushes, NEW answered \in BOOLEAN, _pushStoreToApi(p, answered)
        PROVE  UNCHANGED <<edits, modal, modalBusy>>
    BY <2>1, Zenon DEF _pushStoreToApi
  <2>2. ASSUME NEW answered \in BOOLEAN, _processPushQueue(answered)
        PROVE  UNCHANGED <<edits, modal, modalBusy>>
    BY <2>2, Zenon DEF _processPushQueue
  <2>3. QueueCycleEnds \/ QueueTimerFires \/ OnlineEvent \/ UNCHANGED storeVars
        => UNCHANGED <<edits, modal, modalBusy>>
    BY DEF QueueCycleEnds, QueueTimerFires, OnlineEvent, storeVars
  <2>4. CASE handleAddStore \/ handleEditStore \/ CloseStoreModal \/ handleStoreModalSubmit
    BY <2>4 DEF handleAddStore, handleEditStore, CloseStoreModal, handleStoreModalSubmit, StoreTypeOK
  <2>5. CASE StoreModalAnswers
    <3>1. modalBusy' = FALSE /\ (modal' = "closed" \/ modal' = modal)
      BY <2>5, Zenon DEF StoreModalAnswers
    <3>2. edits' <= MaxEdits
      BY <1>0, <2>5 DEF StoreModalAnswers, createStore, updateStore, Save
    <3> QED
      BY <3>1, <3>2 DEF StoreTypeOK
  <2>6. CASE handleToggleStore
    BY <1>0, <2>6 DEF handleToggleStore, toggleStoreActive, Save, StoreTypeOK
  <2>7. CASE UNCHANGED <<edits, modal, modalBusy>>
    BY <2>7 DEF StoreTypeOK
  <2> QED
    BY <2>1, <2>2, <2>3, <2>4, <2>5, <2>6, <2>7 DEF StoreNext
<1>2. dbName' \in 0 .. MaxEdits /\ srvName' \in 0 .. MaxEdits
  <2>1. dbName' \in Nat /\ srvName' \in Nat /\ edits' \in Nat /\ dbName' <= edits' /\ srvName' <= dbName'
    BY <1>0 DEF StoreInv, PushTypes
  <2> QED
    BY <2>1, <1>0, <1>1
<1> QED
  BY <1>1, <1>2 DEF StoreTypeOK

(* The types of the store administration: every name is that of an edit      *)
(* (SettingsView, tauriStoreService).                                        *)
THEOREM StoreTyped == StoreInit /\ [][StoreNext]_storeVars => []StoreTypeOK
<1>1. StoreInit => StoreTypeOK /\ edits <= MaxEdits
  <2>1. 0 \in 0 .. MaxEdits /\ 0 <= MaxEdits
    BY StoreAssumption
  <2> QED
    BY <2>1, Zenon DEF StoreInit, StoreTypeOK
<1> QED
  BY <1>1, StoreStarts, StoreKeeps, ModalTypeNext, PTL
-----------------------------------------------------------------------------
(* The types of the first start: those of the wizard, of what a restore      *)
(* writes, and the counts, in which the restores that run, are asked for and *)
(* were cancelled share one bound.                                           *)
WizardTypes ==
    /\ hook \in {"loading", "needs", "ready", "failed"}
    /\ showGenesis \in BOOLEAN /\ gate \in {"loading", "unauthenticated"}
    /\ mode \in {"selection", "fresh", "restore"} /\ step \in 0 .. 2 /\ filled \subseteq Forms
RestoreTypes ==
    /\ {progress, answer, seen} \subseteq ProgressKinds /\ db \subseteq AllTables
    /\ thread \in [1 .. MaxThreads -> 0 .. 7]
RestoreCounts ==
    /\ starts \in 0 .. MaxThreads /\ spawned \in 0 .. MaxThreads /\ cancels \in 0 .. MaxThreads
    /\ spawned + starts + cancels <= MaxThreads

(* The wizard's own steps and fields.                                        *)
LEMMA WizardTypeNext == WizardTypes /\ [GenesisNext]_genesisVars => WizardTypes'
<1> SUFFICES ASSUME WizardTypes, [GenesisNext]_genesisVars PROVE WizardTypes'
  OBVIOUS
<1> USE DEF WizardTypes
<1>1. CASE checkState
  <2>1. showGenesis' = (hook' # "ready") /\ (hook' # "ready") \in BOOLEAN
    BY <1>1 DEF checkState
  <2>2. showGenesis' \in BOOLEAN
    BY <2>1, Zenon
  <2> QED
    BY <1>1, <2>2 DEF checkState, wizardVars
<1>2. ASSUME NEW m \in {"fresh", "restore"}, ChooseMode(m) PROVE WizardTypes'
  BY <1>2 DEF ChooseMode, shellVars
<1>3. CASE CancelSetup
  <2>1. /\ UNCHANGED <<hook, gate>> /\ showGenesis' = FALSE
        /\ mode' = "selection" /\ step' = 0 /\ filled' = {}
    BY <1>3, Zenon DEF CancelSetup, Unmounted
  <2> QED
    BY <2>1, 0 \in 0 .. 2, Zenon
<1>4. CASE AccountForm \/ RestoreLoginForm
  BY <1>4 DEF AccountForm, RestoreLoginForm, FillForm, shellVars, Forms
<1>5. CASE Back
  BY <1>5 DEF Back, shellVars
<1>6. CASE NextStep \/ SubmitFresh \/ handleValidateRestore
  BY <1>6 DEF NextStep, SubmitFresh, handleValidateRestore, shellVars
<1>7. CASE runGenesis
  <2>1. \/ /\ hook' = "ready" /\ showGenesis' = FALSE /\ gate' = "unauthenticated"
           /\ mode' = "selection" /\ step' = 0 /\ filled' = {}
        \/ UNCHANGED <<hook, showGenesis, gate, mode, step, filled>>
    BY <1>7, Zenon DEF runGenesis, Unmounted, shellVars
  <2> QED
    BY <2>1, 0 \in 0 .. 2, Zenon
<1>8. CASE validateRestore \/ handleStartRestore
  BY <1>8 DEF validateRestore, handleStartRestore, shellVars
<1>9. CASE startRestore
  BY <1>9 DEF startRestore, shellVars
<1>10. CASE UNCHANGED <<shellVars, wizardVars>>
  BY <1>10 DEF shellVars, wizardVars
<1>11. (\E t \in 1 .. MaxThreads : ThreadFails(t) \/ ThreadStep(t)) \/ PollTick \/ handleCancelRestore
         \/ UNCHANGED genesisVars
       => UNCHANGED <<shellVars, wizardVars>>
  BY DEF ThreadFails, ThreadStep, PollTick, handleCancelRestore, genesisVars, shellVars, wizardVars
<1>12. CASE PollAnswers
  <2>1. \/ /\ UNCHANGED hook /\ showGenesis' = FALSE /\ gate' = "unauthenticated"
           /\ mode' = "selection" /\ step' = 0 /\ filled' = {}
        \/ UNCHANGED <<hook, showGenesis, gate, mode, step, filled>>
    BY <1>12, Zenon DEF PollAnswers, Unmounted
  <2> QED
    BY <2>1, 0 \in 0 .. 2, Zenon
<1>13. CASE cancelRestore
  BY <1>13 DEF cancelRestore, wizardVars
<1> QED
  BY <1>1, <1>2, <1>3, <1>4, <1>5, <1>6, <1>7, <1>8, <1>9, <1>10, <1>11, <1>12, <1>13 DEF GenesisNext

(* What restores write: tables, and the progress they report.                *)
LEMMA RestoreTypeNext == RestoreTypes /\ RestoreCounts /\ [GenesisNext]_genesisVars => RestoreTypes'
<1> SUFFICES ASSUME RestoreTypes, RestoreCounts, [GenesisNext]_genesisVars PROVE RestoreTypes'
  OBVIOUS
<1> USE GenesisAssumption DEF RestoreTypes
<1>1. CASE UNCHANGED <<progress, answer, seen, db, thread>>
  BY <1>1
<1>2. checkState \/ (\E m \in {"fresh", "restore"} : ChooseMode(m)) \/ CancelSetup \/ AccountForm
        \/ RestoreLoginForm \/ Back \/ NextStep \/ SubmitFresh \/ handleValidateRestore \/ validateRestore
        \/ handleStartRestore \/ UNCHANGED genesisVars
      => UNCHANGED <<progress, answer, seen, db, thread>>
  BY DEF checkState, ChooseMode, CancelSetup, AccountForm, RestoreLoginForm, FillForm, Back, NextStep,
         SubmitFresh, handleValidateRestore, validateRestore, handleStartRestore, genesisVars, restoreVars
<1>3. CASE runGenesis
  <2>1. db' \subseteq AllTables
    BY <1>3 DEF runGenesis, AllTables, Critical
  <2> QED
    BY <1>3, <2>1 DEF runGenesis
<1>4. CASE startRestore
  <2>1. starts > 0 /\ (spawned' = spawned + 1 => spawned + 1 \in 1 .. MaxThreads)
    BY <1>4 DEF startRestore, RestoreCounts
  <2>2. thread' \in [1 .. MaxThreads -> 0 .. 7]
    BY <1>4, <2>1 DEF startRestore
  <2>3. {progress', answer', seen'} \subseteq ProgressKinds
    BY <1>4 DEF startRestore, ProgressKinds
  <2> QED
    BY <1>4, <2>2, <2>3 DEF startRestore
<1>5. ASSUME NEW t \in 1 .. MaxThreads, ThreadFails(t) PROVE RestoreTypes'
  BY <1>5 DEF ThreadFails, ProgressKinds
<1>6. ASSUME NEW t \in 1 .. MaxThreads, ThreadStep(t) PROVE RestoreTypes'
  <2>1. thread[t] \in 0 .. 7 /\ thread[t] # 0
    BY <1>6 DEF ThreadStep
  <2>2. thread[t] \in {1, 2, 3, 4, 5, 6, 7}
    BY <2>1
  <2>3. ThreadWrites(thread[t]) \subseteq AllTables
    BY <2>2, WritesFacts DEF AllTables, Critical
  <2>4. db' \subseteq AllTables
    BY <1>6, <2>3, Zenon DEF ThreadStep
  <2>5. progress' \in ProgressKinds
    BY <1>6 DEF ThreadStep, ThreadReports, ProgressKinds
  <2>6. thread' \in [1 .. MaxThreads -> 0 .. 7]
    BY <1>6, <2>1 DEF ThreadStep
  <2> QED
    BY <1>6, <2>4, <2>5, <2>6 DEF ThreadStep
<1>7. CASE PollTick
  BY <1>7 DEF PollTick
<1>8. CASE PollAnswers
  BY <1>8 DEF PollAnswers, ProgressKinds
<1>9. CASE handleCancelRestore
  BY <1>9 DEF handleCancelRestore, ProgressKinds
<1>10. CASE cancelRestore
  BY <1>10 DEF cancelRestore, ProgressKinds
<1> QED
  BY <1>1, <1>2, <1>3, <1>4, <1>5, <1>6, <1>7, <1>8, <1>9, <1>10 DEF GenesisNext

(* A restore is asked for, runs or was cancelled, never more than the bound. *)
LEMMA RestoreCountNext == RestoreCounts /\ [GenesisNext]_genesisVars => RestoreCounts'
<1> SUFFICES ASSUME RestoreCounts, [GenesisNext]_genesisVars PROVE RestoreCounts'
  OBVIOUS
<1> USE GenesisAssumption DEF RestoreCounts
<1>1. CASE UNCHANGED <<starts, spawned, cancels>>
  BY <1>1
<1>2. checkState \/ (\E m \in {"fresh", "restore"} : ChooseMode(m)) \/ CancelSetup \/ AccountForm
        \/ RestoreLoginForm \/ Back \/ NextStep \/ SubmitFresh \/ handleValidateRestore \/ validateRestore
        \/ UNCHANGED genesisVars
      => UNCHANGED <<starts, spawned, cancels>>
  BY DEF checkState, ChooseMode, CancelSetup, AccountForm, RestoreLoginForm, FillForm, Back, NextStep,
         SubmitFresh, handleValidateRestore, validateRestore, genesisVars, restoreVars, wizardVars
<1>3. runGenesis \/ (\E t \in 1 .. MaxThreads : ThreadFails(t) \/ ThreadStep(t)) \/ PollTick \/ PollAnswers
        \/ cancelRestore
      => UNCHANGED <<starts, spawned, cancels>>
  BY DEF runGenesis, ThreadFails, ThreadStep, PollTick, PollAnswers, cancelRestore, wizardVars
<1>4. CASE startRestore
  BY <1>4 DEF startRestore
<1>5. CASE handleStartRestore
  BY <1>5 DEF handleStartRestore, restoreVars
<1>6. CASE handleCancelRestore
  BY <1>6 DEF handleCancelRestore, wizardVars
<1> QED
  BY <1>1, <1>2, <1>3, <1>4, <1>5, <1>6 DEF GenesisNext

(* The types of the first start: a thread that is spawned is one of those    *)
(* counted (GenesisWizard, useGenesis, do_restore).                          *)
THEOREM GenesisTyped == GenesisInit /\ [][GenesisNext]_genesisVars => []GenesisTypeOK
<1>1. GenesisInit => WizardTypes /\ RestoreTypes /\ RestoreCounts
  <2> SUFFICES ASSUME GenesisInit PROVE WizardTypes /\ RestoreTypes /\ RestoreCounts
    OBVIOUS
  <2>1. WizardTypes
    <3>1. /\ hook = "loading" /\ showGenesis = FALSE /\ gate = "loading"
          /\ mode = "selection" /\ step = 0 /\ filled = {}
      BY Zenon DEF GenesisInit
    <3> QED
      BY <3>1, 0 \in 0 .. 2, Zenon DEF WizardTypes
  <2>2. RestoreTypes
    <3>1. /\ db \in {{}, {"stores", "users"}} /\ thread = [t \in 1 .. MaxThreads |-> 0]
          /\ progress = "idle" /\ answer = "idle" /\ seen = "idle"
      BY Zenon DEF GenesisInit
    <3>2. db \subseteq AllTables
      BY <3>1 DEF AllTables, Critical
    <3> QED
      BY <3>1, <3>2 DEF RestoreTypes, ProgressKinds
  <2>3. RestoreCounts
    <3>1. starts = 0 /\ spawned = 0 /\ cancels = 0
      BY Zenon DEF GenesisInit
    <3> QED
      BY <3>1, GenesisAssumption DEF RestoreCounts
  <2> QED
    BY <2>1, <2>2, <2>3
<1>2. WizardTypes /\ RestoreTypes /\ RestoreCounts => GenesisTypeOK
  BY Zenon DEF WizardTypes, RestoreTypes, RestoreCounts, GenesisTypeOK
<1> QED
  BY <1>1, <1>2, WizardTypeNext, RestoreTypeNext, RestoreCountNext, PTL
-----------------------------------------------------------------------------
(* What is left of the types of the maintenance: the steps, the flags, the   *)
(* counters, the numbers of the backups and the records of deletions. A      *)
(* backup under way has a number left.                                       *)
MaintenanceFlags ==
    /\ deleteModal \in BOOLEAN /\ deleteError \in BOOLEAN /\ creatingBackup \in BOOLEAN
    /\ backupsRead \in BOOLEAN /\ restored \in BOOLEAN /\ crossedRun \in BOOLEAN /\ halfWiped \in BOOLEAN
MaintenanceSteps ==
    /\ syncStep \in {"idle", "pushing", "pulling", "applying"}
    /\ wipeStep \in {"none", "local", "token", "server"}
    /\ syncsDone \in 0..MaxSyncs /\ wipes \in 0..MaxWipes
    /\ wiped \subseteq Records /\ doomed \subseteq Records
BackupNumbers ==
    \E n \in 0..MaxBackups : DOMAIN backups = 1..n /\ (creatingBackup => n < MaxBackups)

(* Every step keeps the flags flags.                                         *)
LEMMA MaintenanceFlagsNext == MaintenanceFlags /\ [MaintenanceNext]_maintenanceVars => MaintenanceFlags'
<1> SUFFICES ASSUME MaintenanceFlags, [MaintenanceNext]_maintenanceVars PROVE MaintenanceFlags'
  OBVIOUS
<1> USE DEF MaintenanceFlags
<1>0. /\ (syncStep # "idle") \in BOOLEAN
      /\ (crossedRun \/ wipeStep # "none" \/ restored) \in BOOLEAN
      /\ (crossedRun \/ syncStep # "idle") \in BOOLEAN
      /\ (crossedRun \/ syncStep # "idle" \/ wipeStep # "none") \in BOOLEAN
  OBVIOUS
<1>1. ASSUME NEW r \in Records, Record(r) PROVE MaintenanceFlags'
  BY <1>1, Zenon DEF Record, wipeVars, backupVars
<1>2. CASE SyncStarts
  BY <1>0, <1>2, Zenon DEF SyncStarts, backupVars
<1>3. CASE SyncPushes \/ SyncPulls \/ SyncApplies
  BY <1>3, Zenon DEF SyncPushes, SyncPulls, SyncApplies, wipeVars, backupVars
<1>4. CASE OpenDeleteModal \/ CloseDeleteModal
  BY <1>4, Zenon DEF OpenDeleteModal, CloseDeleteModal, backupVars
<1>5. CASE handleDeleteAllData
  BY <1>0, <1>5, Zenon DEF handleDeleteAllData, backupVars
<1>6. CASE deleteAllData
  BY <1>6, Zenon DEF deleteAllData, backupVars
<1>7. ASSUME NEW token \in BOOLEAN, TokenIsRead(token) PROVE MaintenanceFlags'
  BY <1>7, Zenon DEF TokenIsRead, clearLocalBusinessCaches, Reload, backupVars
<1>8. ASSUME NEW done \in BOOLEAN, NEW answered \in BOOLEAN, wipeServerData(done, answered)
      PROVE MaintenanceFlags'
  BY <1>8, Zenon DEF wipeServerData, clearLocalBusinessCaches, Reload, backupVars
<1>9. CASE handleCreateBackup \/ createLocalBackup \/ listLocalBackups
  BY <1>9, Zenon DEF handleCreateBackup, createLocalBackup, listLocalBackups, fetchBackups, wipeVars
<1>10. ASSUME NEW b \in shownBackups, handleRestoreBackup(b) PROVE MaintenanceFlags'
  BY <1>10, Zenon DEF handleRestoreBackup, wipeVars
<1>11. CASE restoreFromBackup
  BY <1>0, <1>11, Zenon DEF restoreFromBackup, wipeVars
<1>12. CASE ReloadRestored
  BY <1>12, Zenon DEF ReloadRestored, Reload
<1>13. CASE UNCHANGED maintenanceVars
  BY <1>13, Zenon DEF maintenanceVars
<1> QED
  BY <1>1, <1>2, <1>3, <1>4, <1>5, <1>6, <1>7, <1>8, <1>9, <1>10, <1>11, <1>12, <1>13 DEF MaintenanceNext

(* Every step keeps steps, counters and the records of deletions.            *)
LEMMA MaintenanceStepsNext ==
    MaintenanceInv /\ MaintenanceSteps /\ [MaintenanceNext]_maintenanceVars => MaintenanceSteps'
<1> SUFFICES ASSUME MaintenanceInv, MaintenanceSteps, [MaintenanceNext]_maintenanceVars PROVE MaintenanceSteps'
  OBVIOUS
<1> USE MaintenanceAssumption DEF MaintenanceSteps
<1>0. localDb.rows \subseteq Records /\ serverRows \subseteq Records
  BY DbFacts DEF MaintenanceInv, MaintenanceTypes
<1>1. CASE UNCHANGED <<syncStep, wipeStep, syncsDone, wipes, wiped, doomed>>
  BY <1>1
<1>2. CASE SyncStarts
  BY <1>2 DEF SyncStarts
<1>3. CASE SyncPushes \/ SyncPulls \/ SyncApplies
  BY <1>3 DEF SyncPushes, SyncPulls, SyncApplies, wipeVars
<1>4. CASE handleDeleteAllData
  BY <1>4 DEF handleDeleteAllData, runVars
<1>5. CASE deleteAllData
  BY <1>0, <1>5 DEF deleteAllData, runVars
<1>6. clearLocalBusinessCaches => MaintenanceSteps'
  BY DEF clearLocalBusinessCaches, Reload
<1>7. ASSUME NEW token \in BOOLEAN, TokenIsRead(token) PROVE MaintenanceSteps'
  <2>1. CASE clearLocalBusinessCaches
    BY <2>1, <1>6
  <2>2. CASE wipeStep' = "server" /\ UNCHANGED <<syncStep, syncsDone, wipes, wiped, doomed>>
    BY <2>2
  <2> QED
    BY <1>7, <2>1, <2>2 DEF TokenIsRead, runVars
<1>8. ASSUME NEW done \in BOOLEAN, NEW answered \in BOOLEAN, wipeServerData(done, answered)
      PROVE MaintenanceSteps'
  <2>1. CASE clearLocalBusinessCaches
    BY <2>1, <1>6
  <2>2. CASE wipeStep' = "none" /\ doomed' = {} /\ UNCHANGED <<syncStep, syncsDone, wipes, wiped>>
    BY <2>2
  <2> QED
    BY <1>8, <2>1, <2>2 DEF wipeServerData, runVars
<1>9. CASE restoreFromBackup
  <2>1. CASE wiped' = {} /\ doomed' = {} /\ UNCHANGED <<syncStep, syncsDone, wipeStep, wipes>>
    BY <2>1
  <2> QED
    BY <1>1, <1>9, <2>1 DEF restoreFromBackup, runVars, wipeVars
<1>10. CASE ReloadRestored
  BY <1>10 DEF ReloadRestored, Reload
<1>11. (\E r \in Records : Record(r)) \/ OpenDeleteModal \/ CloseDeleteModal \/ handleCreateBackup
         \/ createLocalBackup \/ listLocalBackups \/ (\E b \in shownBackups : handleRestoreBackup(b))
         \/ UNCHANGED maintenanceVars
       => UNCHANGED <<syncStep, wipeStep, syncsDone, wipes, wiped, doomed>>
  BY DEF Record, OpenDeleteModal, CloseDeleteModal, handleCreateBackup, createLocalBackup,
         listLocalBackups, handleRestoreBackup, runVars, wipeVars, maintenanceVars
<1> QED
  BY <1>1, <1>2, <1>3, <1>4, <1>5, <1>7, <1>8, <1>9, <1>10, <1>11 DEF MaintenanceNext

(* Every step numbers the backups on.                                        *)
LEMMA BackupNumbersNext == BackupNumbers /\ [MaintenanceNext]_maintenanceVars => BackupNumbers'
<1> SUFFICES ASSUME BackupNumbers, [MaintenanceNext]_maintenanceVars PROVE BackupNumbers'
  OBVIOUS
<1> USE MaintenanceAssumption
<1>1. PICK n \in 0..MaxBackups : DOMAIN backups = 1..n /\ (creatingBackup => n < MaxBackups)
  BY DEF BackupNumbers
<1>2. n \in Nat /\ Cardinality(1..n) = n
  BY <1>1, FS_Interval
<1>3. CASE backups' = backups /\ (creatingBackup' => creatingBackup)
  BY <1>1, <1>3 DEF BackupNumbers
<1>4. CASE handleCreateBackup
  BY <1>1, <1>2, <1>4 DEF handleCreateBackup, BackupNumbers
<1>5. CASE createLocalBackup
  <2>1. creatingBackup /\ ~creatingBackup'
    BY <1>5, Zenon DEF createLocalBackup
  <2>2. CASE UNCHANGED backups
    BY <2>1, <2>2, <1>3
  <2>3. CASE backups' = [b \in DOMAIN backups \cup {Cardinality(DOMAIN backups) + 1} |->
                            IF b \in DOMAIN backups THEN backups[b] ELSE localDb]
    <3>1. DOMAIN backups' = 1..n \cup {n + 1}
      BY <2>3, <1>1, <1>2
    <3>2. n + 1 \in 0..MaxBackups /\ DOMAIN backups' = 1..(n + 1)
      BY <3>1, <2>1, <1>1, <1>2
    <3> QED
      BY <3>2, <2>1 DEF BackupNumbers
  <2> QED
    BY <1>5, <2>2, <2>3 DEF createLocalBackup
<1>6. (\E r \in Records : Record(r)) \/ SyncStarts \/ SyncPushes \/ SyncPulls \/ SyncApplies
        \/ OpenDeleteModal \/ CloseDeleteModal \/ handleDeleteAllData \/ deleteAllData
        \/ listLocalBackups \/ (\E b \in shownBackups : handleRestoreBackup(b)) \/ restoreFromBackup
        \/ UNCHANGED maintenanceVars
      => backups' = backups /\ creatingBackup' = creatingBackup
  BY DEF Record, SyncStarts, SyncPushes, SyncPulls, SyncApplies, OpenDeleteModal, CloseDeleteModal,
         handleDeleteAllData, deleteAllData, listLocalBackups, handleRestoreBackup, restoreFromBackup,
         backupVars, maintenanceVars
<1>7. (\E token \in BOOLEAN : TokenIsRead(token)) \/ ReloadRestored
        \/ (\E done, answered \in BOOLEAN : wipeServerData(done, answered))
      => backups' = backups /\ (creatingBackup' = creatingBackup \/ creatingBackup' = FALSE)
  BY Zenon DEF TokenIsRead, ReloadRestored, wipeServerData, clearLocalBusinessCaches, Reload, backupVars
<1> QED
  BY <1>3, <1>4, <1>5, <1>6, <1>7 DEF MaintenanceNext

(* The types of the maintenance: the numbers of the backups stay within      *)
(* their bound through reloads and restores (SettingsView, tauriDatabase).   *)
THEOREM MaintenanceTyped == MaintenanceInit /\ [][MaintenanceNext]_maintenanceVars => []MaintenanceTypeOK
<1>1. MaintenanceInit => MaintenanceFlags /\ MaintenanceSteps /\ BackupNumbers
  <2> SUFFICES ASSUME MaintenanceInit PROVE MaintenanceFlags /\ MaintenanceSteps /\ BackupNumbers
    OBVIOUS
  <2>1. MaintenanceFlags
    BY Zenon DEF MaintenanceInit, MaintenanceFlags
  <2>2. MaintenanceSteps
    BY MaintenanceAssumption, 0 \in 0..MaxSyncs, 0 \in 0..MaxWipes, Zenon DEF MaintenanceInit, MaintenanceSteps
  <2>3. BackupNumbers
    <3>1. backups = <<>> /\ creatingBackup = FALSE
      BY Zenon DEF MaintenanceInit
    <3>2. DOMAIN backups = 1..0 /\ 0 \in 0..MaxBackups
      BY <3>1, MaintenanceAssumption
    <3> QED
      BY <3>1, <3>2, Zenon DEF BackupNumbers
  <2> QED
    BY <2>1, <2>2, <2>3
<1>2. MaintenanceInv /\ MaintenanceFlags /\ MaintenanceSteps /\ BackupNumbers => MaintenanceTypeOK
  <2> SUFFICES ASSUME MaintenanceInv, MaintenanceFlags, MaintenanceSteps, BackupNumbers PROVE MaintenanceTypeOK
    OBVIOUS
  <2>1. localDb.rows \subseteq Records /\ localDb.queued \subseteq Records
    BY DbFacts DEF MaintenanceInv, MaintenanceTypes
  <2>2. DOMAIN backups \subseteq 1..MaxBackups
    BY MaintenanceAssumption DEF BackupNumbers
  <2>3. \A b \in {deleteModal, deleteError, creatingBackup, backupsRead, restored, crossedRun, halfWiped} :
            b \in BOOLEAN
    BY Zenon DEF MaintenanceFlags
  <2>4. restoringBackup \in {NoBackup} \cup DOMAIN backups
    BY Zenon DEF MaintenanceInv, MaintenanceTypes
  <2> QED
    BY <2>1, <2>2, <2>3, <2>4, Zenon DEF MaintenanceInv, MaintenanceTypes, MaintenanceSteps, MaintenanceTypeOK
<1> QED
  BY <1>1, <1>2, MaintenanceStarts, MaintenanceKeeps, MaintenanceFlagsNext, MaintenanceStepsNext,
     BackupNumbersNext, PTL
-----------------------------------------------------------------------------
(* A scheduler with dates up to the last one.                                *)
Dated == [stopped : BOOLEAN, midnight : 0..(MaxDate + 1), observedDate : 1..MaxDate]

(* One scheduler moves: the others have the types they had.                  *)
LEMMA OneMovesTyped ==
    ASSUME SchedulerTypeOK, NEW i \in DOMAIN schedulers, NEW s \in Dated,
           schedulers' = [schedulers EXCEPT ![i] = s],
           backupRuns' \subseteq [of : DOMAIN schedulers, then : BOOLEAN],
           UNCHANGED <<today, lastDaily, started, failedOn>>
    PROVE  SchedulerTypeOK'
<1>1. DOMAIN schedulers' = DOMAIN schedulers /\ \A j \in DOMAIN schedulers : schedulers'[j] \in {s, schedulers[j]}
  OBVIOUS
<1>2. \A j \in DOMAIN schedulers' : schedulers'[j] \in Dated
  BY <1>1, Zenon DEF SchedulerTypeOK, Dated
<1> QED
  BY <1>1, <1>2, Zenon DEF SchedulerTypeOK, Dated

(* Every step keeps the types of the schedulers.                             *)
LEMMA SchedulerTypeNext == SchedulerInv /\ SchedulerTypeOK /\ [SchedulerNext]_schedulerVars => SchedulerTypeOK'
<1> SUFFICES ASSUME SchedulerInv, SchedulerTypeOK, [SchedulerNext]_schedulerVars PROVE SchedulerTypeOK'
  OBVIOUS
<1>0. MaxDate \in Nat /\ MaxSchedulers \in Nat /\ today \in 1..MaxDate /\ lastDaily \in 0..MaxDate
  BY SchedulerAssumption DEF SchedulerTypeOK
<1>d. \A i \in DOMAIN schedulers : schedulers[i] \in Dated
  BY Zenon DEF SchedulerTypeOK, Dated
<1>z. PICK zero : zero = 0
  OBVIOUS
<1>y. zero \in 0..(MaxDate + 1)
  BY <1>0, <1>z
<1>1. CASE UNCHANGED schedulerVars
  BY <1>1, Zenon DEF schedulerVars, SchedulerTypeOK
<1>2. CASE DayPasses
  <2>1. today' \in 1..MaxDate
    BY <1>0, <1>2 DEF DayPasses
  <2> QED
    BY <1>2, <2>1, Zenon DEF DayPasses, SchedulerTypeOK
<1>3. CASE startDailyBackupScheduler
  <2>1. PICK m \in Nat : DOMAIN schedulers = 1 .. m
    BY DEF SchedulerInv, SchedulerTypes
  <2>2. Cardinality(DOMAIN schedulers) = m
    BY <2>1, FS_Interval
  <2>3. PICK s : s = [stopped |-> FALSE, midnight |-> today + 1, observedDate |-> today]
    OBVIOUS
  <2>4. s \in Dated
    BY <1>0, <2>3 DEF Dated
  <2>5. /\ m + 1 <= MaxSchedulers
        /\ schedulers' = [i \in 1..(m + 1) |-> IF i < m + 1 THEN schedulers[i] ELSE s]
        /\ started' = [i \in 1..(m + 1) |-> IF i < m + 1 THEN started[i] ELSE today]
        /\ UNCHANGED <<today, lastDaily, backupRuns, failedOn>>
    BY <1>3, <2>2, <2>3, Zenon DEF startDailyBackupScheduler
  <2>6. DOMAIN schedulers' = 1..(m + 1) /\ DOMAIN schedulers' \subseteq 1..MaxSchedulers
        /\ DOMAIN schedulers \subseteq DOMAIN schedulers'
    BY <1>0, <2>1, <2>5
  <2>7. ASSUME NEW i \in DOMAIN schedulers' PROVE schedulers'[i] \in Dated
    BY <1>d, <2>1, <2>4, <2>5, <2>6, <2>7
  <2>8. started' \in [DOMAIN schedulers' -> 1..MaxDate]
    <3>1. started \in [1..m -> 1..MaxDate]
      BY <2>1 DEF SchedulerTypeOK
    <3> QED
      BY <1>0, <2>5, <2>6, <3>1
  <2>9. backupRuns' \subseteq [of : DOMAIN schedulers', then : BOOLEAN]
    <3>1. ASSUME NEW r \in backupRuns PROVE r \in [of : DOMAIN schedulers', then : BOOLEAN]
      BY <2>6 DEF SchedulerTypeOK
    <3> QED
      BY <2>5, <3>1
  <2> QED
    BY <2>5, <2>6, <2>7, <2>8, <2>9, Zenon DEF SchedulerTypeOK, Dated
<1>4. ASSUME NEW i \in DOMAIN schedulers, stopDailyBackupScheduler(i) PROVE SchedulerTypeOK'
  <2>1. PICK s : s = [schedulers[i] EXCEPT !.stopped = TRUE, !.midnight = 0]
    OBVIOUS
  <2>a. s = [schedulers[i] EXCEPT !.stopped = TRUE, !.midnight = zero]
    BY <1>z, <2>1, Zenon
  <2>2. s \in Dated
    BY <1>y, <1>d, <2>a DEF Dated
  <2>3. schedulers' = [schedulers EXCEPT ![i] = s]
    BY <1>4, <1>d, <2>1 DEF stopDailyBackupScheduler, Dated
  <2>4. UNCHANGED <<today, lastDaily, started, failedOn>> /\ backupRuns' \subseteq [of : DOMAIN schedulers, then : BOOLEAN]
    BY <1>4, Zenon DEF stopDailyBackupScheduler, SchedulerTypeOK
  <2> QED
    BY <2>2, <2>3, <2>4, OneMovesTyped
<1>5. ASSUME NEW i \in DOMAIN schedulers, NEW b \in BOOLEAN,
             backupRuns' = backupRuns \cup {[of |-> i, then |-> b]}
      PROVE  backupRuns' \subseteq [of : DOMAIN schedulers, then : BOOLEAN]
  BY <1>5 DEF SchedulerTypeOK
<1>6. ASSUME NEW i \in DOMAIN schedulers, MidnightFires(i) PROVE SchedulerTypeOK'
  <2>1. PICK s : s = [schedulers[i] EXCEPT !.midnight = 0, !.observedDate = today]
    OBVIOUS
  <2>a. s = [schedulers[i] EXCEPT !.midnight = zero, !.observedDate = today]
    BY <1>z, <2>1, Zenon
  <2>2. s \in Dated
    BY <1>0, <1>y, <1>d, <2>a DEF Dated
  <2>3. schedulers' = [schedulers EXCEPT ![i] = s]
    BY <1>6, <1>d, <2>1 DEF MidnightFires, Dated
  <2>4. UNCHANGED <<today, lastDaily, started, failedOn>> /\ backupRuns' \subseteq [of : DOMAIN schedulers, then : BOOLEAN]
    BY <1>5, <1>6, Zenon DEF MidnightFires
  <2> QED
    BY <2>2, <2>3, <2>4, OneMovesTyped
<1>7. ASSUME NEW i \in DOMAIN schedulers, handleResume(i) PROVE SchedulerTypeOK'
  <2>1. PICK s : s = [schedulers[i] EXCEPT !.observedDate = today]
    OBVIOUS
  <2>2. s \in Dated
    BY <1>0, <1>d, <2>1 DEF Dated
  <2>3. schedulers' = [schedulers EXCEPT ![i] = s]
    BY <1>7, <1>d, <2>1 DEF handleResume, Dated
  <2>4. UNCHANGED <<today, lastDaily, started, failedOn>> /\ backupRuns' \subseteq [of : DOMAIN schedulers, then : BOOLEAN]
    BY <1>5, <1>7, Zenon DEF handleResume
  <2> QED
    BY <2>2, <2>3, <2>4, OneMovesTyped
<1>8. ASSUME NEW r \in backupRuns, runBackup(r) PROVE SchedulerTypeOK'
  <2>1. r.of \in DOMAIN schedulers /\ backupRuns' \subseteq [of : DOMAIN schedulers, then : BOOLEAN]
    BY <1>8 DEF SchedulerTypeOK, runBackup
  <2>2. PICK s : s = scheduleNextMidnight(schedulers[r.of])
    OBVIOUS
  <2>3. s \in Dated
    BY <1>0, <1>d, <2>1, <2>2 DEF Dated, scheduleNextMidnight
  <2>4. \/ schedulers' = schedulers
        \/ schedulers' = [schedulers EXCEPT ![r.of] = s]
    BY <1>8, <2>1, <2>2 DEF runBackup
  <2>5. DOMAIN schedulers' = DOMAIN schedulers /\ \A j \in DOMAIN schedulers : schedulers'[j] \in {s, schedulers[j]}
    BY <2>4
  <2>6. \A j \in DOMAIN schedulers' : schedulers'[j] \in Dated
    BY <1>d, <2>3, <2>5, Zenon
  <2>7. lastDaily' \in 0..MaxDate /\ failedOn' \subseteq 1..MaxDate /\ UNCHANGED <<today, started>>
    <3>1. failedOn \subseteq 1..MaxDate
      BY DEF SchedulerTypeOK
    <3>2. today \in 0..MaxDate /\ failedOn \cup {today} \subseteq 1..MaxDate
      BY <1>0, <3>1
    <3>3. /\ lastDaily' = lastDaily \/ lastDaily' = today
          /\ failedOn' = failedOn \/ failedOn' = failedOn \cup {today}
          /\ UNCHANGED <<today, started>>
      BY <1>8, Zenon DEF runBackup
    <3> QED
      BY <1>0, <3>1, <3>2, <3>3, Zenon
  <2> QED
    BY <2>1, <2>5, <2>6, <2>7, Zenon DEF SchedulerTypeOK, Dated
<1> QED
  BY <1>1, <1>2, <1>3, <1>4, <1>6, <1>7, <1>8, Zenon DEF SchedulerNext

(* The types of the backup schedulers: no timer is set for a date later than *)
(* tomorrow, and a run belongs to a scheduler (backupScheduler.ts).          *)
THEOREM SchedulerTyped == SchedulerInit /\ [][SchedulerNext]_schedulerVars => []SchedulerTypeOK
<1>1. SchedulerInit => SchedulerTypeOK
  <2> SUFFICES ASSUME SchedulerInit PROVE SchedulerTypeOK
    OBVIOUS
  <2>1. /\ today = 1 /\ lastDaily = 0 /\ schedulers = <<>> /\ started = <<>> /\ backupRuns = {}
        /\ failedOn = {}
    BY Zenon DEF SchedulerInit
  <2>2. 1 \in 1..MaxDate /\ 0 \in 0..MaxDate
    BY SchedulerAssumption
  <2>3. DOMAIN schedulers = {} /\ started \in [{} -> 1..MaxDate]
    BY <2>1
  <2> QED
    BY <2>1, <2>2, <2>3, Zenon DEF SchedulerTypeOK
<1> QED
  BY <1>1, SchedulerStarts, SchedulerKeeps, SchedulerTypeNext, PTL
-----------------------------------------------------------------------------
(* The network is up or down.                                                *)
LEMMA OnlineNext == online \in BOOLEAN /\ [AuthNext]_authVars => (online \in BOOLEAN)'
<1> SUFFICES ASSUME online \in BOOLEAN, [AuthNext]_authVars PROVE online' \in BOOLEAN
  OBVIOUS
<1>1. NetworkChanges => online' = ~online
  BY Zenon DEF NetworkChanges
<1>2. BootstrapCheck \/ BootstrapLoad \/ (\E u \in Users : LoginSubmit(u)) \/ ReauthSubmit
        \/ LocalLogin \/ _apiLogin \/ LoginResolves \/ handleReauthSuccess
        \/ (\E n \in 1 .. MaxLogins : _tryUpgradeToServerToken(n))
      => online' = online
  BY Zenon DEF BootstrapCheck, BootstrapLoad, LoginSubmit, ReauthSubmit, LocalLogin, _apiLogin,
               LoginResolves, handleReauthSuccess, _tryUpgradeToServerToken
<1>3. (\E c \in Callers : getAccessToken(c) \/ tryRefreshToken(c)) \/ logout \/ handleLogout
        \/ (\E t \in 1 .. issued : TokenExpires(t)) \/ Restart \/ UNCHANGED authVars
      => online' = online
  BY Zenon DEF getAccessToken, tryRefreshToken, logout, handleLogout, TokenExpires, Restart, authVars
<1> QED
  BY <1>1, <1>2, <1>3, Zenon DEF AuthNext

(* The types of the sessions (tauriAuthService, App.tsx).                    *)
THEOREM AuthTyped == AuthInit /\ [][AuthNext]_authVars => []AuthTypeOK
<1>1. AuthInit => online \in BOOLEAN
  BY Zenon DEF AuthInit
<1>2. AuthInv /\ online \in BOOLEAN => AuthTypeOK
  <2> SUFFICES ASSUME AuthInv, online \in BOOLEAN PROVE AuthTypeOK
    OBVIOUS
  <2>1. form.stage \in FormStages /\ \A n \in 1 .. MaxLogins : upgrade[n].stage \in {"idle", "health", "login"}
    BY DEF AuthInv, SessionTypes, LoginForms, Upgrades
  <2>2. \A c \in Callers : refresh[c].session \in Session
    BY DEF AuthInv, SessionTypes, Refreshes
  <2> QED
    BY <2>1, <2>2, Zenon DEF AuthInv, SessionTypes, FormStages, AuthTypeOK
<1> QED
  BY <1>1, <1>2, OnlineNext, AuthStarts, AuthKeeps, PTL
=============================================================================
