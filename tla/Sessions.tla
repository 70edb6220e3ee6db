------------------------------ MODULE Sessions ------------------------------
(***************************************************************************)
(* One phone's session (mobile/lib/core/network, features/auth) against    *)
(* the server's refresh tokens (backend/apps/accounts).                    *)
(*                                                                         *)
(* The phone runs one thread, but every access to the secure storage and   *)
(* every HTTP call is awaited, so that the requests of the screens, the    *)
(* token refresh, login, logout, the restore at start and clears nobody    *)
(* waits for interleave at those points. The server hands out pairs of an  *)
(* access and a refresh token; a pair is its number in `issued'.           *)
(***************************************************************************)
EXTENDS Integers, Sequences, FiniteSets, SequencesExt

CONSTANTS
  User,         \* accounts
  HasCompany,   \* the users with an active company membership
  Api,          \* bound: requests of the screens in flight at once
  Slot,         \* bound: calls the phone gave up that the server still serves
  MaxCalls,     \* bound: requests of the screens
  MaxLogins,    \* bound: logins
  MaxPairs,     \* bound: token pairs
  MaxFaults,    \* bound: requests and answers lost, application restarts
  MaxEnds,      \* bound: access tokens expired, passwords reset
  MaxEvents,    \* bound: requests, logins, faults and ends together
  None          \* nothing stored, no user

VARIABLES
  issued,       \* the user of each token pair, in the order of their issue
  recorded,     \* OutstandingToken: pairs issued by a login
  blacklisted,  \* BlacklistedToken: pairs whose refresh token is refused
  expired,      \* pairs whose access token has expired
  serving,      \* the refresh the server serves for the phone, and the calls
                \* that the phone has given up
  store,        \* the secure storage: access and refresh token, session JSON
  auth,         \* AuthState: "loading", "unauthenticated", "error" or the user
  epoch,        \* AuthController._epoch
  call,         \* requests under way: those of the screens, restore, logout
  refresh,      \* the refresh TokenRefreshCoordinator has in flight
  clears,       \* clears of the store nobody waits for: the next cell of each
  restore, login, logout, \* the flows of AuthController
  asked, logins, faults, ends, \* how much of each bound is used
  overlap,      \* history variable: two sessions' work overlapped, or a
                \* restart cut a refresh, a login, a logout or a clear off
  used,         \* history variable: pairs that a refresh or a logout used up
  doubled       \* history variable: refreshes that passed the check of a
                \* token between that check and the blacklisting of another

server == <<issued, recorded, blacklisted, expired, serving, used, doubled>>
flows  == <<restore, login, logout>>
counts == <<asked, logins, faults, ends>>
vars   == <<server, store, auth, epoch, call, refresh, clears, flows, counts, overlap>>

-----------------------------------------------------------------------------
Pair    == 0..MaxPairs            \* 0: no token
Channel == Api \cup {"restore", "logout"}
Cell    == <<"access", "refresh", "session">>  \* in the order of clearSession
Pos     == DOMAIN Cell

Idle == [pc |-> "idle", tok |-> 0, retried |-> FALSE, body |-> 0, k |-> 1, again |-> FALSE]
CallState ==
  [pc : {"idle", "attach", "sent", "waiting", "clear", "ok", "failed"}, tok : Pair,
   retried : BOOLEAN, body : Pair, k : Pos, again : BOOLEAN]
RefreshState ==
  [pc : {"idle", "read", "posted", "saveAccess", "saveRefresh"}, tok : Pair, new : Pair]
Flow ==
  [pc : {"idle", "start", "post", "me", "recheck", "saveAccess", "saveRefresh",
         "wipe", "persist", "clearAuth"},
   user : User \cup {None}, tok : Pair, epoch : Nat, k : Pos]
NoFlow == [pc |-> "idle", user |-> None, tok |-> 0, epoch |-> 0, k |-> 1]

(* A call at the server: a refresh before its check, its blacklisting or   *)
(* its issue, or a login or logout that the phone has given up.            *)
ServerCall ==
  [at : {"none", "check", "blacklist", "issue", "login", "logout"},
   tok : Pair, user : User \cup {None}]
NoCall         == [at |-> "none", tok |-> 0, user |-> None]
RefreshCall(t) == [at |-> "check", tok |-> t, user |-> None]
LoginCall(u)   == [at |-> "login", tok |-> 0, user |-> u]
LogoutCall(t)  == [at |-> "logout", tok |-> t, user |-> None]
Worker == Slot \cup {"phone"}

ASSUME SessionsAssumption ==
  /\ HasCompany \subseteq User
  /\ \A n \in {MaxCalls, MaxLogins, MaxPairs, MaxFaults, MaxEnds, MaxEvents} : n \in Nat
  /\ MaxPairs > 0
  /\ {None, "loading", "unauthenticated", "error"} \cap User = {}
  /\ {"restore", "logout"} \cap Api = {}
  /\ IsFiniteSet(Slot) /\ "phone" \notin Slot

TypeOK ==
  /\ issued \in Seq(User) /\ Len(issued) <= MaxPairs
  /\ recorded \cup blacklisted \cup expired \cup used \subseteq DOMAIN issued
  /\ serving \in [Worker -> ServerCall]
  /\ store \in [access : Pair, refresh : Pair, session : User \cup {None}]
  /\ auth \in {"loading", "unauthenticated", "error"} \cup User
  /\ epoch \in Nat
  /\ call \in [Channel -> CallState] /\ refresh \in RefreshState
  /\ clears \in Seq(Pos)
  /\ restore \in Flow /\ login \in Flow /\ logout \in Flow
  /\ (\E c \in Channel : call[c].pc = "waiting") => refresh.pc # "idle"
  /\ overlap \in BOOLEAN /\ doubled \in Nat

-----------------------------------------------------------------------------
Emptied(k) ==
  [store EXCEPT ![Cell[k]] = IF Cell[k] = "session" THEN None ELSE 0]

(* One delete of SecureStorageService.clearSession by a flow               *)
DeleteCell(flow) ==
  /\ store' = Emptied(flow.k)
  /\ overlap' = (overlap \/ refresh.pc # "idle")

(* "then" is where the flow goes on after the last delete.                 *)
After(flow, then) ==
  IF flow.k = Len(Cell) THEN [flow EXCEPT !.pc = then, !.k = 1]
  ELSE [flow EXCEPT !.k = @ + 1]

Issue(u) == issued' = Append(issued, u)

(* AuthenticationService.logout, for a token that is not blacklisted yet   *)
Revoke(t) == blacklisted' = blacklisted \cup {t} /\ used' = used \cup {t}

(* The phone gives these calls up. The server has not seen them, or has    *)
(* lost the worker that serves them, or still serves them.                 *)
GiveUp(calls) ==
  \E kept \in [Slot -> calls \cup {NoCall}] :
    /\ \A w \in Slot : kept[w] # NoCall =>
         serving[w] = NoCall /\ \A v \in Slot \ {w} : kept[v] # kept[w]
    /\ serving' = [w \in Worker |->
         IF w = "phone" THEN IF serving[w] \in calls THEN NoCall ELSE serving[w]
         ELSE IF kept[w] # NoCall THEN kept[w] ELSE serving[w]]

Happens == asked + logins + faults + ends < MaxEvents

Lose == Happens /\ faults < MaxFaults /\ faults' = faults + 1

-----------------------------------------------------------------------------
(* Requests: AuthInterceptor, TokenRefreshInterceptor.                     *)

Started == [Idle EXCEPT !.pc = "attach"]

Ask(c) ==
  /\ auth \in User /\ call[c].pc = "idle"
  /\ Happens /\ asked < MaxCalls
  /\ asked' = asked + 1
  /\ call' = [call EXCEPT ![c] = Started]
  /\ UNCHANGED <<server, store, auth, epoch, refresh, clears, flows,
                 logins, faults, ends, overlap>>

(* The stored access token; when there is none, a retry keeps the header   *)
(* with the token of its refresh.                                          *)
Attach(c) ==
  /\ call[c].pc = "attach"
  /\ call' = [call EXCEPT ![c].pc = "sent",
                          ![c].tok = IF store.access # 0 THEN store.access ELSE @]
  /\ UNCHANGED <<server, store, auth, epoch, refresh, clears, flows, counts, overlap>>

Accepted(c) == call[c].tok # 0 /\ call[c].tok \notin expired

(* A request of a screen has no further effect; restore and logout go on.  *)
Ended(c, result) == IF c \in Api THEN Idle ELSE [call[c] EXCEPT !.pc = result]

Served(c) ==
  IF c = "logout" THEN Revoke(call[c].body) ELSE UNCHANGED <<blacklisted, used>>

Succeed(c) ==
  /\ call[c].pc = "sent" /\ Accepted(c)
  /\ Served(c)
  /\ call' = [call EXCEPT ![c] = Ended(c, "ok")]
  /\ UNCHANGED <<issued, recorded, expired, serving, doubled, store, auth, epoch,
                 refresh, clears, flows, counts, overlap>>

(* TokenRefreshInterceptor._shouldRefresh                                  *)
MayRefresh(c) == ~call[c].retried

(* 401: wait for the refresh in flight or start one; a retry that is still *)
(* refused ends the session, once in its own onError and once in that of   *)
(* the request it retries.                                                 *)
Denied(c) ==
  /\ call[c].pc = "sent" /\ ~Accepted(c)
  /\ IF MayRefresh(c)
     THEN /\ call' = [call EXCEPT ![c].pc = "waiting"]
          /\ refresh' = IF refresh.pc = "idle" THEN [refresh EXCEPT !.pc = "read"]
                        ELSE refresh
     ELSE /\ call' = [call EXCEPT ![c].pc = "clear", ![c].again = TRUE]
          /\ UNCHANGED refresh
  /\ UNCHANGED <<server, store, auth, epoch, clears, flows, counts, overlap>>

(* The request or its answer is lost. A lost retry ends the session.       *)
LoseRequest(c) ==
  /\ call[c].pc = "sent"
  /\ Lose
  /\ GiveUp(IF c = "logout" /\ Accepted(c) THEN {LogoutCall(call[c].body)} ELSE {})
  /\ call' = [call EXCEPT ![c] =
       IF call[c].retried THEN [@ EXCEPT !.pc = "clear"] ELSE Ended(c, "failed")]
  /\ UNCHANGED <<issued, recorded, blacklisted, expired, used, doubled, store, auth,
                 epoch, refresh, clears, flows, asked, logins, ends, overlap>>

(* Variant with a bug: only a signed-in state is left.                     *)
InvalidatedWhenSignedIn ==
  /\ epoch' = epoch + 1
  /\ clears' = Append(clears, 1)
  /\ auth' = IF auth \in User THEN "unauthenticated" ELSE auth

(* AuthController._onSessionInvalidated                                    *)
Invalidated ==
  /\ epoch' = epoch + 1
  /\ clears' = Append(clears, 1)
  /\ auth' = "unauthenticated"

(* _invalidateSession: clear the store, then tell the controller           *)
InvalidateSession(c) ==
  /\ call[c].pc = "clear"
  /\ DeleteCell(call[c])
  /\ IF call[c].k < Len(Cell)
     THEN call' = [call EXCEPT ![c].k = @ + 1] /\ UNCHANGED <<auth, epoch, clears>>
     ELSE /\ Invalidated
          /\ call' = [call EXCEPT ![c] =
               IF @.again THEN [@ EXCEPT !.again = FALSE, !.k = 1]
               ELSE Ended(c, "failed")]
  /\ UNCHANGED <<server, refresh, flows, counts>>

(* unawaited(_clearAuthorization())                                        *)
Clear(i) ==
  /\ store' = Emptied(clears[i])
  /\ clears' = IF clears[i] = Len(Cell) THEN RemoveAt(clears, i)
               ELSE [clears EXCEPT ![i] = @ + 1]
  /\ overlap' = (overlap \/ refresh.pc # "idle")
  /\ UNCHANGED <<server, auth, epoch, call, refresh, flows, counts>>

-----------------------------------------------------------------------------
(* The refresh, shared by all requests that wait for it.                   *)

NoRefresh == [pc |-> "idle", tok |-> 0, new |-> 0]

(* Variant with a bug: only one of the waiting requests is answered.       *)
CompletedForOne(new) ==
  LET c == CHOOSE d \in Channel : call[d].pc = "waiting"
  IN  /\ refresh' = NoRefresh
      /\ call' = [call EXCEPT ![c] =
           IF new = 0 THEN [@ EXCEPT !.pc = "clear"]
           ELSE [@ EXCEPT !.pc = "attach", !.retried = TRUE, !.tok = new]]

Completed(new) ==
  /\ refresh' = NoRefresh
  /\ call' = [c \in Channel |->
       IF call[c].pc # "waiting" THEN call[c]
       ELSE IF new = 0 THEN [call[c] EXCEPT !.pc = "clear"]
       ELSE [call[c] EXCEPT !.pc = "attach", !.retried = TRUE, !.tok = new]]

ReadRefreshToken ==
  /\ refresh.pc = "read"
  /\ IF store.refresh = 0 THEN Completed(0) /\ UNCHANGED serving
     ELSE /\ refresh' = [refresh EXCEPT !.pc = "posted", !.tok = store.refresh]
          /\ serving' = [serving EXCEPT !["phone"] = RefreshCall(store.refresh)]
          /\ UNCHANGED call
  /\ UNCHANGED <<issued, recorded, blacklisted, expired, used, doubled,
                 store, auth, epoch, clears, flows, counts, overlap>>

(* AuthenticationService.refresh is three statements, each of its own      *)
(* transaction: the check of the blacklist, the blacklisting, which does   *)
(* not refuse a token blacklisted meanwhile, and the new pair, which is    *)
(* not recorded as outstanding.                                            *)

Checked(t) == \E w \in Worker : serving[w].at = "blacklist" /\ serving[w].tok = t

CheckRefresh(w) ==
  /\ serving[w].at = "check"
  /\ IF serving[w].tok \in blacklisted
     THEN /\ serving' = [serving EXCEPT ![w] = NoCall]
          /\ IF w = "phone" THEN Completed(0) ELSE UNCHANGED <<call, refresh>>
          /\ UNCHANGED doubled
     ELSE /\ serving' = [serving EXCEPT ![w].at = "blacklist"]
          /\ doubled' = doubled + (IF Checked(serving[w].tok) THEN 1 ELSE 0)
          /\ UNCHANGED <<call, refresh>>
  /\ UNCHANGED <<issued, recorded, blacklisted, expired, used,
                 store, auth, epoch, clears, flows, counts, overlap>>

(* Variant with a bug: the old refresh token is kept valid.                *)
RotatedKeepingOld(t) == blacklisted

Rotated(t) == blacklisted \cup {t}

BlacklistRefresh(w) ==
  /\ serving[w].at = "blacklist"
  /\ blacklisted' = Rotated(serving[w].tok)
  /\ used' = used \cup {serving[w].tok}
  /\ serving' = [serving EXCEPT ![w].at = "issue"]
  /\ UNCHANGED <<issued, recorded, expired, doubled,
                 store, auth, epoch, call, refresh, clears, flows, counts, overlap>>

IssueRefresh(w) ==
  /\ serving[w].at = "issue" /\ Len(issued) < MaxPairs
  /\ Issue(issued[serving[w].tok])
  /\ serving' = [serving EXCEPT ![w] = NoCall]
  /\ refresh' = IF w # "phone" THEN refresh
                ELSE [refresh EXCEPT !.pc = "saveAccess", !.new = Len(issued) + 1]
  /\ UNCHANGED <<recorded, blacklisted, expired, used, doubled,
                 store, auth, epoch, call, clears, flows, counts, overlap>>

(* A login or a logout that the phone has given up is still served.        *)
ServeLate(w) ==
  /\ \/ /\ serving[w].at = "login" /\ Len(issued) < MaxPairs
        /\ Issue(serving[w].user)
        /\ recorded' = recorded \cup {Len(issued) + 1}
        /\ UNCHANGED <<blacklisted, used>>
     \/ /\ serving[w].at = "logout"
        /\ Revoke(serving[w].tok)
        /\ UNCHANGED <<issued, recorded>>
  /\ serving' = [serving EXCEPT ![w] = NoCall]
  /\ UNCHANGED <<expired, doubled,
                 store, auth, epoch, call, refresh, clears, flows, counts, overlap>>

(* Lost before the server has seen it, while it is served or with the      *)
(* answer.                                                                 *)
LoseRefresh ==
  /\ refresh.pc \in {"posted", "saveAccess"}
  /\ Lose
  /\ Completed(0)
  /\ GiveUp({serving["phone"]})
  /\ UNCHANGED <<issued, recorded, blacklisted, expired, used, doubled, store, auth,
                 epoch, clears, flows, asked, logins, ends, overlap>>

SaveAccess ==
  /\ refresh.pc = "saveAccess"
  /\ store' = [store EXCEPT !.access = refresh.new]
  /\ refresh' = [refresh EXCEPT !.pc = "saveRefresh"]
  /\ UNCHANGED <<server, auth, epoch, call, clears, flows, counts, overlap>>

(* Variant with a bug: the rotated refresh token is not stored.            *)
RefreshSavedNotRotated == store

RefreshSaved == [store EXCEPT !.refresh = refresh.new]

SaveRefresh ==
  /\ refresh.pc = "saveRefresh"
  /\ store' = RefreshSaved
  /\ Completed(refresh.new)
  /\ UNCHANGED <<server, auth, epoch, clears, flows, counts, overlap>>

-----------------------------------------------------------------------------
(* AuthController._persistAuthorization: a user without a company has no   *)
(* session to store, and the store is cleared.                             *)
Persist(flow) ==
  IF flow.user \in HasCompany
  THEN store' = [store EXCEPT !.session = flow.user] /\ UNCHANGED overlap
  ELSE DeleteCell(flow)

Persisted(flow) == flow.user \in HasCompany \/ flow.k = Len(Cell)

(* login                                                                   *)
StartLogin(u) ==
  /\ auth \in {"unauthenticated", "error"} /\ login.pc = "idle"
  /\ Happens /\ logins < MaxLogins
  /\ logins' = logins + 1
  /\ login' = [NoFlow EXCEPT !.pc = "post", !.user = u]
  /\ UNCHANGED <<server, store, auth, epoch, call, refresh, clears, restore, logout,
                 asked, faults, ends, overlap>>

LoginAnswered ==
  /\ login.pc = "post" /\ Len(issued) < MaxPairs
  /\ Issue(login.user)
  /\ recorded' = recorded \cup {Len(issued) + 1}
  /\ login' = [login EXCEPT !.pc = "saveAccess", !.tok = Len(issued) + 1]
  /\ UNCHANGED <<blacklisted, expired, serving, used, doubled, store, auth, epoch,
                 call, refresh, clears, restore, logout, counts, overlap>>

(* Lost before the server has seen it, while it is served or with the      *)
(* answer.                                                                 *)
LoginLost ==
  /\ login.pc \in {"post", "saveAccess"} /\ Lose
  /\ GiveUp(IF login.pc = "post" THEN {LoginCall(login.user)} ELSE {})
  /\ login' = NoFlow
  /\ auth' = "error"
  /\ UNCHANGED <<issued, recorded, blacklisted, expired, used, doubled, store, epoch,
                 call, refresh, clears, restore, logout, asked, logins, ends, overlap>>

OldWork ==
  \/ refresh.pc # "idle" \/ clears # <<>> \/ restore.pc # "idle" \/ logout.pc # "idle"
  \/ \E c \in Channel : call[c].pc # "idle"

LoginSaves ==
  /\ login.pc \in {"saveAccess", "saveRefresh"}
  /\ \/ /\ login.pc = "saveAccess"
        /\ store' = [store EXCEPT !.access = login.tok]
        /\ login' = [login EXCEPT !.pc = "saveRefresh"]
        /\ UNCHANGED epoch
     \/ /\ login.pc = "saveRefresh"
        /\ store' = [store EXCEPT !.refresh = login.tok]
        /\ epoch' = epoch + 1
        /\ login' = [login EXCEPT !.pc = "persist", !.epoch = epoch']
  /\ overlap' = (overlap \/ OldWork)
  /\ UNCHANGED <<server, auth, call, refresh, clears, restore, logout, counts>>

LoginPersists ==
  /\ login.pc = "persist"
  /\ Persist(login)
  /\ IF Persisted(login)
     THEN /\ login' = NoFlow
          /\ auth' = IF login.epoch = epoch THEN login.user ELSE auth
     ELSE login' = [login EXCEPT !.k = @ + 1] /\ UNCHANGED auth
  /\ UNCHANGED <<server, epoch, call, refresh, clears, restore, logout, counts>>

-----------------------------------------------------------------------------
(* logout                                                                  *)
StartLogout ==
  /\ auth \in User /\ logout.pc = "idle"
  /\ epoch' = epoch + 1
  /\ logout' = [NoFlow EXCEPT !.pc = "start"]
  /\ UNCHANGED <<server, store, auth, call, refresh, clears, restore, login, counts, overlap>>

LogoutReads ==
  /\ logout.pc = "start"
  /\ IF store.refresh = 0
     THEN logout' = [logout EXCEPT !.pc = "wipe"] /\ UNCHANGED call
     ELSE /\ logout' = [logout EXCEPT !.pc = "post", !.tok = store.refresh]
          /\ call' = [call EXCEPT !["logout"] = [Started EXCEPT !.body = store.refresh]]
  /\ UNCHANGED <<server, store, auth, epoch, refresh, clears, restore, login, counts, overlap>>

LogoutCallEnds ==
  /\ logout.pc = "post" /\ call["logout"].pc \in {"ok", "failed"}
  /\ logout' = [logout EXCEPT !.pc = "wipe"]
  /\ call' = [call EXCEPT !["logout"] = Idle]
  /\ UNCHANGED <<server, store, auth, epoch, refresh, clears, restore, login, counts, overlap>>

(* clearTokens in the repository, then _clearAuthorization                 *)
LogoutClears ==
  /\ logout.pc \in {"wipe", "clearAuth"}
  /\ DeleteCell(logout)
  /\ logout' = IF logout.pc = "wipe" THEN After(logout, "clearAuth")
               ELSE IF logout.k = Len(Cell) THEN NoFlow ELSE After(logout, "idle")
  /\ auth' = IF logout'.pc = "idle" THEN "unauthenticated" ELSE auth
  /\ UNCHANGED <<server, epoch, call, refresh, clears, restore, login, counts>>

-----------------------------------------------------------------------------
(* restoreSession, at the start of the application                         *)
RestoreReads ==
  /\ restore.pc = "start"
  /\ IF store.refresh = 0
     THEN restore' = [restore EXCEPT !.pc = "clearAuth"] /\ UNCHANGED call
     ELSE /\ restore' = [restore EXCEPT !.pc = "me", !.tok = store.refresh]
          /\ call' = [call EXCEPT !["restore"] = Started]
  /\ UNCHANGED <<server, store, auth, epoch, refresh, clears, login, logout, counts, overlap>>

Current(next) == IF restore.epoch = epoch THEN next ELSE NoFlow

RestoreCallEnds ==
  /\ restore.pc = "me" /\ call["restore"].pc \in {"ok", "failed"}
  /\ restore' = IF call["restore"].pc = "failed" THEN [restore EXCEPT !.pc = "recheck"]
                ELSE Current([restore EXCEPT !.pc = "persist",
                                         !.user = issued[call["restore"].tok]])
  /\ call' = [call EXCEPT !["restore"] = Idle]
  /\ UNCHANGED <<server, store, auth, epoch, refresh, clears, login, logout, counts, overlap>>

(* The tokens are cleared unless a login replaced them meanwhile.          *)
RestoreRechecks ==
  /\ restore.pc = "recheck"
  /\ restore' = IF store.refresh = restore.tok THEN [restore EXCEPT !.pc = "wipe"]
                ELSE Current([restore EXCEPT !.pc = "clearAuth"])
  /\ UNCHANGED <<server, store, auth, epoch, call, refresh, clears, login, logout,
                 counts, overlap>>

(* clearTokens of the use case, then, unless the epoch has changed,        *)
(* _clearAuthorization and the state                                       *)
RestoreClears ==
  /\ restore.pc \in {"wipe", "clearAuth"}
  /\ DeleteCell(restore)
  /\ restore' = IF restore.pc = "wipe"
                THEN LET next == After(restore, "clearAuth")
                     IN  IF next.pc = "wipe" THEN next ELSE Current(next)
                ELSE IF restore.k = Len(Cell) THEN NoFlow ELSE After(restore, "idle")
  /\ auth' = IF restore.pc = "clearAuth" /\ restore.k = Len(Cell)
             THEN "unauthenticated" ELSE auth
  /\ UNCHANGED <<server, epoch, call, refresh, clears, login, logout, counts>>

RestorePersists ==
  /\ restore.pc = "persist"
  /\ Persist(restore)
  /\ IF Persisted(restore)
     THEN /\ restore' = NoFlow
          /\ auth' = IF restore.epoch = epoch THEN restore.user ELSE auth
     ELSE restore' = [restore EXCEPT !.k = @ + 1] /\ UNCHANGED auth
  /\ UNCHANGED <<server, epoch, call, refresh, clears, login, logout, counts>>

-----------------------------------------------------------------------------
UnderWay ==
  {serving["phone"]}
  \cup {LoginCall(u) : u \in {v \in User : login.pc = "post" /\ login.user = v}}
  \cup {LogoutCall(call[c].body) :
         c \in {d \in {"logout"} : call[d].pc = "sent" /\ Accepted(d)}}

(* The application is killed and started again: only the storage is left,  *)
(* and the server serves on what was under way.                            *)
Restart ==
  /\ Lose
  /\ GiveUp(UnderWay)
  /\ auth' = "loading" /\ epoch' = 0
  /\ call' = [c \in Channel |-> Idle] /\ refresh' = NoRefresh /\ clears' = <<>>
  /\ restore' = [NoFlow EXCEPT !.pc = "start"] /\ login' = NoFlow /\ logout' = NoFlow
  /\ overlap' = (overlap \/ refresh.pc # "idle" \/ login.pc # "idle" \/ logout.pc # "idle"
                        \/ \E c \in Channel : call[c].pc = "clear")
  /\ UNCHANGED <<issued, recorded, blacklisted, expired, used, doubled, store,
                 asked, logins, ends>>

ExpireAccess(i) ==
  /\ Happens /\ ends < MaxEnds /\ i \notin expired
  /\ expired' = expired \cup {i}
  /\ ends' = ends + 1
  /\ UNCHANGED <<issued, recorded, blacklisted, serving, used, doubled, store, auth,
                 epoch, call, refresh, clears, flows, asked, logins, faults, overlap>>

(* PasswordResetService.reset_password                                     *)
ResetPassword(u) ==
  /\ Happens /\ ends < MaxEnds
  /\ ends' = ends + 1
  /\ blacklisted' = blacklisted \cup {i \in recorded : issued[i] = u}
  /\ UNCHANGED <<issued, recorded, expired, serving, used, doubled, store, auth,
                 epoch, call, refresh, clears, flows, asked, logins, faults, overlap>>

(* The application starts with nothing stored, or with the pair of an      *)
(* earlier login.                                                          *)
Init ==
  /\ \/ issued = <<>> /\ store = [access |-> 0, refresh |-> 0, session |-> None]
     \/ \E u \in HasCompany :
          issued = <<u>> /\ store = [access |-> 1, refresh |-> 1, session |-> u]
  /\ recorded = DOMAIN issued /\ blacklisted = {} /\ expired = {}
  /\ serving = [w \in Worker |-> NoCall] /\ used = {} /\ doubled = 0
  /\ auth = "loading" /\ epoch = 0
  /\ call = [c \in Channel |-> Idle] /\ refresh = NoRefresh /\ clears = <<>>
  /\ restore = [NoFlow EXCEPT !.pc = "start"] /\ login = NoFlow /\ logout = NoFlow
  /\ asked = 0 /\ logins = 0 /\ faults = 0 /\ ends = 0
  /\ overlap = FALSE

Phone ==
  \/ \E c \in Channel : Attach(c) \/ InvalidateSession(c)
  \/ \E i \in DOMAIN clears : Clear(i)
  \/ ReadRefreshToken \/ SaveAccess \/ SaveRefresh
  \/ LoginSaves \/ LoginPersists
  \/ LogoutReads \/ LogoutCallEnds \/ LogoutClears
  \/ RestoreReads \/ RestoreCallEnds \/ RestoreRechecks \/ RestoreClears
  \/ RestorePersists

Network ==
  \/ \E c \in Channel : Succeed(c) \/ Denied(c)
  \/ \E w \in Worker :
       CheckRefresh(w) \/ BlacklistRefresh(w) \/ IssueRefresh(w) \/ ServeLate(w)
  \/ LoginAnswered

Environment ==
  \/ \E c \in Api : Ask(c)
  \/ \E c \in Channel : LoseRequest(c)
  \/ LoseRefresh \/ LoginLost
  \/ \E u \in User : StartLogin(u)
  \/ StartLogout
  \/ Restart
  \/ \E i \in DOMAIN issued : ExpireAccess(i)
  \/ \E u \in User : ResetPassword(u)

Next == Phone \/ Network \/ Environment

Spec == Init /\ [][Next]_vars

(* The event loop resumes what can go on, and a call is answered or times  *)
(* out. Which of the two goes first is open; users, faults and expiry are  *)
(* not fair.                                                               *)
FairSpec == Spec /\ WF_vars(Phone \/ Network)

-----------------------------------------------------------------------------
(* Properties.                                                             *)

Quiet == ~OldWork /\ login.pc = "idle"

(* When nothing is under way, the controller and the storage agree: a      *)
(* signed-in user with a company has his own tokens and session, and all   *)
(* other states mean an empty storage, also after lost calls, refused      *)
(* retries and restarts. The known exceptions are overlaps: a refresh that *)
(* was in flight during a clear, a login while work of the session before  *)
(* was left, and a restart in the middle of a refresh, login or logout, or *)
(* of the clear that a failed refresh asks for.                            *)
SessionMatches ==
  Quiet /\ ~overlap =>
    IF auth \in HasCompany
    THEN /\ store.session = auth
         /\ store.refresh # 0 /\ issued[store.refresh] = auth
         /\ store.access # 0 /\ issued[store.access] = auth
    ELSE store = [access |-> 0, refresh |-> 0, session |-> None]

(* The tokens that a refresh or a logout has used up, and those that a     *)
(* call which the phone has given up may still use up.                     *)
Spent ==
  used \cup {serving[w].tok : w \in {v \in Slot : serving[v].at \in
                {"check", "blacklist", "issue", "logout"}}}

(* ... and the stored refresh token is one that the server still takes     *)
(* unless a password reset ended it: neither rotation nor a call that the  *)
(* phone has given up leaves it with a token that is used up.              *)
SessionUsable ==
  Quiet /\ ~overlap /\ auth \in HasCompany => store.refresh \notin Spent

(* The phone's session is one the server serves.                           *)
SessionSound == SessionMatches /\ SessionUsable

(* Rotation replaces a pair: at most one of the pairs that descend from a  *)
(* login is accepted, however calls are lost, repeated or cut off, but for *)
(* refreshes that checked a token while another had checked it and not yet *)
(* blacklisted it, each of which leaves one pair more.                     *)
OneLivePair ==
  Cardinality(DOMAIN issued \ blacklisted) <= Cardinality(recorded) + doubled

(* docs/flutter-authentication.md:92 says "Restore never stays on splash." *)
RestoreEnds == (auth = "loading") ~> (auth # "loading")
=============================================================================
