---------------------------- MODULE ClientSession ----------------------------
(***************************************************************************)
(* The token session of the desktop client: several windows (tabs) of one  *)
(* device share a stored refresh token and must rotate it one at a time,   *)
(* because the server revokes the session when a used token comes back.    *)
(*                                                                         *)
(* Each window keeps an access token, at most one refresh in flight, and   *)
(* callers (API requests, the start of the application, signing out) that  *)
(* wait for it.  Every await is a step.  The server is external.  Tokens   *)
(* are numbered: refresh n brings access token n.  One session is          *)
(* modelled, from after its sign-in: nobody signs in again.                *)
(***************************************************************************)
EXTENDS Naturals

CONSTANTS
  Window,
  Caller,     \* calls that may be in progress at once
  Home,       \* Home[c]: the window of caller c
  HasLocks,   \* whether the webview has navigator.locks
  MaxTokens   \* bound: refresh tokens the server issues

ASSUME HomeAssumption == Home \in [Caller -> Window]
ASSUME BoundAssumption == MaxTokens \in Nat \ {0}
\* Only the web locks order the refreshes of several windows.
ASSUME LocksAssumption == HasLocks \in BOOLEAN /\ (HasLocks \/ \A v, w \in Window : v = w)

VARIABLES
  stored,    \* the refresh token in secureStore, 0 for none
  access,    \* access[w]: the access token of window w, 0 for none
  fresh,     \* fresh[w]: its expiry is further off than the skew, by the clock of w
  phase,     \* phase[w]: where the refresh in flight is, "none" if there is none
  carried,   \* carried[w]: the token it presents, then the one it was given
  clearing,  \* windows with a secureStore.clear on its way
  status,    \* status[w]: AuthStatus, "closed" when the window is not there
  call,      \* call[c]: where caller c is, what it does, the access token it has
  current,   \* server: the refresh token it accepts
  revoked,   \* server: the session is revoked
  dead,      \* server: expired access tokens
  late,      \* requests that were given up and may still reach the server
  lost,      \* history: an answer or a token was lost, or a window died in a refresh
  ended,     \* history: signing out, a revocation from elsewhere, or a 403
  reused     \* history: the server has seen a used refresh token before any loss

refreshVars == <<phase, carried>>
serverVars == <<current, revoked, dead, late, reused>>
historyVars == <<lost, ended>>
vars == <<stored, access, fresh, clearing, status, refreshVars, call, serverVars, historyVars>>

Token == 1..MaxTokens
NoCall == [at |-> "idle", job |-> "api", token |-> 0]
Clearing == [at |-> "clear", job |-> "logout", token |-> 0]
CallRecord == [at: {"idle", "check", "ensure", "sent", "force", "resent", "failed", "clear"},
               job: {"api", "boot", "logout"},
               token: 0..MaxTokens]
Phase == {"none", "lock", "read", "sent", "granted", "denied", "persist"}

TypeOK ==
  /\ stored \in 0..MaxTokens
  /\ access \in [Window -> 0..MaxTokens]
  /\ fresh \in [Window -> BOOLEAN]
  /\ phase \in [Window -> Phase]
  /\ carried \in [Window -> 0..MaxTokens]
  /\ clearing \subseteq Window
  /\ status \in [Window -> {"closed", "unknown", "in", "out"}]
  /\ call \in [Caller -> CallRecord]
  /\ current \in Token
  /\ revoked \in BOOLEAN
  /\ dead \subseteq Token
  /\ late \subseteq Token
  /\ reused \in BOOLEAN
  /\ lost \in BOOLEAN
  /\ ended \in BOOLEAN

\* A signed-in device whose windows are all closed.
Init ==
  /\ stored = 1
  /\ access = [w \in Window |-> 0]
  /\ fresh = [w \in Window |-> FALSE]
  /\ phase = [w \in Window |-> "none"]
  /\ carried = [w \in Window |-> 0]
  /\ clearing = {}
  /\ status = [w \in Window |-> "closed"]
  /\ call = [c \in Caller |-> NoCall]
  /\ current = 1
  /\ revoked = FALSE
  /\ dead = {}
  /\ late = {}
  /\ reused = FALSE
  /\ lost = FALSE
  /\ ended = FALSE

-----------------------------------------------------------------------------
(* The refresh: refreshOnce and performRefresh. *)

isExpiring(w) == access[w] = 0 \/ ~ fresh[w]

\* refreshOnce: the refresh in flight is joined, or one is begun.
JoinRefresh(w) ==
  phase' = IF phase[w] # "none" THEN phase
           ELSE [phase EXCEPT ![w] = IF HasLocks THEN "lock" ELSE "read"]

At(c, s) == [call EXCEPT ![c].at = s]

\* The refresh of w ends with access token t, 0 for null, when the access token
\* of w is a: those who wait go on, those who retry with what there is.
Finish(w, t, a) ==
  LET Waits(c, s) == Home[c] = w /\ call[c].at = s
      Go(c, s, u) == [call[c] EXCEPT !.at = s, !.token = u]
      again == IF t # 0 THEN t ELSE a
  IN /\ phase' = [phase EXCEPT ![w] = "none"]
     /\ carried' = [carried EXCEPT ![w] = 0]
     /\ call' = [c \in Caller |->
                   CASE Waits(c, "ensure") ->
                          Go(c, IF call[c].job = "boot" /\ t = 0 THEN "failed" ELSE "sent", t)
                     [] Waits(c, "force") ->
                          Go(c, IF again # 0 THEN "resent" ELSE "failed", again)
                     [] OTHER -> call[c]]

\* The refresh of w rejects: all who wait get the exception.  apiRequest passes
\* it on, signOut catches it, and bootstrap ends with the status unknown.
Raise(w) ==
  /\ phase' = [phase EXCEPT ![w] = "none"]
  /\ carried' = [carried EXCEPT ![w] = 0]
  /\ call' = [c \in Caller |->
                IF Home[c] # w \/ call[c].at \notin {"ensure", "force"} THEN call[c]
                ELSE IF call[c].at = "ensure" /\ call[c].job = "boot" THEN NoCall
                ELSE [call[c] EXCEPT !.at = "failed"]]

\* loseSession and the handler of the auth store; the clear is not awaited.
LoseSession(w) ==
  /\ access' = [access EXCEPT ![w] = 0]
  /\ fresh' = [fresh EXCEPT ![w] = FALSE]
  /\ clearing' = clearing \cup {w}
  /\ status' = [status EXCEPT ![w] = "out"]

Refreshing(w) == phase[w] \notin {"none", "lock"}

\* A bug: the refresh runs without waiting for the lock.
LockIgnored(w) ==
  /\ phase[w] = "lock"
  /\ isExpiring(w)
  /\ phase' = [phase EXCEPT ![w] = "read"]
  /\ UNCHANGED <<stored, access, fresh, clearing, status, carried, call, serverVars, historyVars>>

\* The lock is granted: another window may have refreshed, but it is the access
\* token of this one that is looked at.
AcquireLock(w) ==
  /\ phase[w] = "lock"
  /\ \A v \in Window : ~ Refreshing(v)
  /\ IF isExpiring(w)
       THEN phase' = [phase EXCEPT ![w] = "read"] /\ UNCHANGED <<carried, call>>
       ELSE Finish(w, access[w], access[w])
  /\ UNCHANGED <<stored, access, fresh, clearing, status, serverVars, historyVars>>

\* A bug: nobody looks whether the store held a token.
PresentAnything(w) ==
  /\ phase[w] = "read"
  /\ phase' = [phase EXCEPT ![w] = "sent"]
  /\ carried' = [carried EXCEPT ![w] = stored]
  /\ UNCHANGED <<stored, access, fresh, clearing, status, call, serverVars, historyVars>>

\* secureStore.get and the request.
Present(w) ==
  /\ phase[w] = "read"
  /\ stored # 0
  /\ phase' = [phase EXCEPT ![w] = "sent"]
  /\ carried' = [carried EXCEPT ![w] = stored]
  /\ UNCHANGED <<stored, access, fresh, clearing, status, call, serverVars, historyVars>>

\* A bug: the refresh waits for a login with its promise, and the lock, in hand.
NothingStoredWaits(w) ==
  /\ phase[w] = "read"
  /\ stored = 0
  /\ LoseSession(w)
  /\ UNCHANGED <<stored, refreshVars, call, serverVars, historyVars>>

NothingStored(w) ==
  /\ phase[w] = "read"
  /\ stored = 0
  /\ LoseSession(w)
  /\ Finish(w, 0, 0)
  /\ UNCHANGED <<stored, serverVars, historyVars>>

\* secureStore.get rejects, in the desktop application ...
ReadFails(w) ==
  /\ phase[w] = "read"
  /\ Raise(w)
  /\ UNCHANGED <<stored, access, fresh, clearing, status, serverVars, historyVars>>

\* ... and finds nothing, in a browser that blocks its storage.
ReadBlocked(w) ==
  /\ phase[w] = "read"
  /\ LoseSession(w)
  /\ Finish(w, 0, 0)
  /\ lost' = TRUE
  /\ UNCHANGED <<stored, serverVars, ended>>

\* adoptTokens: the access token first, the refresh token after an await.
Adopt(w) ==
  /\ phase[w] = "granted"
  /\ access' = [access EXCEPT ![w] = carried[w]]
  /\ fresh' = [fresh EXCEPT ![w] = TRUE]
  /\ phase' = [phase EXCEPT ![w] = "persist"]
  /\ UNCHANGED <<stored, clearing, status, carried, call, serverVars, historyVars>>

\* A bug: the replacement is not stored.
PersistForgotten(w) ==
  /\ phase[w] = "persist"
  /\ Finish(w, carried[w], access[w])
  /\ UNCHANGED <<stored, access, fresh, clearing, status, serverVars, historyVars>>

Persist(w) ==
  /\ phase[w] = "persist"
  /\ stored' = carried[w]
  /\ Finish(w, carried[w], access[w])
  /\ UNCHANGED <<access, fresh, clearing, status, serverVars, historyVars>>

\* The answer cannot be read, or secureStore.set rejects.
PersistFails(w) ==
  /\ phase[w] \in {"granted", "persist"}
  /\ Raise(w)
  /\ lost' = TRUE
  /\ UNCHANGED <<stored, access, fresh, clearing, status, serverVars, ended>>

\* In a browser whose storage is full or blocked set says nothing.
PersistDropped(w) ==
  /\ phase[w] = "persist"
  /\ Finish(w, carried[w], access[w])
  /\ lost' = TRUE
  /\ UNCHANGED <<stored, access, fresh, clearing, status, serverVars, ended>>

\* A bug: a server error logs the user out.
UnreachedLoses(w) ==
  /\ phase[w] = "sent"
  /\ LoseSession(w)
  /\ Finish(w, 0, 0)
  /\ UNCHANGED <<stored, serverVars, historyVars>>

\* The request never arrived, or 429 or 5xx: null, and the session is kept.
Unreached(w) ==
  /\ phase[w] = "sent"
  /\ Finish(w, 0, access[w])
  /\ UNCHANGED <<stored, access, fresh, clearing, status, serverVars, historyVars>>

\* fetch rejects while the request may still arrive, or the answer is lost.
AnswerLost(w) ==
  /\ phase[w] \in {"sent", "granted", "denied"}
  /\ late' = IF phase[w] = "sent" THEN late \cup {carried[w]} ELSE late
  /\ lost' = TRUE
  /\ Finish(w, 0, access[w])
  /\ UNCHANGED <<stored, access, fresh, clearing, status, current, revoked, dead, reused, ended>>

\* 401 or 403.
Rejected(w) ==
  /\ phase[w] = "denied"
  /\ LoseSession(w)
  /\ Finish(w, 0, 0)
  /\ UNCHANGED <<stored, serverVars, historyVars>>

\* loseSession's clear reaches the store, or fails.
Cleared(w) ==
  /\ w \in clearing
  /\ stored' \in {0, stored}
  /\ clearing' = clearing \ {w}
  /\ UNCHANGED <<access, fresh, status, refreshVars, call, serverVars, historyVars>>

\* scheduleProactiveRefresh, whose timer runs while the user is signed in.
Proactive(w) ==
  /\ status[w] = "in"
  /\ phase[w] = "none"
  /\ JoinRefresh(w)
  /\ UNCHANGED <<stored, access, fresh, clearing, status, carried, call, serverVars, historyVars>>

\* The socket is closed with code 4001: notifySessionLost.
SocketRevoked(w) ==
  /\ revoked
  /\ status[w] = "in"
  /\ LoseSession(w)
  /\ UNCHANGED <<stored, refreshVars, call, serverVars, historyVars>>

ClockPasses(w) ==
  /\ fresh[w]
  /\ fresh' = [fresh EXCEPT ![w] = FALSE]
  /\ UNCHANGED <<stored, access, clearing, status, refreshVars, call, serverVars, historyVars>>

\* The window is closed or dies; its lock is released.
Close(w) ==
  /\ status[w] # "closed"
  /\ access' = [access EXCEPT ![w] = 0]
  /\ fresh' = [fresh EXCEPT ![w] = FALSE]
  /\ phase' = [phase EXCEPT ![w] = "none"]
  /\ carried' = [carried EXCEPT ![w] = 0]
  /\ clearing' = clearing \ {w}
  /\ status' = [status EXCEPT ![w] = "closed"]
  /\ call' = [c \in Caller |-> IF Home[c] = w THEN NoCall ELSE call[c]]
  /\ late' = IF phase[w] = "sent" THEN late \cup {carried[w]} ELSE late
  /\ lost' = (lost \/ phase[w] \in {"sent", "granted", "persist"})
  /\ UNCHANGED <<stored, current, revoked, dead, reused, ended>>

-----------------------------------------------------------------------------
(* Callers: apiRequest, bootstrap and signOut. *)

\* ensureAccessToken, by a caller that is to do j.
Ensure(c, j) ==
  LET w == Home[c] IN
    IF isExpiring(w)
      THEN /\ call' = [call EXCEPT ![c] = [at |-> "ensure", job |-> j, token |-> 0]]
           /\ JoinRefresh(w)
      ELSE /\ call' = [call EXCEPT ![c] = [at |-> "sent", job |-> j, token |-> access[w]]]
           /\ UNCHANGED phase

\* A request, or signOut, which asks the server to log out first.
Call(c, j) ==
  /\ call[c].at = "idle"
  /\ status[Home[c]] = "in"
  /\ Ensure(c, j)
  /\ ended' = (ended \/ j = "logout")
  /\ UNCHANGED <<stored, access, fresh, clearing, status, carried, serverVars, lost>>

\* bootstrap.
Launch(c) ==
  /\ call[c].at = "idle"
  /\ status[Home[c]] = "closed"
  /\ status' = [status EXCEPT ![Home[c]] = "unknown"]
  /\ call' = [call EXCEPT ![c] = [at |-> "check", job |-> "boot", token |-> 0]]
  /\ UNCHANGED <<stored, access, fresh, clearing, refreshVars, serverVars, historyVars>>

\* hasStoredSession; with a token at hand it goes on to load the profile.  When
\* the store cannot be read bootstrap rejects, or finds nothing.
Check(c) ==
  /\ call[c].at = "check"
  /\ \/ stored # 0 /\ Ensure(c, "boot") /\ UNCHANGED status
     \/ /\ call' = [call EXCEPT ![c] = NoCall]
        /\ \/ status' = [status EXCEPT ![Home[c]] = "out"]
           \/ UNCHANGED status
        /\ UNCHANGED phase
  /\ UNCHANGED <<stored, access, fresh, clearing, carried, serverVars, historyVars>>

InFlight(c) == call[c].at \in {"sent", "resent"}

\* What the server makes of an access token.
Valid(t) == t # 0 /\ ~ revoked /\ t \notin dead

\* The call of c returns.  A request is answered; bootstrap shows the login
\* screen without a profile; signOut goes on to clearSession in either case.
Return(c, ok) ==
  LET w == Home[c]
      signsOut == call[c].job = "logout"
  IN /\ call' = [call EXCEPT ![c] = IF signsOut THEN Clearing ELSE NoCall]
     /\ access' = IF signsOut THEN [access EXCEPT ![w] = 0] ELSE access
     /\ fresh' = IF signsOut THEN [fresh EXCEPT ![w] = FALSE] ELSE fresh
     /\ status' = IF call[c].job = "boot"
                    THEN [status EXCEPT ![w] = IF ok THEN "in" ELSE "out"]
                    ELSE status

Accepted(c) ==
  /\ InFlight(c)
  /\ Valid(call[c].token)
  /\ Return(c, TRUE)
  /\ revoked' = (revoked \/ call[c].job = "logout")
  /\ UNCHANGED <<stored, clearing, refreshVars, current, dead, late, reused, historyVars>>

\* 401 leads to a forced refresh the first time.
Unauthorized(c) ==
  /\ call[c].at = "sent"
  /\ ~ Valid(call[c].token)
  /\ call' = At(c, "force")
  /\ JoinRefresh(Home[c])
  /\ UNCHANGED <<stored, access, fresh, clearing, status, carried, serverVars, historyVars>>

UnauthorizedAgain(c) ==
  /\ call[c].at = "resent"
  /\ ~ Valid(call[c].token)
  /\ Return(c, FALSE)
  /\ UNCHANGED <<stored, clearing, refreshVars, serverVars, historyVars>>

\* A network error or 5xx; a logout may have taken effect.
Unanswered(c) ==
  /\ InFlight(c)
  /\ Return(c, FALSE)
  /\ revoked' \in {revoked, revoked \/ (call[c].job = "logout" /\ Valid(call[c].token))}
  /\ UNCHANGED <<stored, clearing, refreshVars, current, dead, late, reused, historyVars>>

\* The refresh brought nothing to go on with.
Failed(c) ==
  /\ call[c].at = "failed"
  /\ Return(c, FALSE)
  /\ UNCHANGED <<stored, clearing, refreshVars, serverVars, historyVars>>

\* The end of clearSession and of signOut; a secureStore.clear that fails keeps
\* the token, and one that rejects keeps the status too.
ClearStore(c) ==
  /\ call[c].at = "clear"
  /\ \/ stored' \in {0, stored} /\ status' = [status EXCEPT ![Home[c]] = "out"]
     \/ UNCHANGED <<stored, status>>
  /\ call' = [call EXCEPT ![c] = NoCall]
  /\ UNCHANGED <<access, fresh, clearing, refreshVars, serverVars, historyVars>>

-----------------------------------------------------------------------------
(* The server.  A used token revokes the session. *)

Rotates(t) ==
  /\ t = current /\ ~ revoked
  /\ current < MaxTokens
  /\ current' = current + 1
  /\ UNCHANGED <<revoked, reused>>

Refuses(t) ==
  /\ t # current \/ revoked
  /\ revoked' = TRUE
  /\ reused' = (reused \/ (t # current /\ ~ lost))
  /\ UNCHANGED current

Serve(w) ==
  /\ phase[w] = "sent"
  /\ \/ /\ Rotates(carried[w])
        /\ carried' = [carried EXCEPT ![w] = current']
        /\ phase' = [phase EXCEPT ![w] = "granted"]
     \/ /\ Refuses(carried[w])
        /\ phase' = [phase EXCEPT ![w] = "denied"]
        /\ UNCHANGED carried
  /\ UNCHANGED <<stored, access, fresh, clearing, status, call, dead, late, historyVars>>

\* 403: the origin is not allowed.
Forbid(w) ==
  /\ phase[w] = "sent"
  /\ phase' = [phase EXCEPT ![w] = "denied"]
  /\ ended' = TRUE
  /\ UNCHANGED <<stored, access, fresh, clearing, status, carried, call, serverVars, lost>>

\* A request that was given up arrives.
ServeLate(t) ==
  /\ t \in late
  /\ Rotates(t) \/ Refuses(t)
  /\ late' = late \ {t}
  /\ UNCHANGED <<stored, access, fresh, clearing, status, refreshVars, call, dead, historyVars>>

\* Another device ends this session.
RemoteRevoke ==
  /\ ~ revoked
  /\ revoked' = TRUE
  /\ ended' = TRUE
  /\ UNCHANGED <<stored, access, fresh, clearing, status, refreshVars, call,
                 current, dead, late, reused, lost>>

\* By the clock of the server, with which that of the client need not agree.
AccessExpires(t) ==
  /\ t \in 1..current \ dead
  /\ dead' = dead \cup {t}
  /\ UNCHANGED <<stored, access, fresh, clearing, status, refreshVars, call,
                 current, revoked, late, reused, historyVars>>

-----------------------------------------------------------------------------

RefreshStep(w) ==
  \/ Present(w) \/ NothingStored(w) \/ ReadFails(w) \/ ReadBlocked(w)
  \/ Adopt(w) \/ Persist(w) \/ PersistFails(w) \/ PersistDropped(w)
  \/ Serve(w) \/ Unreached(w) \/ AnswerLost(w) \/ Rejected(w) \/ Forbid(w)

CallStep(c) ==
  \/ Check(c) \/ Accepted(c) \/ Unauthorized(c) \/ UnauthorizedAgain(c)
  \/ Unanswered(c) \/ Failed(c) \/ ClearStore(c)

Next ==
  \/ \E w \in Window :
       \/ RefreshStep(w) \/ AcquireLock(w) \/ Cleared(w)
       \/ Proactive(w) \/ SocketRevoked(w) \/ ClockPasses(w) \/ Close(w)
  \/ \E c \in Caller : CallStep(c) \/ Call(c, "api") \/ Call(c, "logout") \/ Launch(c)
  \/ \E t \in Token : ServeLate(t) \/ AccessExpires(t)
  \/ RemoteRevoke

Spec == Init /\ [][Next]_vars

(***************************************************************************)
(* Fairness.  Every fetch settles, with an answer or an error, and code    *)
(* that can run does.  Web Locks are granted in the order in which they    *)
(* were requested, so a window that waits is not overtaken for ever.       *)
(***************************************************************************)
Fairness ==
  /\ \A w \in Window : WF_vars(RefreshStep(w)) /\ SF_vars(AcquireLock(w))
  /\ \A c \in Caller : WF_vars(CallStep(c))

FairSpec == Spec /\ Fairness

-----------------------------------------------------------------------------
(* Properties *)

\* session.ts:10-17: the server sees a used refresh token only when an answer
\* was lost or a window died in a refresh, or the store failed: no order of windows, timers, 401s and sign-outs presents a token twice.
NoReuse == ~ reused

\* Unless an answer was lost, the token on disk can revive the session, or a
\* refresh is under way that will replace it: it is never behind the server.
Recoverable ==
  \/ lost \/ ended
  \/ stored = current
  \/ \E w \in Window : phase[w] \in {"granted", "persist"} /\ carried[w] = current

\* Network errors, 429 and 5xx never end a login (SESSIONS_S3_REALTIME.md:49):
\* the store is emptied only after a revocation, a 403, a sign-out or a loss.
LoginKept == (stored = 0 \/ clearing # {} \/ revoked) => lost \/ ended

\* Inductive strengthenings.  One window at a time is past the lock; until an
\* answer is lost, what it carries is what the server accepts, and the store is
\* behind only while a replacement is on its way.
Mutex == \A v, w \in Window : Refreshing(v) /\ Refreshing(w) => v = w

RotationInv ==
  ~ lost =>
    /\ late = {}
    /\ \A w \in Window : phase[w] \in {"sent", "granted", "persist"} => carried[w] = current
    /\ stored \in {0, current} \/ \E w \in Window : phase[w] \in {"granted", "persist"}

\* Who is about to end the login has a reason to.
CauseInv ==
  /\ \A w \in Window : phase[w] = "denied" => lost \/ ended
  /\ \A c \in Caller : call[c].job = "logout" \/ call[c].at = "clear" => ended

\* Every request, start and sign-out comes to an end: the lock, the refresh in
\* flight and its waiters never wait on each other.
Answered == \A c \in Caller : call[c].at # "idle" ~> call[c].at = "idle"

=============================================================================
