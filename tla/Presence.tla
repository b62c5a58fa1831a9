------------------------------ MODULE Presence ------------------------------
(***************************************************************************)
(* The presence of one user: what PresenceService keeps in Redis while the *)
(* user's sockets come and go on any number of gateway processes.          *)
(*                                                                         *)
(* Every process (the handler of a socket, the maintenance loop of a       *)
(* gateway, a request of somebody else) works in tasks whose steps are the *)
(* round trips to Redis: a pipeline is one atomic step, and between two    *)
(* steps every other process may run.                                      *)
(***************************************************************************)
EXTENDS Naturals

CONSTANTS
  Socket,     \* connections of the user, each opened at most once
  Session,    \* values of the session_id parameter: one for each device
  SessionOf,  \* the session a connection names
  Reader,     \* passes of maintenance loops, and REST requests, that may run at once
  MaxFaults   \* bound: Redis errors, gateway crashes and suspended clients

ASSUME PresenceAssumption ==
  /\ SessionOf \in [Socket -> Session]
  /\ MaxFaults \in Nat

Process == Socket \cup Reader

\* What a process does next, and what it still needs of what it has read:
\* whether the user is online, the session ids it found (in the end those to be
\* pruned), and whether the key of one of them exists.
Job == [task: {"none", "connect", "list", "serve", "leave", "requery", "gone", "cleanup", "ask"},
        step: {"start", "read", "members", "exists", "prune", "set", "reread", "tell"},
        seen: BOOLEAN, found: SUBSET Session, alive: BOOLEAN]

Begin(task, step) == [task |-> task, step |-> step, seen |-> FALSE, found |-> {}, alive |-> FALSE]

VARIABLES
  online,    \* the status of user:{id}:presence, and membership of presence:online_users
  sessions,  \* user:{id}:sessions
  keys,      \* session:{id}:presence, a key that expires unless it is touched
  open,      \* the connections whose client end is open
  awake,     \* those of them whose client sends heartbeats
  job,       \* what each process is doing
  faults

vars == <<online, sessions, keys, open, awake, job, faults>>

TypeOK ==
  /\ online \in BOOLEAN
  /\ sessions \subseteq Session
  /\ keys \in [Session -> {"absent", "expiring", "persistent"}]
  /\ open \subseteq Socket
  /\ awake \subseteq open
  /\ job \in [Process -> Job]
  /\ faults \in 0 .. MaxFaults

Init ==
  /\ online = FALSE
  /\ sessions = {}
  /\ keys = [x \in Session |-> "absent"]
  /\ open = {}
  /\ awake = {}
  /\ job = [p \in Process |-> Begin("none", "start")]
  /\ faults = 0

redis == <<online, sessions, keys>>
clients == <<open, awake>>

Serving(s) == job[s].task = "serve"

-----------------------------------------------------------------------------
(* The client's end of a connection, and time. *)

\* The socket is accepted; the handler has still to register the session.
Connect(s) ==
  /\ job[s].task = "none"
  /\ open' = open \cup {s}
  /\ awake' = awake \cup {s}
  /\ job' = [job EXCEPT ![s] = Begin("connect", "start")]
  /\ UNCHANGED <<redis, faults>>

\* The client closes the socket, or loses the network; the server has yet to notice.
Drop(s) ==
  /\ s \in open
  /\ open' = open \ {s}
  /\ awake' = awake \ {s}
  /\ UNCHANGED <<redis, job, faults>>

\* A suspended client keeps its socket and sends nothing; it may come back.
Sleep(s) ==
  /\ faults < MaxFaults
  /\ faults' = faults + 1
  /\ s \in awake
  /\ awake' = awake \ {s}
  /\ UNCHANGED <<redis, open, job>>

Wake(s) ==
  /\ s \in open \ awake
  /\ awake' = awake \cup {s}
  /\ UNCHANGED <<redis, open, job, faults>>

\* A key lives presence_session_ttl_seconds (120 s): several heartbeats (25 s),
\* and longer than a handler takes from user_online to its first heartbeat.
Expire(x) ==
  /\ keys[x] = "expiring"
  /\ \A s \in Socket : SessionOf[s] = x => s \notin awake /\ job[s].task \notin {"connect", "list"}
  /\ keys' = [keys EXCEPT ![x] = "absent"]
  /\ UNCHANGED <<online, sessions, clients, job, faults>>

-----------------------------------------------------------------------------
(* The first pipeline of a task. *)

\* user_online
UserOnline(s) ==
  /\ job[s].task = "connect" /\ job[s].step = "start"
  /\ online' = TRUE
  /\ keys' = [keys EXCEPT ![SessionOf[s]] = "expiring"]
  /\ sessions' = sessions \cup {SessionOf[s]}
  /\ job' = [job EXCEPT ![s].step = "read"]
  /\ UNCHANGED <<clients, faults>>

TouchSessionNotListed(s) ==
  /\ s \in awake
  /\ Serving(s)
  /\ online' = TRUE
  /\ keys' = [keys EXCEPT ![SessionOf[s]] = "expiring"]
  /\ UNCHANGED <<sessions, clients, job, faults>>

TouchSessionWithoutExpire(s) ==
  /\ s \in awake
  /\ Serving(s)
  /\ online' = TRUE
  /\ keys' = [keys EXCEPT ![SessionOf[s]] = IF @ = "absent" THEN "persistent" ELSE @]
  /\ sessions' = sessions \cup {SessionOf[s]}
  /\ UNCHANGED <<clients, job, faults>>

\* touch_session, for every frame received: at least the heartbeat.
TouchSession(s) ==
  /\ s \in awake
  /\ Serving(s)
  /\ online' = TRUE
  /\ keys' = [keys EXCEPT ![SessionOf[s]] = "expiring"]
  /\ sessions' = sessions \cup {SessionOf[s]}
  /\ UNCHANGED <<clients, job, faults>>

\* user_offline, when the handler notices that the connection has ended.
UserOffline(s) ==
  /\ Serving(s)
  /\ s \notin open
  /\ keys' = [keys EXCEPT ![SessionOf[s]] = "absent"]
  /\ sessions' = sessions \ {SessionOf[s]}
  /\ job' = [job EXCEPT ![s] = Begin("leave", "members")]
  /\ UNCHANGED <<online, clients, faults>>

\* cleanup_stale_online_users, every presence_cleanup_interval_seconds.
StartCleanup(r) ==
  /\ job[r].task = "none"
  /\ job' = [job EXCEPT ![r] = Begin("cleanup", "read")]
  /\ UNCHANGED <<redis, clients, faults>>

\* GET /presence/users/{user_id}
GetUserPresence(r) ==
  /\ job[r].task = "none"
  /\ job' = [job EXCEPT ![r] = Begin("ask", "read")]
  /\ UNCHANGED <<redis, clients, faults>>

-----------------------------------------------------------------------------
(* The steps the tasks share. *)

\* Tasks that answer with the user's presence (get_user_presence), and tasks
\* that go through the set of online users.
Query == {"connect", "requery", "ask"}
Sweep == {"list", "cleanup"}

\* The task that follows one whose answer has been used.  A handler whose
\* client left before "connected" was sent either goes on to receive_json or
\* fails outside the try block, and then cleans nothing up.
NextJob(p, task) ==
  CASE task = "connect" -> {Begin("list", "read")}
    [] task = "list" -> {Begin("serve", "start")} \cup (IF p \in open THEN {} ELSE {Begin("gone", "start")})
    [] task \in {"leave", "requery"} -> {Begin("gone", "start")}
    [] OTHER -> {Begin("none", "start")}

\* The status, or the set of online users, is read; a sweep that does not find
\* the user is done with it.
Read(p) ==
  /\ job[p].step = "read"
  /\ IF job[p].task \in Sweep /\ ~online
       THEN \E j \in NextJob(p, job[p].task) : job' = [job EXCEPT ![p] = j]
       ELSE job' = [job EXCEPT ![p].seen = online, ![p].step = "members"]
  /\ UNCHANGED <<redis, clients, faults>>

\* What a process does once it has counted the sessions alive.
Counted(j) ==
  IF ~j.alive /\ (j.task \notin Query \/ j.seen) THEN Begin(j.task, "set")
  ELSE IF j.task = "leave" THEN Begin("requery", "read")
  ELSE [Begin(j.task, "tell") EXCEPT !.seen = j.seen]

\* _count_active_sessions: the ids, then whether their keys exist, then the
\* removal of the ids without a key.
Members(p) ==
  /\ job[p].step = "members"
  /\ job' = [job EXCEPT ![p] = IF sessions = {} THEN Counted(@)
                               ELSE [@ EXCEPT !.found = sessions, !.step = "exists"]]
  /\ UNCHANGED <<redis, clients, faults>>

Exists(p) ==
  /\ job[p].step = "exists"
  /\ LET stale == {x \in job[p].found : keys[x] = "absent"}
         j == [job[p] EXCEPT !.alive = stale # job[p].found, !.found = stale, !.step = "prune"]
     IN job' = [job EXCEPT ![p] = IF stale = {} THEN Counted(j) ELSE j]
  /\ UNCHANGED <<redis, clients, faults>>

Prune(p) ==
  /\ job[p].step = "prune"
  /\ sessions' = sessions \ job[p].found
  /\ job' = [job EXCEPT ![p] = Counted(@)]
  /\ UNCHANGED <<online, keys, clients, faults>>

\* _set_user_offline; get_user_presence then reads the status again.
SetUserOffline(p) ==
  /\ job[p].step = "set"
  /\ online' = FALSE
  /\ job' = [job EXCEPT ![p].step = IF job[p].task \in Query THEN "reread" ELSE "tell"]
  /\ UNCHANGED <<sessions, keys, clients, faults>>

Reread(p) ==
  /\ job[p].step = "reread"
  /\ job' = [job EXCEPT ![p].seen = online, ![p].step = "tell"]
  /\ UNCHANGED <<redis, clients, faults>>

\* The event published of the answer, which is left out: user_online by a new
\* connection, user_offline by the end of one and by the maintenance loop.
Tell(p) ==
  /\ job[p].step = "tell"
  /\ \E j \in NextJob(p, job[p].task) : job' = [job EXCEPT ![p] = j]
  /\ UNCHANGED <<redis, clients, faults>>

\* An exception from Redis, or the process dies.  Before the try block of
\* handle_connection and in its finally block nothing is cleaned up; a crash
\* does the same to a handler that serves.  The maintenance loop swallows it.
Fault(p) ==
  /\ faults < MaxFaults
  /\ faults' = faults + 1
  /\ job[p].task \notin {"none", "gone"}
  /\ job' = [job EXCEPT ![p] = Begin(IF p \in Socket THEN "gone" ELSE "none", "start")]
  /\ open' = open \ {p}
  /\ awake' = awake \ {p}
  /\ UNCHANGED redis

Step(p) ==
  \/ Read(p)
  \/ Members(p)
  \/ Exists(p)
  \/ Prune(p)
  \/ SetUserOffline(p)
  \/ Reread(p)
  \/ Tell(p)

Next ==
  \/ \E s \in Socket : Connect(s) \/ Drop(s) \/ Sleep(s) \/ Wake(s)
  \/ \E s \in Socket : UserOnline(s) \/ TouchSession(s) \/ UserOffline(s)
  \/ \E x \in Session : Expire(x)
  \/ \E r \in Reader : StartCleanup(r) \/ GetUserPresence(r)
  \/ \E p \in Process : Step(p) \/ Fault(p)

\* A handler, a loop and a request go on; a client that is awake sends its
\* heartbeats; a key expires; the end of a connection is noticed; a maintenance
\* pass comes again and again, with requests in between.  Nobody has to connect,
\* to fall asleep or to ask.
Fairness ==
  /\ \A s \in Socket : WF_vars(UserOnline(s)) /\ WF_vars(TouchSession(s)) /\ WF_vars(UserOffline(s))
  /\ \A x \in Session : WF_vars(Expire(x))
  /\ \A r \in Reader : SF_vars(StartCleanup(r))
  /\ \A p \in Process : WF_vars(Step(p))

Spec == Init /\ [][Next]_vars /\ Fairness

-----------------------------------------------------------------------------
\* A user with a connection that stays open and sends its heartbeats is in the
\* end online for good, whatever the ends of other connections, of the same
\* session too, and the counts of other processes had decided: touch_session
\* puts back the status, the key and the id of the session.
PresenceHeals ==
  \A s \in Socket : (<>[](Serving(s) /\ s \in awake)) => <>[]online

\* A user without connections is in the end offline for good, also when no
\* handler could clean up: the keys of the sessions expire and the maintenance
\* loop of some gateway counts them.
GoneHeals == (<>[](open = {})) => <>[]~online

=============================================================================
