-------------------- MODULE ConversationMembershipProofs --------------------
(***************************************************************************)
(* What holds of ConversationMembership for every number of users,         *)
(* requests and sockets; and, in the second half, of Presence, the other   *)
(* state that the gateways' sockets share in Redis.                        *)
(***************************************************************************)
EXTENDS ConversationMembership, TLAPS

\* Presence with its own sessions, readers and variables.
CONSTANTS Session, SessionOf, Reader
VARIABLES online, sessions, keys, open, awake, job, presenceFaults

P == INSTANCE Presence WITH faults <- presenceFaults

RequestTypeOK ==
  /\ pc \in [Request -> {"idle", "load", "members", "ids", "warm", "authorise", "change",
                         "rewarm", "invalidate", "forget"}]
  /\ op \in [Request -> Op]
  /\ actor \in [Request -> User \cup {Nobody}]
  /\ target \in [Request -> User \cup {Nobody}]
  /\ loaded \in [Request -> SUBSET User]

\* A running request has an actor, and a change has someone it is about.
BusyRequest ==
  \A r \in Request : pc[r] # "idle" =>
    /\ actor[r] \in User
    /\ op[r] \in {"add", "remove"} => target[r] \in User

\* Only a change is past the warming of the cache.
ChangeRequest ==
  \A r \in Request : pc[r] \in {"authorise", "change", "rewarm", "invalidate", "forget"}
                       => op[r] \in {"add", "remove"}

RequestInv == RequestTypeOK /\ BusyRequest /\ ChangeRequest

TypeInv == TypeOK /\ RequestInv

\* Answering a request leaves a well-typed idle request.
LEMMA AnswerKeeps ==
  ASSUME NEW r \in Request, RequestInv, Answer(r) PROVE RequestInv'
BY DEF RequestInv, RequestTypeOK, BusyRequest, ChangeRequest, Answer, Goto, Op

\* A running request that goes on to another step stays well typed.
LEMMA GotoKeeps ==
  ASSUME NEW r \in Request, RequestInv, pc[r] # "idle",
         NEW s \in {"members", "ids", "warm"} \cup
                   IF op[r] \in {"add", "remove"}
                     THEN {"authorise", "change", "rewarm", "invalidate", "forget"} ELSE {},
         Goto(r, s), UNCHANGED <<op, actor, target, loaded>>
  PROVE  RequestInv'
BY DEF RequestInv, RequestTypeOK, BusyRequest, ChangeRequest, Goto, Op

\* The group starts with every variable of its type.
LEMMA TypeInit == Init => TypeInv
<1> SUFFICES ASSUME Init PROVE TypeInv
  OBVIOUS
<1>1. PICK others \in SUBSET User : participants = others \cup {Creator}
  BY DEF Init
<1>2. RequestInv
  BY DEF Init, RequestInv, RequestTypeOK, BusyRequest, ChangeRequest, Op
<1> QED BY <1>1, <1>2, CreatorAssumption DEF Init, TypeInv, TypeOK, Op

\* No step of a request, a socket or the caches leaves the types.
LEMMA TypeStep == TypeInv /\ [Next]_vars => TypeInv'
<1> SUFFICES ASSUME TypeInv, [Next]_vars PROVE TypeInv'
  OBVIOUS
<1> USE CreatorAssumption, OwnerAssumption, BoundAssumption
<1> USE DEF TypeInv, dbVars, cacheVars, socketVars
<1>1. CASE UNCHANGED vars
  BY <1>1 DEF TypeOK, RequestInv, RequestTypeOK, BusyRequest, ChangeRequest, vars, requestVars
<1>2. ASSUME NEW r \in Request, Load(r) PROVE TypeInv'
  <2>1. RequestInv'
    BY <1>2, GotoKeeps DEF Load
  <2> QED BY <1>2, <2>1 DEF Load, TypeOK, RequestInv, RequestTypeOK
<1>17. ASSUME NEW r \in Request, LoadMembers(r) PROVE TypeInv'
  <2>1. RequestInv'
    BY <1>17 DEF LoadMembers, TypeOK, RequestInv, RequestTypeOK, BusyRequest, ChangeRequest, Goto
  <2> QED BY <1>17, <2>1 DEF LoadMembers, TypeOK, RequestInv, RequestTypeOK
<1>3. ASSUME NEW r \in Request, LoadNothing(r) PROVE TypeInv'
  <2>1. RequestInv'
    BY <1>3, AnswerKeeps, GotoKeeps DEF LoadNothing
  <2> QED BY <1>3, <2>1 DEF LoadNothing, TypeOK, RequestInv, RequestTypeOK
<1>4. ASSUME NEW r \in Request, CacheIds(r) PROVE TypeInv'
  <2>1. RequestInv'
    BY <1>4, AnswerKeeps, GotoKeeps DEF CacheIds
  <2> QED BY <1>4, <2>1 DEF CacheIds, TypeOK, RequestInv, RequestTypeOK
<1>5. ASSUME NEW r \in Request, Warm(r) PROVE TypeInv'
  <2>1. RequestInv'
    BY <1>5, AnswerKeeps, GotoKeeps DEF Warm
  <2> QED BY <1>5, <2>1 DEF Warm, TypeOK, RequestInv, RequestTypeOK
<1>6. ASSUME NEW r \in Request, Authorise(r) PROVE TypeInv'
  <2>1. op[r] \in {"add", "remove"}
    BY <1>6 DEF Authorise, RequestInv, ChangeRequest
  <2>2. RequestInv'
    BY <1>6, <2>1, AnswerKeeps, GotoKeeps DEF Authorise
  <2> QED BY <1>6, <2>2 DEF Authorise, TypeOK, RequestInv, RequestTypeOK
<1>7. ASSUME NEW r \in Request, NothingToChange(r) PROVE TypeInv'
  <2>1. RequestInv'
    BY <1>7, AnswerKeeps DEF NothingToChange
  <2> QED BY <1>7, <2>1 DEF NothingToChange, TypeOK, RequestInv, RequestTypeOK
<1>8. ASSUME NEW r \in Request, CommitAdd(r) PROVE TypeInv'
  <2>1. target[r] \in User
    BY <1>8 DEF CommitAdd, RequestInv, BusyRequest
  <2>2. RequestInv'
    BY <1>8, GotoKeeps DEF CommitAdd
  <2> QED BY <1>8, <2>1, <2>2 DEF CommitAdd, TypeOK, RequestInv, RequestTypeOK
<1>9. ASSUME NEW r \in Request, CommitRemove(r) PROVE TypeInv'
  <2>1. RequestInv'
    BY <1>9, GotoKeeps DEF CommitRemove
  <2>2. participants' \subseteq User /\ admins' \subseteq User
    BY <1>9 DEF CommitRemove, TypeOK
  <2> QED BY <1>9, <2>1, <2>2 DEF CommitRemove, TypeOK, RequestInv, RequestTypeOK
<1>10. ASSUME NEW r \in Request, Rewarm(r) PROVE TypeInv'
  <2>1. op[r] \in {"add", "remove"}
    BY <1>10 DEF Rewarm, RequestInv, ChangeRequest
  <2>2. RequestInv'
    BY <1>10, <2>1, AnswerKeeps, GotoKeeps DEF Rewarm
  <2>3. cached' \subseteq User
    BY <1>10 DEF Rewarm, TypeOK
  <2> QED BY <1>10, <2>2, <2>3 DEF Rewarm, TypeOK, RequestInv, RequestTypeOK
<1>11. ASSUME NEW r \in Request, Invalidate(r) PROVE TypeInv'
  <2>1. op[r] \in {"add", "remove"}
    BY <1>11 DEF Invalidate, RequestInv, ChangeRequest
  <2>2. target[r] \in User /\ actor[r] \in User
    BY <1>11, <2>1 DEF Invalidate, RequestInv, BusyRequest
  <2>3. RequestInv'
    BY <1>11, <2>1, <2>2 DEF Invalidate, Goto, RequestInv, RequestTypeOK, BusyRequest, ChangeRequest
  <2> QED BY <1>11, <2>3 DEF Invalidate, TypeOK, RequestInv, RequestTypeOK
<1>12. ASSUME NEW r \in Request, RequestFails(r) PROVE TypeInv'
  <2>1. RequestInv'
    BY <1>12, AnswerKeeps DEF RequestFails
  <2> QED BY <1>12, <2>1 DEF RequestFails, TypeOK, RequestInv, RequestTypeOK
<1>18. ASSUME NEW r \in Request, NEW u \in User, Forget(r, u) PROVE TypeInv'
  <2>1. CASE Answer(r)
    BY <1>18, <2>1, AnswerKeeps DEF Forget, TypeOK, RequestInv, RequestTypeOK
  <2>2. CASE loaded' = [loaded EXCEPT ![r] = @ \ {u}] /\ UNCHANGED <<pc, op, actor, target>>
    <3>1. RequestInv'
      BY <2>2 DEF RequestInv, RequestTypeOK, BusyRequest, ChangeRequest
    <3> QED BY <1>18, <3>1 DEF Forget, TypeOK, RequestInv, RequestTypeOK
  <2> QED BY <1>18, <2>1, <2>2 DEF Forget
<1>13. ASSUME NEW r \in Request, NEW u \in User, NEW o \in {"get", "list"}, BeginRead(r, u, o)
       PROVE  TypeInv'
  <2>1. RequestInv'
    BY <1>13 DEF BeginRead, Goto, Op, RequestInv, RequestTypeOK, BusyRequest, ChangeRequest
  <2> QED BY <1>13, <2>1 DEF BeginRead, TypeOK, RequestInv, RequestTypeOK
<1>14. ASSUME NEW r \in Request, NEW u \in User, NEW v \in User, NEW o \in {"add", "remove"},
              BeginChange(r, u, v, o)
       PROVE  TypeInv'
  <2>1. RequestInv'
    BY <1>14 DEF BeginChange, Goto, Op, RequestInv, RequestTypeOK, BusyRequest, ChangeRequest
  <2> QED BY <1>14, <2>1 DEF BeginChange, TypeOK, RequestInv, RequestTypeOK
<1>15. CASE Expire \/ \E u \in User : ExpireListed(u)
  BY <1>15 DEF Expire, ExpireListed, TypeOK, RequestInv, RequestTypeOK, BusyRequest,
               ChangeRequest, requestVars
<1>16. ASSUME NEW s \in Socket,
              SocketStep(s) \/ Connect(s) \/ CheckJoin(s) \/ LeaveConversation(s) \/ Disconnect(s)
       PROVE  TypeInv'
  <2>1. RequestInv' /\ UNCHANGED <<participants, admins, cached, ever, changes, faults>>
    BY <1>16 DEF SocketStep, CacheRooms, JoinRooms, JoinChecked, Connect, CheckJoin,
                 LeaveConversation, Disconnect, RequestInv, RequestTypeOK, BusyRequest,
                 ChangeRequest, requestVars
  <2>2. listed' \in [User -> {"absent", "with", "without"}]
    BY <1>16 DEF SocketStep, CacheRooms, JoinRooms, JoinChecked, Connect, CheckJoin,
                 LeaveConversation, Disconnect, TypeOK
  <2>3. sock' \in [Socket -> {"offline", "caching", "joining", "on", "checked"}]
    BY <1>16 DEF SocketStep, CacheRooms, JoinRooms, JoinChecked, Connect, CheckJoin,
                 LeaveConversation, Disconnect, TypeOK
  <2>4. found' \in [Socket -> BOOLEAN]
    <3>1. CASE Connect(s)
      <4>1. found' = [found EXCEPT ![s] = listed[Owner[s]] = "with"]
             \/ found' = [found EXCEPT ![s] = Owner[s] \in participants]
        BY <3>1, Zenon DEF Connect
      <4>2. found \in [Socket -> BOOLEAN]
        BY DEF TypeOK
      <4>3. (listed[Owner[s]] = "with") \in BOOLEAN /\ (Owner[s] \in participants) \in BOOLEAN
        OBVIOUS
      <4> QED BY <4>1, <4>2, <4>3, Zenon
    <3>2. CASE ~ Connect(s)
      BY <1>16, <3>2 DEF SocketStep, CacheRooms, JoinRooms, JoinChecked, CheckJoin,
                         LeaveConversation, Disconnect, TypeOK
    <3> QED BY <3>1, <3>2
  <2>5. room' \subseteq Socket
    BY <1>16 DEF SocketStep, CacheRooms, JoinRooms, JoinChecked, Connect, CheckJoin,
                 LeaveConversation, Disconnect, TypeOK
  <2> QED BY <2>1, <2>2, <2>3, <2>4, <2>5 DEF TypeOK, RequestInv, RequestTypeOK
<1> QED
  BY <1>1, <1>2, <1>3, <1>4, <1>5, <1>6, <1>7, <1>8, <1>9, <1>10, <1>11, <1>12, <1>13,
     <1>14, <1>15, <1>16, <1>17, <1>18
  DEF Next, RequestStep

\* Every variable keeps its type.
THEOREM MembershipTypes == Spec => []TypeOK
<1>1. Spec => []TypeInv
  BY TypeInit, TypeStep, PTL DEF Spec
<1>2. TypeInv => TypeOK
  BY DEF TypeInv
<1> QED BY <1>1, <1>2, PTL

-----------------------------------------------------------------------------

\* The request and socket actions that read or write the trusted sets.
LEMMA TrustStep == TypeInv /\ TrustInv /\ [Next]_vars => TrustInv'
<1> SUFFICES ASSUME TypeInv, TrustInv, [Next]_vars PROVE TrustInv'
  OBVIOUS
<1> USE OwnerAssumption
<1> USE DEF TypeInv, TypeOK, RequestInv, RequestTypeOK, TrustInv, NoStranger, dbVars,
            cacheVars, socketVars
<1>1. CASE UNCHANGED vars
  BY <1>1 DEF vars, requestVars
<1>2. ASSUME NEW r \in Request, Load(r) \/ LoadMembers(r) PROVE TrustInv'
  BY <1>2 DEF Load, LoadMembers, Goto
<1>3. ASSUME NEW r \in Request, LoadNothing(r) \/ Authorise(r) \/ NothingToChange(r)
      PROVE  TrustInv'
  BY <1>3 DEF LoadNothing, Authorise, NothingToChange, Answer, Goto
<1>4. ASSUME NEW r \in Request, CacheIds(r) PROVE TrustInv'
  <2>1. \A u \in User : listed'[u] = "with" => u \in ever
    BY <1>4 DEF CacheIds
  <2>2. \A q \in Request :
          /\ pc'[q] \in {"idle", "load", "members"} => loaded'[q] = {}
          /\ pc'[q] # "forget" => loaded'[q] \subseteq ever
          /\ pc'[q] = "members" \/ (pc'[q] = "ids" /\ loaded'[q] # {}) => actor'[q] \in ever
    BY <1>4 DEF CacheIds, Answer, Goto
  <2> QED BY <1>4, <2>1, <2>2 DEF CacheIds
<1>5. ASSUME NEW r \in Request, Warm(r) \/ Rewarm(r) \/ Invalidate(r) PROVE TrustInv'
  BY <1>5 DEF Warm, Rewarm, Invalidate, Answer, Goto
<1>6. ASSUME NEW r \in Request, CommitAdd(r) PROVE TrustInv'
  BY <1>6 DEF CommitAdd, Goto
<1>7. ASSUME NEW r \in Request, CommitRemove(r) PROVE TrustInv'
  BY <1>7 DEF CommitRemove, Goto
<1>8. ASSUME NEW r \in Request, RequestFails(r) \/ \E u \in User : Forget(r, u) PROVE TrustInv'
  <2>1. \A q \in Request :
          /\ pc'[q] \in {"idle", "load", "members"} => loaded'[q] = {}
          /\ pc'[q] # "forget" => loaded'[q] \subseteq ever
          /\ pc'[q] = "members" \/ (pc'[q] = "ids" /\ loaded'[q] # {}) => actor'[q] \in ever
    BY <1>8 DEF Forget, RequestFails, Answer, Goto
  <2>2. \A u \in User : listed'[u] = "with" => u \in ever
    BY <1>8 DEF Forget, RequestFails
  <2> QED BY <1>8, <2>1, <2>2 DEF Forget, RequestFails
<1>9. ASSUME NEW r \in Request, NEW u \in User, NEW v \in User, NEW o \in Op,
             BeginRead(r, u, o) \/ BeginChange(r, u, v, o)
      PROVE  TrustInv'
  BY <1>9 DEF BeginRead, BeginChange, Goto
<1>10. CASE Expire \/ \E u \in User : ExpireListed(u)
  BY <1>10 DEF Expire, ExpireListed, requestVars
<1>11. ASSUME NEW s \in Socket, Connect(s) PROVE TrustInv'
  <2>1. found'[s] => Owner[s] \in ever
    BY <1>11 DEF Connect
  <2>2. \A t \in Socket \ {s} : found'[t] = found[t] /\ sock'[t] = sock[t]
    BY <1>11 DEF Connect
  <2>3. sock'[s] # "checked"
    BY <1>11 DEF Connect
  <2> QED BY <1>11, <2>1, <2>2, <2>3 DEF Connect, requestVars
<1>12. ASSUME NEW s \in Socket, CacheRooms(s) PROVE TrustInv'
  BY <1>12 DEF CacheRooms, requestVars
<1>13. ASSUME NEW s \in Socket, JoinRooms(s) PROVE TrustInv'
  BY <1>13 DEF JoinRooms, requestVars
<1>14. ASSUME NEW s \in Socket, CheckJoin(s) PROVE TrustInv'
  BY <1>14 DEF CheckJoin, MemberCheck, requestVars
<1>15. ASSUME NEW s \in Socket, JoinChecked(s) \/ LeaveConversation(s) \/ Disconnect(s)
       PROVE  TrustInv'
  BY <1>15 DEF JoinChecked, LeaveConversation, Disconnect, requestVars
<1> QED
  BY <1>1, <1>2, <1>3, <1>4, <1>5, <1>6, <1>7, <1>8, <1>9, <1>10, <1>11, <1>12, <1>13,
     <1>14, <1>15
  DEF Next, RequestStep, SocketStep, Op

\* No stranger gets into the caches or the room (assert_member, handle_connection).
THEOREM TrustCorrect == Spec => []NoStranger
<1>1. Init => TrustInv
  BY OwnerAssumption DEF Init, TrustInv, NoStranger
<1>2. Spec => [](TypeInv /\ TrustInv)
  BY <1>1, TypeInit, TypeStep, TrustStep, PTL DEF Spec
<1>3. TrustInv => NoStranger
  BY DEF TrustInv
<1> QED BY <1>2, <1>3, PTL

-----------------------------------------------------------------------------

\* A change that may commit was authorised: its actor was the only admin, and
\* is not the one it removes.
LEMMA AdminStep == TypeInv /\ AdminInv /\ [Next]_vars => AdminInv'
<1> SUFFICES ASSUME TypeInv, AdminInv, [Next]_vars PROVE AdminInv'
  OBVIOUS
<1> USE DEF TypeInv, RequestInv, RequestTypeOK, AdminInv, dbVars
<1>1. CASE UNCHANGED vars
  BY <1>1 DEF vars, requestVars
<1>2. ASSUME NEW r \in Request, Load(r) \/ LoadMembers(r) \/ LoadNothing(r) \/ CacheIds(r) \/ Warm(r)
      PROVE  AdminInv'
  BY <1>2 DEF Load, LoadMembers, LoadNothing, CacheIds, Warm, Answer, Goto
<1>3. ASSUME NEW r \in Request, Authorise(r) PROVE AdminInv'
  BY <1>3 DEF Authorise, Answer, Goto
<1>4. ASSUME NEW r \in Request, CommitAdd(r) PROVE AdminInv'
  BY <1>4 DEF CommitAdd, Goto
<1>5. ASSUME NEW r \in Request, CommitRemove(r) PROVE AdminInv'
  <2>1. target[r] # Creator
    BY <1>5 DEF CommitRemove
  <2>2. admins \ {target[r]} = {Creator}
    BY <2>1
  <2>3. admins' = {Creator} /\ Creator \in participants'
    BY <1>5, <2>1, <2>2 DEF CommitRemove
  <2> QED BY <1>5, <2>3 DEF CommitRemove, Goto
<1>6. ASSUME NEW r \in Request,
             \/ NothingToChange(r) \/ Rewarm(r) \/ Invalidate(r) \/ RequestFails(r)
             \/ \E u \in User : Forget(r, u)
      PROVE  AdminInv'
  BY <1>6 DEF NothingToChange, Rewarm, Invalidate, Forget, RequestFails, Answer, Goto
<1>7. ASSUME NEW r \in Request, NEW u \in User, NEW v \in User, NEW o \in Op,
             BeginRead(r, u, o) \/ BeginChange(r, u, v, o)
      PROVE  AdminInv'
  BY <1>7 DEF BeginRead, BeginChange, Goto
<1>8. CASE Expire \/ \E u \in User : ExpireListed(u)
  BY <1>8 DEF Expire, ExpireListed, requestVars
<1>9. ASSUME NEW s \in Socket,
             SocketStep(s) \/ Connect(s) \/ CheckJoin(s) \/ LeaveConversation(s) \/ Disconnect(s)
      PROVE  AdminInv'
  BY <1>9 DEF SocketStep, CacheRooms, JoinRooms, JoinChecked, Connect, CheckJoin,
              LeaveConversation, Disconnect, requestVars
<1> QED
  BY <1>1, <1>2, <1>3, <1>4, <1>5, <1>6, <1>7, <1>8, <1>9 DEF Next, RequestStep, Op

\* The creator stays the group's admin: the promotion in remove_member never runs.
THEOREM AdminCorrect == Spec => []AdminStays
<1>1. Init => AdminInv
  BY DEF Init, AdminInv
<1>2. Spec => [](TypeInv /\ AdminInv)
  BY <1>1, TypeInit, TypeStep, AdminStep, PTL DEF Spec
<1>3. AdminInv => AdminStays
  BY DEF AdminInv, AdminStays
<1> QED BY <1>2, <1>3, PTL

-----------------------------------------------------------------------------
(* Presence: every job a process can be left with is one of those its      *)
(* steps know.                                                             *)

Task == {"none", "connect", "list", "serve", "leave", "requery", "gone", "cleanup", "ask"}
Stage == {"start", "read", "members", "exists", "prune", "set", "reread", "tell"}

LEMMA JobFields ==
  ASSUME NEW j \in P!Job
  PROVE  j.task \in Task /\ j.step \in Stage /\ j.seen \in BOOLEAN /\ j.found \subseteq Session
         /\ j.alive \in BOOLEAN
BY DEF P!Job, Task, Stage

LEMMA BeginJob ==
  ASSUME NEW task \in Task, NEW step \in Stage PROVE P!Begin(task, step) \in P!Job
BY DEF P!Begin, P!Job, Task, Stage

LEMMA CountedJob ==
  ASSUME NEW j \in P!Job PROVE P!Counted(j) \in P!Job
<1>1. P!Begin(j.task, "set") \in P!Job /\ P!Begin("requery", "read") \in P!Job
  BY JobFields, BeginJob DEF Task, Stage
<1>2. [P!Begin(j.task, "tell") EXCEPT !.seen = j.seen] \in P!Job
  BY JobFields DEF P!Begin, P!Job, Task
<1> QED BY <1>1, <1>2 DEF P!Counted

LEMMA NextIsJob ==
  ASSUME NEW p \in P!Process, NEW task \in Task PROVE P!NextJob(p, task) \subseteq P!Job
<1>1. /\ P!Begin("list", "read") \in P!Job /\ P!Begin("serve", "start") \in P!Job
      /\ P!Begin("gone", "start") \in P!Job /\ P!Begin("none", "start") \in P!Job
  BY BeginJob DEF Task, Stage
<1> QED BY <1>1 DEF P!NextJob

\* A step changes the job of one process.
LEMMA JobReplaced ==
  ASSUME job \in [P!Process -> P!Job], NEW p \in P!Process, NEW j \in P!Job,
         job' = [job EXCEPT ![p] = j]
  PROVE  job' \in [P!Process -> P!Job]
OBVIOUS

-----------------------------------------------------------------------------

LEMMA ClientKeepsTypes ==
  ASSUME P!TypeOK, NEW s \in Socket, P!Connect(s) \/ P!Drop(s) \/ P!Sleep(s) \/ P!Wake(s)
  PROVE  P!TypeOK'
<1>1. s \in P!Process
  BY DEF P!Process
<1>2. CASE P!Connect(s)
  <2>1. P!Begin("connect", "start") \in P!Job
    BY BeginJob DEF Task, Stage
  <2> QED BY <1>1, <1>2, <2>1, JobReplaced DEF P!Connect, P!TypeOK, P!redis
<1>3. CASE P!Drop(s)
  BY <1>3 DEF P!Drop, P!TypeOK, P!redis
<1>4. CASE P!Sleep(s)
  BY <1>4, BoundAssumption DEF P!Sleep, P!TypeOK, P!redis
<1>5. CASE P!Wake(s)
  BY <1>5 DEF P!Wake, P!TypeOK, P!redis
<1> QED BY <1>2, <1>3, <1>4, <1>5

LEMMA HandlerKeepsTypes ==
  ASSUME SessionOf \in [Socket -> Session], P!TypeOK, NEW s \in Socket,
         P!UserOnline(s) \/ P!TouchSession(s) \/ P!UserOffline(s)
  PROVE  P!TypeOK'
<1>1. s \in P!Process /\ SessionOf[s] \in Session
  BY DEF P!Process
<1>2. CASE P!UserOnline(s)
  <2>1. [job[s] EXCEPT !.step = "read"] \in P!Job
    BY <1>1 DEF P!TypeOK, P!Job
  <2>2. job' = [job EXCEPT ![s] = [job[s] EXCEPT !.step = "read"]]
    BY <1>2 DEF P!UserOnline
  <2> QED BY <1>1, <1>2, <2>1, <2>2, JobReplaced DEF P!UserOnline, P!TypeOK, P!clients
<1>3. CASE P!TouchSession(s)
  BY <1>1, <1>3 DEF P!TouchSession, P!TypeOK, P!clients
<1>4. CASE P!UserOffline(s)
  <2>1. P!Begin("leave", "members") \in P!Job
    BY BeginJob DEF Task, Stage
  <2> QED BY <1>1, <1>4, <2>1, JobReplaced DEF P!UserOffline, P!TypeOK, P!clients
<1> QED BY <1>2, <1>3, <1>4

LEMMA ReaderKeepsTypes ==
  ASSUME P!TypeOK, NEW r \in Reader, P!StartCleanup(r) \/ P!GetUserPresence(r) PROVE P!TypeOK'
<1>1. r \in P!Process /\ P!Begin("cleanup", "read") \in P!Job /\ P!Begin("ask", "read") \in P!Job
  BY BeginJob DEF P!Process, Task, Stage
<1>2. CASE P!StartCleanup(r)
  BY <1>1, <1>2, JobReplaced DEF P!StartCleanup, P!TypeOK, P!redis, P!clients
<1>3. CASE P!GetUserPresence(r)
  BY <1>1, <1>3, JobReplaced DEF P!GetUserPresence, P!TypeOK, P!redis, P!clients
<1> QED BY <1>2, <1>3

LEMMA ReadKeepsTypes == ASSUME P!TypeOK, NEW p \in P!Process, P!Read(p) PROVE P!TypeOK'
<1>1. job[p] \in P!Job /\ job[p].task \in Task
  BY JobFields DEF P!TypeOK
<1>2. job' \in [P!Process -> P!Job]
  <2>1. CASE job[p].task \in P!Sweep /\ ~online
    <3>1. PICK j \in P!NextJob(p, job[p].task) : job' = [job EXCEPT ![p] = j]
      BY <2>1 DEF P!Read
    <3> QED BY <1>1, <3>1, NextIsJob, JobReplaced DEF P!TypeOK
  <2>2. CASE ~ (job[p].task \in P!Sweep /\ ~online)
    <3>1. job' = [job EXCEPT ![p] = [job[p] EXCEPT !.seen = online, !.step = "members"]]
      BY <2>2 DEF P!Read
    <3>2. [job[p] EXCEPT !.seen = online, !.step = "members"] \in P!Job
      BY <1>1 DEF P!TypeOK, P!Job
    <3> QED BY <3>1, <3>2, JobReplaced DEF P!TypeOK
  <2> QED BY <2>1, <2>2
<1> QED BY <1>2 DEF P!Read, P!TypeOK, P!redis, P!clients

LEMMA CountKeepsTypes ==
  ASSUME P!TypeOK, NEW p \in P!Process, P!Members(p) \/ P!Exists(p) \/ P!Prune(p) PROVE P!TypeOK'
<1>1. job[p] \in P!Job
  BY DEF P!TypeOK
<1>2. CASE P!Members(p)
  <2>1. [job[p] EXCEPT !.found = sessions, !.step = "exists"] \in P!Job
    BY <1>1 DEF P!TypeOK, P!Job
  <2>2. job' \in [P!Process -> P!Job]
    BY <1>1, <1>2, <2>1, CountedJob DEF P!Members, P!TypeOK
  <2> QED BY <1>2, <2>2 DEF P!Members, P!TypeOK, P!redis, P!clients
<1>3. CASE P!Exists(p)
  <2> DEFINE stale == {x \in job[p].found : keys[x] = "absent"}
             j == [job[p] EXCEPT !.alive = stale # job[p].found, !.found = stale, !.step = "prune"]
  <2>1. j \in P!Job
    BY <1>1 DEF P!Job
  <2>2. job' = [job EXCEPT ![p] = IF stale = {} THEN P!Counted(j) ELSE j]
    BY <1>3 DEF P!Exists
  <2> HIDE DEF j, stale
  <2>3. job' \in [P!Process -> P!Job]
    BY <2>1, <2>2, CountedJob DEF P!TypeOK
  <2> QED BY <1>3, <2>3 DEF P!Exists, P!TypeOK, P!redis, P!clients
<1>4. CASE P!Prune(p)
  <2>1. job' \in [P!Process -> P!Job]
    BY <1>1, <1>4, CountedJob DEF P!Prune, P!TypeOK
  <2> QED BY <1>4, <2>1 DEF P!Prune, P!TypeOK, P!clients
<1> QED BY <1>2, <1>3, <1>4

LEMMA DecideKeepsTypes ==
  ASSUME P!TypeOK, NEW p \in P!Process, P!SetUserOffline(p) \/ P!Reread(p) \/ P!Tell(p) PROVE P!TypeOK'
<1>1. job[p] \in P!Job /\ job[p].task \in Task
  BY JobFields DEF P!TypeOK
<1>2. CASE P!SetUserOffline(p)
  <2> DEFINE j == [job[p] EXCEPT !.step = IF job[p].task \in P!Query THEN "reread" ELSE "tell"]
  <2>1. j \in P!Job
    BY <1>1 DEF P!Job
  <2>2. job' = [job EXCEPT ![p] = j]
    BY <1>2 DEF P!SetUserOffline
  <2> HIDE DEF j
  <2>3. job' \in [P!Process -> P!Job]
    BY <2>1, <2>2, JobReplaced DEF P!TypeOK
  <2> QED BY <1>2, <2>3 DEF P!SetUserOffline, P!TypeOK, P!clients
<1>3. CASE P!Reread(p)
  <2>1. [job[p] EXCEPT !.seen = online, !.step = "tell"] \in P!Job
    BY <1>1 DEF P!TypeOK, P!Job
  <2>2. job' = [job EXCEPT ![p] = [job[p] EXCEPT !.seen = online, !.step = "tell"]]
    BY <1>3 DEF P!Reread
  <2>3. job' \in [P!Process -> P!Job]
    BY <2>1, <2>2, JobReplaced DEF P!TypeOK
  <2> QED BY <1>3, <2>3 DEF P!Reread, P!TypeOK, P!redis, P!clients
<1>4. CASE P!Tell(p)
  <2>1. PICK j \in P!NextJob(p, job[p].task) : job' = [job EXCEPT ![p] = j]
    BY <1>4 DEF P!Tell
  <2>2. job' \in [P!Process -> P!Job]
    BY <1>1, <2>1, NextIsJob, JobReplaced DEF P!TypeOK
  <2> QED BY <1>4, <2>2 DEF P!Tell, P!TypeOK, P!redis, P!clients
<1> QED BY <1>2, <1>3, <1>4

LEMMA FaultKeepsTypes == ASSUME P!TypeOK, NEW p \in P!Process, P!Fault(p) PROVE P!TypeOK'
<1>1. P!Begin(IF p \in Socket THEN "gone" ELSE "none", "start") \in P!Job
  BY BeginJob DEF Task, Stage
<1>2. job' \in [P!Process -> P!Job]
  BY <1>1, JobReplaced DEF P!Fault, P!TypeOK
<1>3. presenceFaults' \in 0 .. MaxFaults
  BY BoundAssumption DEF P!Fault, P!TypeOK
<1> QED BY <1>2, <1>3 DEF P!Fault, P!TypeOK, P!redis

-----------------------------------------------------------------------------

LEMMA PresenceStep ==
  ASSUME SessionOf \in [Socket -> Session], P!TypeOK, [P!Next]_(P!vars)
  PROVE  P!TypeOK'
<1>1. CASE UNCHANGED P!vars
  BY <1>1 DEF P!vars, P!TypeOK
<1>2. ASSUME NEW x \in Session, P!Expire(x) PROVE P!TypeOK'
  BY <1>2 DEF P!Expire, P!TypeOK, P!clients
<1>3. ASSUME NEW p \in P!Process, P!Step(p) \/ P!Fault(p) PROVE P!TypeOK'
  BY <1>3, ReadKeepsTypes, CountKeepsTypes, DecideKeepsTypes, FaultKeepsTypes DEF P!Step
<1> QED BY <1>1, <1>2, <1>3, ClientKeepsTypes, HandlerKeepsTypes, ReaderKeepsTypes DEF P!Next

\* The steps of the tasks fit together, for any number of sockets, sessions and
\* maintenance loops: no process is left at a step its task does not know, and
\* only the client of an open connection is awake.
THEOREM PresenceTypes ==
  ASSUME SessionOf \in [Socket -> Session]
  PROVE  P!Spec => []P!TypeOK
<1>1. P!Begin("none", "start") \in P!Job
  BY BeginJob DEF Task, Stage
<1>2. ASSUME P!Init PROVE P!TypeOK
  <2>1. presenceFaults \in 0 .. MaxFaults
    BY <1>2, BoundAssumption DEF P!Init
  <2>2. job \in [P!Process -> P!Job] /\ keys \in [Session -> {"absent", "expiring", "persistent"}]
    BY <1>1, <1>2 DEF P!Init
  <2> QED BY <1>2, <2>1, <2>2 DEF P!Init, P!TypeOK
<1>3. P!TypeOK /\ [P!Next]_(P!vars) => P!TypeOK'
  BY PresenceStep
<1> QED BY <1>2, <1>3, PTL DEF P!Spec

=============================================================================
