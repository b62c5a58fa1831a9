----------------------- MODULE ConversationMembership -----------------------
(***************************************************************************)
(* The participants of one group conversation, the two Redis caches kept   *)
(* of them, and the sockets of its room.                                   *)
(*                                                                         *)
(* ConversationService reads and changes conversation_participants in a    *)
(* REST request; it caches the participants of the conversation and the    *)
(* conversations of a user, deletes both entries after a change, and the   *)
(* gateway trusts what it finds there.  Every await is a step, so requests *)
(* of several API processes and the gateway interleave between them.       *)
(***************************************************************************)
EXTENDS Naturals, FiniteSets

CONSTANTS
  User,
  Creator,     \* who created the group, its first admin
  Request,     \* REST requests that may run at once
  Socket,      \* WebSocket connections
  Owner,       \* Owner[s]: the user of socket s
  Nobody,      \* stands for no user
  MaxChanges,  \* bound: additions and removals begun
  MaxFaults    \* bound: requests that fail half way

ASSUME CreatorAssumption == Creator \in User
ASSUME OwnerAssumption == Owner \in [Socket -> User]
ASSUME NobodyAssumption == Nobody \notin User
ASSUME BoundAssumption == MaxChanges \in Nat /\ MaxFaults \in Nat

VARIABLES
  participants,  \* conversation_participants of the group
  admins,        \* those with the admin role
  cached,        \* conversation:{id}:participants; Redis has no empty set, so {} is no key
  listed,        \* user:{u}:conversation_ids: "absent", or "with" or "without" this group
  pc,            \* pc[r]: where request r is
  op,            \* op[r]: the service method it runs
  actor, target, \* actor[r], target[r]: who asks, and about whom
  loaded,        \* loaded[r]: the participants r's session has loaded; once the entry
                 \* is invalidated, the users whose lists are still to be
  sock,          \* sock[s]: life of socket s in its gateway process
  found,         \* found[s]: whether the room list of s names this group
  room,          \* sockets in the room, over all gateway processes
  ever,          \* history: users who have ever been participants
  changes, faults

requestVars == <<pc, op, actor, target, loaded>>
cacheVars == <<cached, listed>>
socketVars == <<sock, found, room>>
dbVars == <<participants, admins, ever>>
vars == <<dbVars, cacheVars, requestVars, socketVars, changes, faults>>

Op == {"get", "list", "add", "remove"}

TypeOK ==
  /\ participants \subseteq User
  /\ admins \subseteq User
  /\ cached \subseteq User
  /\ listed \in [User -> {"absent", "with", "without"}]
  /\ pc \in [Request -> {"idle", "load", "members", "ids", "warm", "authorise", "change",
                         "rewarm", "invalidate", "forget"}]
  /\ op \in [Request -> Op]
  /\ actor \in [Request -> User \cup {Nobody}]
  /\ target \in [Request -> User \cup {Nobody}]
  /\ loaded \in [Request -> SUBSET User]
  /\ sock \in [Socket -> {"offline", "caching", "joining", "on", "checked"}]
  /\ found \in [Socket -> BOOLEAN]
  /\ room \subseteq Socket
  /\ ever \subseteq User
  /\ changes \in Nat
  /\ faults \in Nat

\* create_conversation has stored the group with any set of participants.
Init ==
  /\ \E others \in SUBSET User : participants = others \cup {Creator}
  /\ admins = {Creator}
  /\ cached = {}
  /\ listed = [u \in User |-> "absent"]
  /\ pc = [r \in Request |-> "idle"]
  /\ op = [r \in Request |-> "get"]
  /\ actor = [r \in Request |-> Nobody]
  /\ target = [r \in Request |-> Nobody]
  /\ loaded = [r \in Request |-> {}]
  /\ sock = [s \in Socket |-> "offline"]
  /\ found = [s \in Socket |-> FALSE]
  /\ room = {}
  /\ ever = participants
  /\ changes = 0
  /\ faults = 0

-----------------------------------------------------------------------------
(* REST requests: ConversationService. *)

Goto(r, s) == pc' = [pc EXCEPT ![r] = s]

\* Request r is answered, whatever with, and its session is closed.
Answer(r) ==
  /\ Goto(r, "idle")
  /\ op' = [op EXCEPT ![r] = "get"]
  /\ actor' = [actor EXCEPT ![r] = Nobody]
  /\ target' = [target EXCEPT ![r] = Nobody]
  /\ loaded' = [loaded EXCEPT ![r] = {}]

\* GET /conversations/{id}, or the first page of GET /conversations when the
\* user's conversation ids are not cached (a cached first page writes nothing).
BeginRead(r, u, o) ==
  /\ pc[r] = "idle"
  /\ o = "list" => listed[u] = "absent"
  /\ op' = [op EXCEPT ![r] = o]
  /\ actor' = [actor EXCEPT ![r] = u]
  /\ Goto(r, "load")
  /\ UNCHANGED <<dbVars, cacheVars, target, loaded, socketVars, changes, faults>>

\* POST and DELETE /conversations/{id}/members.
BeginChange(r, u, v, o) ==
  /\ pc[r] = "idle"
  /\ changes < MaxChanges
  /\ op' = [op EXCEPT ![r] = o]
  /\ actor' = [actor EXCEPT ![r] = u]
  /\ target' = [target EXCEPT ![r] = v]
  /\ Goto(r, "load")
  /\ changes' = changes + 1
  /\ UNCHANGED <<dbVars, cacheVars, loaded, socketVars, faults>>

\* get_conversation_or_404, and the query of list_conversations: the group, for a
\* participant ...
Load(r) ==
  /\ pc[r] = "load"
  /\ actor[r] \in participants
  /\ Goto(r, "members")
  /\ UNCHANGED <<dbVars, cacheVars, op, actor, target, loaded, socketVars, changes, faults>>

\* ... and, by a statement of its own (selectinload), those who are in it then.
LoadMembers(r) ==
  /\ pc[r] = "members"
  /\ loaded' = [loaded EXCEPT ![r] = participants]
  /\ Goto(r, IF op[r] = "list" THEN "ids" ELSE "warm")
  /\ UNCHANGED <<dbVars, cacheVars, op, actor, target, socketVars, changes, faults>>

\* 404, or a page without the group: a list is cut at the limit of its request,
\* and what is cached is the page.
LoadNothing(r) ==
  /\ pc[r] = "load"
  /\ actor[r] \notin participants \/ op[r] = "list"
  /\ IF op[r] = "list"
       THEN Goto(r, "ids") /\ UNCHANGED <<op, actor, target, loaded>>
       ELSE Answer(r)
  /\ UNCHANGED <<dbVars, cacheVars, socketVars, changes, faults>>

\* cache_user_conversation_ids.  A user has other conversations as well; the group is
\* on the page if its participants, who always are some, have been loaded.
CacheIds(r) ==
  /\ pc[r] = "ids"
  /\ listed' = [listed EXCEPT ![actor[r]] =
                  IF loaded[r] # {} THEN "with" ELSE "without"]
  /\ IF loaded[r] = {}
       THEN Answer(r)
       ELSE Goto(r, "warm") /\ UNCHANGED <<op, actor, target, loaded>>
  /\ UNCHANGED <<dbVars, cached, socketVars, changes, faults>>

\* A bug: cache_conversation_meta adds to the set without deleting it first.
WarmAdds(r) ==
  /\ pc[r] = "warm"
  /\ cached' = cached \cup loaded[r]
  /\ IF op[r] \in {"add", "remove"}
       THEN Goto(r, "authorise") /\ UNCHANGED <<op, actor, target, loaded>>
       ELSE Answer(r)
  /\ UNCHANGED <<dbVars, listed, socketVars, changes, faults>>

\* cache_conversation_meta replaces the entry by what the session has loaded.
Warm(r) ==
  /\ pc[r] = "warm"
  /\ cached' = loaded[r]
  /\ IF op[r] \in {"add", "remove"}
       THEN Goto(r, "authorise") /\ UNCHANGED <<op, actor, target, loaded>>
       ELSE Answer(r)
  /\ UNCHANGED <<dbVars, listed, socketVars, changes, faults>>

\* A bug: an admin may remove themselves.
AuthoriseSelf(r) ==
  /\ pc[r] = "authorise"
  /\ IF actor[r] \in admins
       THEN Goto(r, "change") /\ UNCHANGED <<op, actor, target, loaded>>
       ELSE Answer(r)
  /\ UNCHANGED <<dbVars, cacheVars, socketVars, changes, faults>>

\* _assert_admin, and the refusal to remove oneself.
Authorise(r) ==
  /\ pc[r] = "authorise"
  /\ IF actor[r] \in admins /\ ~ (op[r] = "remove" /\ actor[r] = target[r])
       THEN Goto(r, "change") /\ UNCHANGED <<op, actor, target, loaded>>
       ELSE Answer(r)
  /\ UNCHANGED <<dbVars, cacheVars, socketVars, changes, faults>>

\* add_members, from the query for the existing members to the commit.
CommitAdd(r) ==
  /\ pc[r] = "change"
  /\ op[r] = "add"
  /\ target[r] \notin participants
  /\ participants' = participants \cup {target[r]}
  /\ ever' = ever \cup {target[r]}
  /\ Goto(r, "rewarm")
  /\ UNCHANGED <<admins, cacheVars, op, actor, target, loaded, socketVars, changes, faults>>

\* remove_member, from the query for the participant to the commit.  The oldest
\* remaining participant becomes admin when the last admin has been removed.
CommitRemove(r) ==
  /\ pc[r] = "change"
  /\ op[r] = "remove"
  /\ target[r] \in participants
  /\ participants' = participants \ {target[r]}
  /\ LET remaining == admins \ {target[r]} IN
       admins' \in IF remaining # {} \/ participants' = {}
                     THEN {remaining}
                     ELSE {{u} : u \in participants'}
  /\ Goto(r, "rewarm")
  /\ UNCHANGED <<ever, cacheVars, op, actor, target, loaded, socketVars, changes, faults>>

\* Already a member, or 404 Member not found.
NothingToChange(r) ==
  /\ pc[r] = "change"
  /\ (op[r] = "add") = (target[r] \in participants)
  /\ Answer(r)
  /\ UNCHANGED <<dbVars, cacheVars, socketVars, changes, faults>>

\* get_conversation_or_404 after the commit.  The session keeps the collection
\* it loaded first, so the entry is the one from before the change.
Rewarm(r) ==
  /\ pc[r] = "rewarm"
  /\ IF actor[r] \in participants
       THEN /\ cached' = loaded[r]
            /\ Goto(r, "invalidate")
            /\ UNCHANGED <<op, actor, target, loaded>>
       ELSE Answer(r) /\ UNCHANGED cached
  /\ UNCHANGED <<dbVars, listed, socketVars, changes, faults>>

\* invalidate_conversation.  The lists of all members are invalidated next when one
\* is added, those of the actor and the removed user when one is removed.
Invalidate(r) ==
  /\ pc[r] = "invalidate"
  /\ cached' = {}
  /\ loaded' = [loaded EXCEPT ![r] = {target[r]} \cup IF op[r] = "add" THEN @ ELSE {actor[r]}]
  /\ Goto(r, "forget")
  /\ UNCHANGED <<dbVars, listed, op, actor, target, socketVars, changes, faults>>

\* invalidate_user_conversations, of the members in any order, of the actor first.
Forget(r, u) ==
  /\ pc[r] = "forget"
  /\ u \in loaded[r]
  /\ op[r] = "remove" /\ actor[r] \in loaded[r] => u = actor[r]
  /\ listed' = [listed EXCEPT ![u] = "absent"]
  /\ IF loaded[r] = {u} THEN Answer(r)
     ELSE loaded' = [loaded EXCEPT ![r] = @ \ {u}] /\ UNCHANGED <<pc, op, actor, target>>
  /\ UNCHANGED <<dbVars, cached, socketVars, changes, faults>>

\* Redis or the API process fails under the request; what is committed stays.
RequestFails(r) ==
  /\ faults < MaxFaults
  /\ pc[r] # "idle"
  /\ Answer(r)
  /\ faults' = faults + 1
  /\ UNCHANGED <<dbVars, cacheVars, socketVars, changes>>

\* A bug: cache_user_conversation_ids sets no time to live.
ExpireListedNever(u) == FALSE /\ listed[u] # "absent" /\ UNCHANGED vars

\* The entries live for conversation_cache_ttl_seconds.
Expire ==
  /\ cached # {}
  /\ cached' = {}
  /\ UNCHANGED <<dbVars, listed, requestVars, socketVars, changes, faults>>

ExpireListed(u) ==
  /\ listed[u] # "absent"
  /\ listed' = [listed EXCEPT ![u] = "absent"]
  /\ UNCHANGED <<dbVars, cached, requestVars, socketVars, changes, faults>>

-----------------------------------------------------------------------------
(* The gateway: handle_connection, join_conversation, leave_conversation. *)

\* get_user_conversation_ids: the cached ids, or a query that is cached next.
\* Whoever has missed the entry queries, though another may have filled it since.
Connect(s) ==
  /\ sock[s] = "offline"
  /\ LET u == Owner[s] IN
       \/ /\ listed[u] # "absent"
          /\ found' = [found EXCEPT ![s] = listed[u] = "with"]
          /\ sock' = [sock EXCEPT ![s] = "joining"]
       \/ /\ found' = [found EXCEPT ![s] = u \in participants]
          /\ sock' = [sock EXCEPT ![s] = "caching"]
  /\ UNCHANGED <<dbVars, cacheVars, requestVars, room, changes, faults>>

CacheRooms(s) ==
  /\ sock[s] = "caching"
  /\ listed' = [listed EXCEPT ![Owner[s]] = IF found[s] THEN "with" ELSE "without"]
  /\ sock' = [sock EXCEPT ![s] = "joining"]
  /\ UNCHANGED <<dbVars, cached, requestVars, found, room, changes, faults>>

JoinRooms(s) ==
  /\ sock[s] = "joining"
  /\ room' = IF found[s] THEN room \cup {s} ELSE room
  /\ sock' = [sock EXCEPT ![s] = "on"]
  /\ found' = [found EXCEPT ![s] = FALSE]
  /\ UNCHANGED <<dbVars, cacheVars, requestVars, changes, faults>>

\* A bug: the cache is asked whether the conversation is known, not the user.
MemberCheckAny(s) == cached # {} \/ Owner[s] \in participants

\* ConversationService.assert_member: cached participants are trusted.
MemberCheck(s) == Owner[s] \in cached \/ Owner[s] \in participants

\* join_conversation: the check, then the room, with an await between them.
CheckJoin(s) ==
  /\ sock[s] = "on"
  /\ MemberCheck(s)
  /\ sock' = [sock EXCEPT ![s] = "checked"]
  /\ UNCHANGED <<dbVars, cacheVars, requestVars, found, room, changes, faults>>

\* A bug: the room keeps the user in place of the socket.
JoinCheckedUser(s) ==
  /\ sock[s] = "checked"
  /\ room' = room \cup {Owner[s]}
  /\ sock' = [sock EXCEPT ![s] = "on"]
  /\ UNCHANGED <<dbVars, cacheVars, requestVars, found, changes, faults>>

JoinChecked(s) ==
  /\ sock[s] = "checked"
  /\ room' = room \cup {s}
  /\ sock' = [sock EXCEPT ![s] = "on"]
  /\ UNCHANGED <<dbVars, cacheVars, requestVars, found, changes, faults>>

LeaveConversation(s) ==
  /\ sock[s] = "on"
  /\ s \in room
  /\ room' = room \ {s}
  /\ UNCHANGED <<dbVars, cacheVars, requestVars, sock, found, changes, faults>>

Disconnect(s) ==
  /\ sock[s] \in {"on", "checked"}
  /\ room' = room \ {s}
  /\ sock' = [sock EXCEPT ![s] = "offline"]
  /\ UNCHANGED <<dbVars, cacheVars, requestVars, found, changes, faults>>

-----------------------------------------------------------------------------

RequestStep(r) ==
  \/ Load(r) \/ LoadMembers(r) \/ LoadNothing(r) \/ CacheIds(r) \/ Warm(r) \/ Authorise(r)
  \/ CommitAdd(r) \/ CommitRemove(r) \/ NothingToChange(r)
  \/ Rewarm(r) \/ Invalidate(r) \/ \E u \in User : Forget(r, u)

SocketStep(s) == CacheRooms(s) \/ JoinRooms(s) \/ JoinChecked(s)

Next ==
  \/ \E r \in Request :
       \/ RequestStep(r) \/ RequestFails(r)
       \/ \E u \in User : BeginRead(r, u, "get") \/ BeginRead(r, u, "list")
       \/ \E u, v \in User : BeginChange(r, u, v, "add") \/ BeginChange(r, u, v, "remove")
  \/ Expire
  \/ \E u \in User : ExpireListed(u)
  \/ \E s \in Socket :
       \/ SocketStep(s) \/ Connect(s) \/ CheckJoin(s)
       \/ LeaveConversation(s) \/ Disconnect(s)

Spec == Init /\ [][Next]_vars

(***************************************************************************)
(* Fairness.  A request that runs goes on, and so does a connection being  *)
(* set up.  The participants entry expires unless a request rewrites it,   *)
(* which restarts its time to live; the list of a user likewise.  Nothing  *)
(* is owed by clients.                                                     *)
(***************************************************************************)
Fairness ==
  /\ \A r \in Request : WF_vars(RequestStep(r))
  /\ \A s \in Socket : WF_vars(SocketStep(s))
  /\ WF_vars(Expire \/ \E r \in Request : Warm(r))
  /\ \A u \in User : WF_vars(ExpireListed(u))

FairSpec == Spec /\ Fairness

-----------------------------------------------------------------------------
(* Properties *)

\* Whom the caches and the room trust has been a participant at some time: no
\* interleaving of loads, warmings and joins lets a stranger in (assert_member,
\* get_user_conversation_ids, join_conversation).
NoStranger ==
  /\ cached \subseteq ever
  /\ \A u \in User : listed[u] = "with" => u \in ever
  /\ \A s \in room : Owner[s] \in ever

\* The group keeps an admin who is a participant, and it is its creator: only
\* an admin removes, and nobody removes themselves (remove_member).
AdminStays == Creator \in admins /\ admins \subseteq participants

\* Inductive strengthenings: what NoStranger and AdminStays need of the sessions
\* and sockets that carry an earlier reading.
TrustInv ==
  /\ NoStranger
  /\ participants \subseteq ever
  /\ \A r \in Request :
       /\ pc[r] \in {"idle", "load", "members"} => loaded[r] = {}
       /\ pc[r] # "forget" => loaded[r] \subseteq ever
       /\ pc[r] = "members" \/ (pc[r] = "ids" /\ loaded[r] # {}) => actor[r] \in ever
  /\ \A s \in Socket : found[s] \/ sock[s] = "checked" => Owner[s] \in ever

AdminInv ==
  /\ admins = {Creator}
  /\ Creator \in participants
  /\ \A r \in Request : pc[r] = "change" /\ op[r] = "remove" => target[r] # Creator

\* Once the membership has stopped changing, the cached participants come to
\* agree with it, and no list names the group to somebody who has left, although
\* requests that loaded the old participants write them late and a change may
\* fail before its invalidation.  (A list may lack the group of a member.)
Coherent ==
  /\ cached \in {{}, participants}
  /\ \A u \in User : listed[u] = "with" => u \in participants

CacheHeals == <>[]Coherent

\* From then on nobody who is not a participant enters the room.
JoinsHeal == <>[][\A s \in room' \ room : Owner[s] \in participants]_vars

\* SESSIONS_S3_REALTIME.md:126: "Removed members receive `conversation_removed`
\* and stop receiving subsequent room broadcasts."  remove_member tells the
\* gateway nothing, so the socket stays in the room.
RemovedStopReceiving ==
  \A s \in room :
    \/ Owner[s] \in participants
    \/ \E r \in Request : op[r] = "remove" /\ target[r] = Owner[s] /\ pc[r] # "idle"

=============================================================================
