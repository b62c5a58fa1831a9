-------------------------- MODULE DeliveryReceipts --------------------------
(***************************************************************************)
(* The delivery state of one message: the receipt of every user, the       *)
(* message's own aggregate state, and the transactions that move them,     *)
(* MessageService.mark_delivered and mark_read.  They run for the          *)
(* acknowledgements the worker takes from the message queue, many at once  *)
(* in one worker and in several, and mark_read also for a REST request.    *)
(*                                                                         *)
(* A transaction is five steps, at the statements where another one can    *)
(* come between (PostgreSQL at READ COMMITTED, SQLAlchemy with autoflush): *)
(*   load    the message with its receipts, into the session's identity    *)
(*           map, which later entity queries do not refresh;               *)
(*   insert  mark_read's query of the delivery receipt writes the new read *)
(*           receipt, which keeps a second one waiting;                    *)
(*   flush   the query of _recalculate_message_delivery_state writes the   *)
(*           delivery receipt, which locks it until the transaction ends;  *)
(*   compute a fresh column query reads the states of all receipts;        *)
(*   commit  the message row is written, and only the columns whose value  *)
(*           differs from the loaded one.                                  *)
(* Then the broadcasts and the acknowledgement of the queue's delivery,    *)
(* each of which can fail on its own, as can the steps of the except       *)
(* branch: a failure there leaves the delivery with the worker until the   *)
(* broker takes it back.                                                   *)
(***************************************************************************)
EXTENDS Naturals, FiniteSets

CONSTANTS
  User,        \* users who may acknowledge
  Recipient,   \* participants other than the sender when the message was stored
  Handler,     \* transactions that may be open at once
  NoJob,       \* what a handler without an acknowledgement holds
  RetryLimit,  \* settings.worker_retry_limit
  MaxAcks,     \* bound: copies of acknowledgements that reach the queue, and REST calls
  MaxFaults    \* bound: exceptions other than a violated constraint, and crashes

ASSUME RecipientAssumption == Recipient \subseteq User
ASSUME LimitAssumption ==
  /\ RetryLimit \in Nat
  /\ MaxAcks \in Nat
  /\ MaxFaults \in Nat

\* A queued delivery_ack or read_ack with its retry_count, or a REST read.
Job == [kind: {"delivered", "read"}, user: User, via: {"queue", "rest"}, retry: 0 .. RetryLimit]

ASSUME NoJobAssumption == NoJob \notin Job

State == {"persisted", "delivered", "read"}

VARIABLES
  member,    \* conversation_participants
  receipt,   \* message_delivery_receipts: user to state, "none" without a row
  readBy,    \* message_read_receipts: the users with a row
  agg,       \* messages.delivery_state
  queue,     \* acknowledgements in the message queue, a bag
  pc,        \* pc[h]: where h's transaction is
  job,       \* job[h]: the acknowledgement h works on
  seen,      \* seen[h]: the session's copy: [receipt, readRow, agg]
  write,     \* write[h]: the receipt state h has flushed, "none" when it wrote none
  result,    \* result[h]: the aggregate in h's session, published after the commit
  shown,     \* the last message_delivery_state broadcast
  wasDelivered,  \* history: users whose receipt a committed delivery marked
  acks, faults   \* counters for the bounds

txVars == <<pc, job, seen, write, result>>
dbVars == <<receipt, readBy, agg, wasDelivered>>
vars == <<member, dbVars, queue, txVars, shown, acks, faults>>

NotLoaded == [receipt |-> "none", readRow |-> FALSE, agg |-> "persisted"]

TypeOK ==
  /\ member \subseteq User
  /\ receipt \in [User -> State \cup {"none"}]
  /\ readBy \subseteq User
  /\ agg \in State
  /\ queue \in [Job -> Nat]
  /\ pc \in [Handler -> {"idle", "load", "insert", "flush", "compute", "commit", "publish",
                         "done", "error", "ack", "stuck"}]
  /\ job \in [Handler -> Job \cup {NoJob}]
  /\ seen \in [Handler -> [receipt: State \cup {"none"}, readRow: BOOLEAN, agg: State]]
  /\ write \in [Handler -> State \cup {"none"}]
  /\ result \in [Handler -> State]
  /\ shown \in State
  /\ wasDelivered \subseteq User
  /\ acks \in Nat
  /\ faults \in Nat

\* The message has just been stored (persist_ingress_message).
Init ==
  /\ member = User
  /\ receipt = [u \in User |-> IF u \in Recipient THEN "persisted" ELSE "none"]
  /\ readBy = {}
  /\ agg = "persisted"
  /\ queue = [j \in Job |-> 0]
  /\ pc = [h \in Handler |-> "idle"]
  /\ job = [h \in Handler |-> NoJob]
  /\ seen = [h \in Handler |-> NotLoaded]
  /\ write = [h \in Handler |-> "none"]
  /\ result = [h \in Handler |-> "persisted"]
  /\ shown = "persisted"
  /\ wasDelivered = {}
  /\ acks = 0
  /\ faults = 0

-----------------------------------------------------------------------------

Goto(h, s) == pc' = [pc EXCEPT ![h] = s]

\* _handle_delivery_ack and _handle_read_ack check nothing, and every worker
\* replica puts a copy in the queue.
Acknowledge(u, k) ==
  /\ acks < MaxAcks
  /\ queue' = [queue EXCEPT ![[kind |-> k, user |-> u, via |-> "queue", retry |-> 0]] = @ + 1]
  /\ acks' = acks + 1
  /\ UNCHANGED <<member, dbVars, txVars, shown, faults>>

\* ConversationService.remove_member: the receipts of the user stay.
RemoveMember(u) ==
  /\ u \in member
  /\ member' = member \ {u}
  /\ UNCHANGED <<dbVars, queue, txVars, shown, acks, faults>>

\* A bug: the queue hands out what it does not hold.
TakeUnready(h, j) ==
  /\ pc[h] = "idle"
  /\ queue' = [queue EXCEPT ![j] = @ - 1]
  /\ job' = [job EXCEPT ![h] = j]
  /\ Goto(h, "load")
  /\ UNCHANGED <<member, dbVars, seen, write, result, shown, acks, faults>>

\* The worker takes an acknowledgement from the queue.
Take(h, j) ==
  /\ pc[h] = "idle"
  /\ queue[j] > 0
  /\ queue' = [queue EXCEPT ![j] = @ - 1]
  /\ job' = [job EXCEPT ![h] = j]
  /\ Goto(h, "load")
  /\ UNCHANGED <<member, dbVars, seen, write, result, shown, acks, faults>>

\* POST /messages/{id}/read runs mark_read in the request's own session.
RestRead(h, u) ==
  /\ acks < MaxAcks
  /\ pc[h] = "idle"
  /\ job' = [job EXCEPT ![h] = [kind |-> "read", user |-> u, via |-> "rest",
                                retry |-> RetryLimit]]
  /\ Goto(h, "load")
  /\ acks' = acks + 1
  /\ UNCHANGED <<member, dbVars, queue, seen, write, result, shown, faults>>

\* The message and the user's receipts as the session will see them from now
\* on.  A receipt already "read" ends mark_delivered here, without a commit.
Load(h) ==
  /\ pc[h] = "load"
  /\ LET u == job[h].user
         kind == job[h].kind IN
       /\ u \in member
       /\ seen' = [seen EXCEPT ![h] = [receipt |-> receipt[u], readRow |-> u \in readBy,
                                       agg |-> agg]]
       /\ result' = [result EXCEPT ![h] = agg]
       /\ Goto(h, IF kind = "delivered" /\ receipt[u] = "read" THEN "publish"
                  ELSE IF kind = "read" /\ u \notin readBy THEN "insert"
                  ELSE "flush")
  /\ UNCHANGED <<member, dbVars, queue, job, write, shown, acks, faults>>

\* assert_member raises HTTPException 403.
RejectNonMember(h) ==
  /\ pc[h] = "load"
  /\ job[h].user \notin member
  /\ Goto(h, "error")
  /\ UNCHANGED <<member, dbVars, queue, job, seen, write, result, shown, acks, faults>>

\* Another open transaction has inserted the read receipt of h's user.
InsertLocked(h) ==
  \E g \in Handler \ {h} : /\ pc[g] \in {"flush", "compute", "commit"}
                          /\ job[g].user = job[h].user
                          /\ job[g].kind = "read" /\ ~ seen[g].readRow

Insert(h) ==
  /\ pc[h] = "insert"
  /\ ~ InsertLocked(h)
  /\ job[h].user \notin readBy
  /\ Goto(h, "flush")
  /\ UNCHANGED <<member, dbVars, queue, job, seen, write, result, shown, acks, faults>>

\* mark_read creates no delivery receipt, and otherwise h writes the row of its
\* user, if only to touch updated_at.
Touches(h) == job[h].kind = "delivered" \/ seen[h].receipt # "none"

\* Another open transaction has written the delivery receipt h will write.
Locked(h) ==
  /\ Touches(h)
  /\ \E g \in Handler \ {h} : /\ pc[g] \in {"compute", "commit"}
                             /\ job[g].user = job[h].user /\ Touches(g)

\* The INSERT of a delivery receipt that was committed since h loaded.
Conflict(h) ==
  job[h].kind = "delivered" /\ seen[h].receipt = "none" /\ receipt[job[h].user] # "none"

\* The state h sends: nothing when it equals the loaded one.
Written(h) == IF ~ Touches(h) \/ job[h].kind = seen[h].receipt THEN "none" ELSE job[h].kind

Flush(h) ==
  /\ pc[h] = "flush"
  /\ ~ Locked(h)
  /\ ~ Conflict(h)
  /\ write' = [write EXCEPT ![h] = Written(h)]
  /\ Goto(h, "compute")
  /\ UNCHANGED <<member, dbVars, queue, job, seen, result, shown, acks, faults>>

\* IntegrityError from the UNIQUE (message_id, user_id) constraint of a table.
InsertConflict(h) ==
  /\ \/ pc[h] = "insert" /\ ~ InsertLocked(h) /\ job[h].user \in readBy
     \/ pc[h] = "flush" /\ ~ Locked(h) /\ Conflict(h)
  /\ Goto(h, "error")
  /\ UNCHANGED <<member, dbVars, queue, job, seen, write, result, shown, acks, faults>>

\* The receipt states h's column query returns: the committed ones and its own.
Visible(h) ==
  [u \in User |-> IF u = job[h].user /\ write[h] # "none" THEN write[h] ELSE receipt[u]]

\* A bug: any() for all().
AggregateAny(r) ==
  LET states == {r[u] : u \in User} IN
  IF "read" \in states THEN "read"
  ELSE IF "delivered" \in states THEN "delivered"
  ELSE "persisted"

\* A bug: "delivered" only while no recipient has read.
AggregateUnmixed(r) ==
  LET states == {r[u] : u \in User} \ {"none"} IN
  IF states = {"read"} THEN "read"
  ELSE IF states = {"delivered"} THEN "delivered"
  ELSE "persisted"

\* _recalculate_message_delivery_state over a function from users to states.
Aggregate(r) ==
  LET states == {r[u] : u \in User} \ {"none"} IN
  IF states = {"read"} THEN "read"
  ELSE IF states # {} /\ states \subseteq {"delivered", "read"} THEN "delivered"
  ELSE "persisted"

Compute(h) ==
  /\ pc[h] = "compute"
  /\ result' = [result EXCEPT ![h] = Aggregate(Visible(h))]
  /\ Goto(h, "commit")
  /\ UNCHANGED <<member, dbVars, queue, job, seen, write, shown, acks, faults>>

Commit(h) ==
  /\ pc[h] = "commit"
  /\ LET u == job[h].user IN
       /\ receipt' = Visible(h)
       /\ readBy' = IF job[h].kind = "read" THEN readBy \cup {u} ELSE readBy
       /\ wasDelivered' = IF write[h] # "none" THEN wasDelivered \cup {u} ELSE wasDelivered
       /\ agg' = IF result[h] = seen[h].agg THEN agg ELSE result[h]
  /\ Goto(h, "publish")
  /\ UNCHANGED <<member, queue, job, seen, write, result, shown, acks, faults>>

\* _process_delivery_ack_event, _process_read_ack_event and the REST route
\* broadcast the session's message.
Publish(h) ==
  /\ pc[h] = "publish"
  /\ shown' = result[h]
  /\ Goto(h, "done")
  /\ UNCHANGED <<member, dbVars, queue, job, seen, write, result, acks, faults>>

Finish(h) ==
  /\ Goto(h, "idle")
  /\ job' = [job EXCEPT ![h] = NoJob]
  /\ seen' = [seen EXCEPT ![h] = NotLoaded]
  /\ write' = [write EXCEPT ![h] = "none"]
  /\ result' = [result EXCEPT ![h] = "persisted"]

\* message.ack(), after the work and after the except branch; the REST response.
Ack(h) ==
  /\ pc[h] \in {"done", "ack"}
  /\ Finish(h)
  /\ UNCHANGED <<member, dbVars, queue, shown, acks, faults>>

\* PostgreSQL, Redis or the broker fails under the handler: what it has not
\* committed is rolled back.
HandlerFault(h) ==
  /\ faults < MaxFaults
  /\ pc[h] \in {"load", "insert", "flush", "compute", "commit", "publish", "done"}
  /\ Goto(h, "error")
  /\ faults' = faults + 1
  /\ UNCHANGED <<member, dbVars, queue, job, seen, write, result, shown, acks>>

\* A bug: a failed acknowledgement is dropped, not retried.
HandleErrorDrop(h) ==
  /\ pc[h] = "error"
  /\ Goto(h, "ack")
  /\ UNCHANGED <<member, dbVars, queue, job, seen, write, result, shown, acks, faults>>

\* The except branch of _consume_message_queue: a copy with retry_count + 1
\* while the limit allows one, nothing past it.  A REST call just fails.
HandleError(h) ==
  /\ pc[h] = "error"
  /\ queue' = IF job[h].retry < RetryLimit
                THEN [queue EXCEPT ![[job[h] EXCEPT !.retry = @ + 1]] = @ + 1]
                ELSE queue
  /\ Goto(h, "ack")
  /\ UNCHANGED <<member, dbVars, job, seen, write, result, shown, acks, faults>>

\* The except branch raises, in the copy, the message_retrying or message_failed
\* event or the acknowledgement, and the delivery stays with the worker.
HandlerStuck(h) ==
  /\ faults < MaxFaults
  /\ pc[h] \in {"error", "ack"}
  /\ job[h].via = "queue"
  /\ Goto(h, "stuck")
  /\ faults' = faults + 1
  /\ UNCHANGED <<member, dbVars, queue, job, seen, write, result, shown, acks>>

\* The worker dies and the broker takes the delivery back; a REST call is lost.
Crash(h) ==
  /\ faults < MaxFaults
  /\ pc[h] # "idle"
  /\ queue' = IF job[h].via = "queue" THEN [queue EXCEPT ![job[h]] = @ + 1] ELSE queue
  /\ Finish(h)
  /\ faults' = faults + 1
  /\ UNCHANGED <<member, dbVars, shown, acks>>

HandlerStep(h) ==
  \/ Load(h) \/ RejectNonMember(h) \/ Insert(h) \/ Flush(h) \/ InsertConflict(h)
  \/ Compute(h) \/ Commit(h) \/ Publish(h) \/ HandleError(h) \/ Ack(h)

Next ==
  \/ \E u \in User : RemoveMember(u)
  \/ \E u \in User : \E k \in {"delivered", "read"} : Acknowledge(u, k)
  \/ \E h \in Handler : \E j \in Job : Take(h, j)
  \/ \E h \in Handler : \E u \in User : RestRead(h, u)
  \/ \E h \in Handler : HandlerStep(h) \/ HandlerFault(h) \/ HandlerStuck(h) \/ Crash(h)

Spec == Init /\ [][Next]_vars

\* The event loop runs every handler that can run, the broker goes on handing
\* out deliveries, and PostgreSQL wakes the transactions that wait for a lock.
Fairness ==
  /\ WF_vars(\E h \in Handler : \E j \in Job : Take(h, j))
  /\ \A h \in Handler : WF_vars(HandlerStep(h))

FairSpec == Spec /\ Fairness

-----------------------------------------------------------------------------
(* Properties *)

\* The sender's ticks are never ahead of the recipients: a message, stored or
\* broadcast, is "read" only when every recipient has read it at some time, and
\* "delivered" only when every recipient has acknowledged it.  It must hold
\* although transactions compute the aggregate from each other's stale rows.
Earned(state) ==
  /\ state = "read" => Recipient \subseteq readBy
  /\ state = "delivered" => Recipient \subseteq readBy \cup wasDelivered

NoFalseDelivery == Earned(agg) /\ Earned(shown)

\* An acknowledged receipt stays acknowledged, a read receipt stays, and the
\* aggregate never returns to "persisted", whichever transactions overlap.
NeverUndelivered ==
  [][ /\ \A u \in User : receipt[u] \in {"delivered", "read"}
                          => receipt'[u] \in {"delivered", "read"}
      /\ readBy \subseteq readBy'
      /\ agg # "persisted" => agg' # "persisted" ]_vars

\* A queued acknowledgement of a member is applied in the end: no more than
\* RetryLimit faults, and crashes, conflicts and lock waits in between.  Only a
\* handler stuck in the except branch may hold it for good.
Queued(u, k) == \E r \in 0 .. RetryLimit :
  queue[[kind |-> k, user |-> u, via |-> "queue", retry |-> r]] > 0

Held(u, k) == \E h \in Handler : pc[h] = "stuck" /\ job[h].kind = k /\ job[h].user = u

EventuallyRecorded ==
  \A u \in User :
    /\ Queued(u, "delivered")
         ~> (u \notin member \/ receipt[u] \in {"delivered", "read"} \/ Held(u, "delivered"))
    /\ Queued(u, "read") ~> (u \notin member \/ u \in readBy \/ Held(u, "read"))

-----------------------------------------------------------------------------
(* Inductive strengthenings, for the proofs. *)

\* The history once h has committed.
ReadAfter(h) == IF job[h].kind = "read" THEN readBy \cup {job[h].user} ELSE readBy
DeliveredAfter(h) ==
  IF write[h] # "none" THEN wasDelivered \cup {job[h].user} ELSE wasDelivered

\* A row says no more than its user has done, and a recipient has a row.
RowInv ==
  \A u \in User :
    /\ receipt[u] = "read" => u \in readBy
    /\ receipt[u] = "delivered" => u \in readBy \cup wasDelivered
    /\ u \in Recipient => receipt[u] # "none"

\* A transaction writes what it was asked for, and the aggregate it has computed
\* is earned once it has committed.
TransactionInv ==
  \A h \in Handler :
    /\ pc[h] \in {"compute", "commit"} => write[h] \in {"none", job[h].kind}
    /\ pc[h] = "commit" =>
         /\ result[h] = "read" => Recipient \subseteq ReadAfter(h)
         /\ result[h] = "delivered" => Recipient \subseteq ReadAfter(h) \cup DeliveredAfter(h)
    /\ pc[h] = "publish" => Earned(result[h])

EarnedInv == RowInv /\ TransactionInv /\ NoFalseDelivery

\* There are receipts, and each is past "persisted".
Marked(r) ==
  /\ \E u \in User : r[u] # "none"
  /\ \A u \in User : r[u] # "persisted"

\* An aggregate past "persisted", stored, loaded or computed, comes from such
\* receipts; a transaction that has loaded one does not compute less.
MarkedInv ==
  /\ agg # "persisted" => Marked(receipt)
  /\ \A h \in Handler :
       /\ pc[h] \in {"insert", "flush", "compute", "commit"} /\ seen[h].agg # "persisted"
            => Marked(receipt)
       /\ pc[h] = "commit" /\ result[h] # "persisted" => Marked(Visible(h))
       /\ pc[h] = "commit" /\ seen[h].agg # "persisted" => result[h] # "persisted"

=============================================================================
