--------------------------- MODULE MessagePipeline ---------------------------
(***************************************************************************)
(* The path of a send_message request: WebSocket gateway, Redis channel    *)
(* "ingress.events", the bridge task of every worker replica, the durable  *)
(* RabbitMQ message queue, the worker's message handler with its database  *)
(* transaction, and the events it sends back.                              *)
(*                                                                         *)
(* A handler is split where another task can run or where it can fail: at  *)
(* its awaits on PostgreSQL, Redis and RabbitMQ.  PostgreSQL runs at READ  *)
(* COMMITTED, so rows of an open transaction are visible to nobody else,   *)
(* and the insertion of a primary key another open transaction has         *)
(* inserted waits for that transaction to end.                             *)
(*                                                                         *)
(* Left out: the text of messages and attachments, the push notification   *)
(* and analytics queues that a handler feeds after its acknowledgement,    *)
(* and a broker connection that drops while its worker lives on.           *)
(***************************************************************************)
EXTENDS Naturals, Sequences, FiniteSets

CONSTANTS
  Request,        \* send_message requests: records with client, user, conversation
  Worker,         \* replicas of the worker process
  Handler,        \* deliveries handled at once over all workers (prefetch)
  Host,           \* the worker each handler runs in
  InitialMember,  \* conversation_participants at the start: pairs <<user, conversation>>
  RetryLimit,     \* settings.worker_retry_limit
  NoDelivery,     \* what a handler without a delivery holds
  MaxSends,       \* bound: how often clients send
  MaxCrashes,     \* bound: worker crashes
  MaxFaults       \* bound: exceptions raised by PostgreSQL, Redis or RabbitMQ

ASSUME HandlerAssumption ==
  /\ IsFiniteSet(Handler)
  /\ Host \in [Handler -> Worker]

ASSUME LimitAssumption == RetryLimit \in Nat

ASSUME BoundAssumption ==
  /\ MaxSends \in Nat
  /\ MaxCrashes \in Nat
  /\ MaxFaults \in Nat

ClientId == {e.client : e \in Request}

\* A payload in the message queue: the request with its retry_count.
Delivery == [event: Request, retry: 0 .. RetryLimit]

FirstCopy(e) == [event |-> e, retry |-> 0]
RetryCopy(d) == [event |-> d.event, retry |-> d.retry + 1]

ASSUME NoDeliveryAssumption == NoDelivery \notin Delivery

VARIABLES
  member,     \* conversation_participants
  sent,       \* requests the gateway has accepted at least once
  queuedAck,  \* requests answered with message_queued
  bridge,     \* bridge[w]: life of worker w and of its bridge task
  buffer,     \* buffer[w]: published events w's subscription has yet to read
  bridged,    \* requests the broker has ever accepted
  queue,      \* the RabbitMQ queue, a bag: ready copies of each delivery
  pc,         \* pc[h]: what handler h does next
  cur,        \* cur[h]: the unacknowledged delivery h holds
  mid,        \* mid[h]: the message id h has allocated or found, 0 before
  rows,       \* committed rows of table messages: records [id, event]
  dedup,      \* message_dedup_keys: client message id to message id, 0 when absent
  nextId,     \* sequence of messages.id
  announced,  \* message_persisted broadcasts: records [conversation, id]
  acked,      \* message_persisted_ack events: records [event, id]
  failed,     \* requests reported with message_failed
  attempts,   \* attempts[e]: handler runs for e that ended in an exception
  sends, crashes, faults  \* counters for the bounds

clientVars == <<sent, queuedAck, sends>>
bridgeVars == <<bridge, buffer>>
dbVars == <<rows, dedup, nextId>>
eventVars == <<announced, acked, failed>>
handlerVars == <<pc, cur, mid>>
vars == <<member, clientVars, bridgeVars, bridged, queue, handlerVars, dbVars,
          eventVars, attempts, crashes, faults>>

BridgeState == {"off", "starting", "on", "dead"}

\* Up to "done" a handler is in its try block, then in the except branch.
PC == {"idle", "check", "lookup", "dedup", "commit", "publish", "ack", "notify", "done",
       "error", "retried", "giveup", "close", "stuck"}

TypeOK ==
  /\ member \subseteq InitialMember
  /\ sent \subseteq Request
  /\ queuedAck \subseteq Request
  /\ bridge \in [Worker -> BridgeState]
  /\ buffer \in [Worker -> Seq(Request)]
  /\ bridged \subseteq Request
  /\ queue \in [Delivery -> Nat]
  /\ pc \in [Handler -> PC]
  /\ cur \in [Handler -> Delivery \cup {NoDelivery}]
  /\ mid \in [Handler -> Nat]
  /\ rows \subseteq [id: Nat, event: Request]
  /\ dedup \in [ClientId -> Nat]
  /\ nextId \in Nat \ {0}
  /\ announced \subseteq [conversation: {e.conversation : e \in Request}, id: Nat]
  /\ acked \subseteq [event: Request, id: Nat]
  /\ failed \subseteq Request
  /\ attempts \in [Request -> Nat]
  /\ sends \in Nat
  /\ crashes \in Nat
  /\ faults \in Nat

Init ==
  /\ member = InitialMember
  /\ sent = {}
  /\ queuedAck = {}
  /\ bridge = [w \in Worker |-> "off"]
  /\ buffer = [w \in Worker |-> <<>>]
  /\ bridged = {}
  /\ queue = [d \in Delivery |-> 0]
  /\ pc = [h \in Handler |-> "idle"]
  /\ cur = [h \in Handler |-> NoDelivery]
  /\ mid = [h \in Handler |-> 0]
  /\ rows = {}
  /\ dedup = [c \in ClientId |-> 0]
  /\ nextId = 1
  /\ announced = {}
  /\ acked = {}
  /\ failed = {}
  /\ attempts = [e \in Request |-> 0]
  /\ sends = 0
  /\ crashes = 0
  /\ faults = 0

-----------------------------------------------------------------------------
(* The gateway and the membership table. *)

\* ConversationService.remove_member, as the pipeline sees it.
RemoveMember(p) ==
  /\ p \in member
  /\ member' = member \ {p}
  /\ UNCHANGED <<clientVars, bridgeVars, bridged, queue, handlerVars, dbVars,
                 eventVars, attempts, crashes, faults>>

\* ChatGateway._handle_send_message.  Its membership check trusts cached
\* participants, so a user removed within the cache's life still passes.  The
\* publication reaches the subscriptions alive at that moment and nobody else;
\* publish_ingress_event repeats one whose answer is lost, which is another send.
\* The socket may be gone before message_queued is written to it.
SendMessage(e) ==
  /\ sends < MaxSends
  /\ <<e.user, e.conversation>> \in InitialMember
  /\ sent' = sent \cup {e}
  /\ buffer' = [w \in Worker |-> IF bridge[w] = "on" THEN Append(buffer[w], e)
                                                     ELSE buffer[w]]
  /\ queuedAck' \in {queuedAck, queuedAck \cup {e}}
  /\ sends' = sends + 1
  /\ UNCHANGED <<member, bridge, bridged, queue, handlerVars, dbVars, eventVars,
                 attempts, crashes, faults>>

-----------------------------------------------------------------------------
(* The worker process and its bridge task. *)

\* WorkerRuntime.run: the consumers are registered before the bridge task runs.
StartWorker(w) ==
  /\ bridge[w] = "off"
  /\ bridge' = [bridge EXCEPT ![w] = "starting"]
  /\ UNCHANGED <<member, clientVars, buffer, bridged, queue, handlerVars, dbVars,
                 eventVars, attempts, crashes, faults>>

Subscribe(w) ==
  /\ bridge[w] = "starting"
  /\ bridge' = [bridge EXCEPT ![w] = "on"]
  /\ UNCHANGED <<member, clientVars, buffer, bridged, queue, handlerVars, dbVars,
                 eventVars, attempts, crashes, faults>>

\* One iteration of _bridge_ingress_events: every replica forwards every event.
BridgeEvent(w) ==
  /\ bridge[w] = "on"
  /\ buffer[w] # <<>>
  /\ LET e == Head(buffer[w]) IN
       /\ queue' = [queue EXCEPT ![FirstCopy(e)] = @ + 1]
       /\ bridged' = bridged \cup {e}
  /\ buffer' = [buffer EXCEPT ![w] = Tail(@)]
  /\ UNCHANGED <<member, clientVars, bridge, handlerVars, dbVars, eventVars,
                 attempts, crashes, faults>>

\* An exception in the loop ends the task; nothing observes it and the worker
\* goes on consuming without a bridge.
BridgeDies(w) ==
  /\ faults < MaxFaults
  /\ bridge[w] \in {"starting", "on"}
  /\ bridge' = [bridge EXCEPT ![w] = "dead"]
  /\ buffer' = [buffer EXCEPT ![w] = <<>>]
  /\ faults' = faults + 1
  /\ UNCHANGED <<member, clientVars, bridged, queue, handlerVars, dbVars,
                 eventVars, attempts, crashes>>

HeldBy(w, d) == {h \in Handler : Host[h] = w /\ pc[h] # "idle" /\ cur[h] = d}

\* The process dies: its subscription and open transactions are gone, and the
\* broker takes back every delivery the worker had not acknowledged.
Crash(w) ==
  /\ crashes < MaxCrashes
  /\ bridge[w] # "off"
  /\ bridge' = [bridge EXCEPT ![w] = "off"]
  /\ buffer' = [buffer EXCEPT ![w] = <<>>]
  /\ queue' = [d \in Delivery |-> queue[d] + Cardinality(HeldBy(w, d))]
  /\ pc' = [h \in Handler |-> IF Host[h] = w THEN "idle" ELSE pc[h]]
  /\ cur' = [h \in Handler |-> IF Host[h] = w THEN NoDelivery ELSE cur[h]]
  /\ mid' = [h \in Handler |-> IF Host[h] = w THEN 0 ELSE mid[h]]
  /\ crashes' = crashes + 1
  /\ UNCHANGED <<member, clientVars, bridged, dbVars, eventVars, attempts, faults>>

-----------------------------------------------------------------------------
(* WorkerRuntime._consume_message_queue for a create_message payload. *)

\* Mutant of Deliver: a copy is taken whether or not one is ready.
DeliverUnready(h, d) ==
  /\ bridge[Host[h]] # "off"
  /\ pc[h] = "idle"
  /\ d.event \in bridged
  /\ queue' = [queue EXCEPT ![d] = @ - 1]
  /\ pc' = [pc EXCEPT ![h] = "check"]
  /\ cur' = [cur EXCEPT ![h] = d]
  /\ UNCHANGED <<member, clientVars, bridgeVars, bridged, mid, dbVars, eventVars,
                 attempts, crashes, faults>>

Deliver(h, d) ==
  /\ bridge[Host[h]] # "off"
  /\ pc[h] = "idle"
  /\ queue[d] > 0
  /\ queue' = [queue EXCEPT ![d] = @ - 1]
  /\ pc' = [pc EXCEPT ![h] = "check"]
  /\ cur' = [cur EXCEPT ![h] = d]
  /\ UNCHANGED <<member, clientVars, bridgeVars, bridged, mid, dbVars, eventVars,
                 attempts, crashes, faults>>

\* Handler h goes on to step s and touches nothing but its own place.
Goto(h, s) == pc' = [pc EXCEPT ![h] = s]

\* The handler's try block raises: the session context rolls back.
Raise(h) ==
  /\ Goto(h, "error")
  /\ mid' = [mid EXCEPT ![h] = 0]
  /\ attempts' = [attempts EXCEPT ![cur[h].event] = @ + 1]
  /\ UNCHANGED <<member, clientVars, bridgeVars, bridged, queue, cur, dbVars,
                 eventVars, crashes>>

IsMember(e) == <<e.user, e.conversation>> \in member

\* persist_ingress_message: assert_member raises HTTPException 403.
RejectNonMember(h) ==
  /\ pc[h] = "check"
  /\ ~ IsMember(cur[h].event)
  /\ Raise(h)
  /\ UNCHANGED faults

\* persist_ingress_message: assert_member passes.
CheckMember(h) ==
  /\ pc[h] = "check"
  /\ IsMember(cur[h].event)
  /\ Goto(h, "lookup")
  /\ UNCHANGED <<member, clientVars, bridgeVars, bridged, queue, cur, mid, dbVars,
                 eventVars, attempts, crashes, faults>>

\* persist_ingress_message: the client message id has been stored already.
ReuseExisting(h) ==
  /\ pc[h] = "lookup"
  /\ dedup[cur[h].event.client] # 0
  /\ mid' = [mid EXCEPT ![h] = dedup[cur[h].event.client]]
  /\ Goto(h, "publish")
  /\ UNCHANGED <<member, clientVars, bridgeVars, bridged, queue, cur, dbVars,
                 eventVars, attempts, crashes, faults>>

\* persist_ingress_message: the new row is flushed, which draws its id.
InsertMessage(h) ==
  /\ pc[h] = "lookup"
  /\ dedup[cur[h].event.client] = 0
  /\ mid' = [mid EXCEPT ![h] = nextId]
  /\ nextId' = nextId + 1
  /\ Goto(h, "dedup")
  /\ UNCHANGED <<member, clientVars, bridgeVars, bridged, queue, cur, rows, dedup,
                 eventVars, attempts, crashes, faults>>

\* Another open transaction has inserted the dedup key of client id c.
KeyLocked(c) == \E h \in Handler : pc[h] = "commit" /\ cur[h].event.client = c

\* Mutant of TakeDedupKey: client_message_id is not a primary key.
TakeDedupKeyUnguarded(h) ==
  /\ pc[h] = "dedup"
  /\ Goto(h, "commit")
  /\ UNCHANGED <<member, clientVars, bridgeVars, bridged, queue, cur, mid, dbVars,
                 eventVars, attempts, crashes, faults>>

\* Mutant of TakeDedupKey: the events go out before the commit.
TakeDedupKeyPublishFirst(h) ==
  /\ pc[h] = "dedup"
  /\ ~ KeyLocked(cur[h].event.client)
  /\ dedup[cur[h].event.client] = 0
  /\ Goto(h, "publish")
  /\ UNCHANGED <<member, clientVars, bridgeVars, bridged, queue, cur, mid, dbVars,
                 eventVars, attempts, crashes, faults>>

\* The query for participants autoflushes the dedup key and the attachments.
TakeDedupKey(h) ==
  /\ pc[h] = "dedup"
  /\ ~ KeyLocked(cur[h].event.client)
  /\ dedup[cur[h].event.client] = 0
  /\ Goto(h, "commit")
  /\ UNCHANGED <<member, clientVars, bridgeVars, bridged, queue, cur, mid, dbVars,
                 eventVars, attempts, crashes, faults>>

\* The same flush when the key has been committed meanwhile: IntegrityError,
\* raised outside the try block that expects it.
DedupKeyTaken(h) ==
  /\ pc[h] = "dedup"
  /\ ~ KeyLocked(cur[h].event.client)
  /\ dedup[cur[h].event.client] # 0
  /\ Raise(h)
  /\ UNCHANGED faults

Commit(h) ==
  /\ pc[h] = "commit"
  /\ rows' = rows \cup {[id |-> mid[h], event |-> cur[h].event]}
  /\ dedup' = [dedup EXCEPT ![cur[h].event.client] = mid[h]]
  /\ Goto(h, "publish")
  /\ UNCHANGED <<member, clientVars, bridgeVars, bridged, queue, cur, mid, nextId,
                 eventVars, attempts, crashes, faults>>

\* _process_message_event: message_persisted and message_delivery_state go to
\* the conversation the event names.
PublishPersisted(h) ==
  /\ pc[h] = "publish"
  /\ announced' = announced \cup
       {[conversation |-> cur[h].event.conversation, id |-> mid[h]]}
  /\ Goto(h, "ack")
  /\ UNCHANGED <<member, clientVars, bridgeVars, bridged, queue, cur, mid, dbVars,
                 acked, failed, attempts, crashes, faults>>

PublishAck(h) ==
  /\ pc[h] = "ack"
  /\ acked' = acked \cup {[event |-> cur[h].event, id |-> mid[h]]}
  /\ Goto(h, "notify")
  /\ UNCHANGED <<member, clientVars, bridgeVars, bridged, queue, cur, mid, dbVars,
                 announced, failed, attempts, crashes, faults>>

\* Analytics, then a push notification for each offline participant.
Notify(h) ==
  /\ pc[h] = "notify"
  /\ Goto(h, "done")
  /\ UNCHANGED <<member, clientVars, bridgeVars, bridged, queue, cur, mid, dbVars,
                 eventVars, attempts, crashes, faults>>

\* Any await of the try block may raise, its acknowledgement included:
\* PostgreSQL, Redis or RabbitMQ is away.
HandlerFault(h) ==
  /\ faults < MaxFaults
  /\ pc[h] \in {"check", "lookup", "dedup", "commit", "publish", "ack", "notify", "done"}
  /\ Raise(h)
  /\ faults' = faults + 1

\* Mutant of Republish: the copy is forgotten, only message_retrying goes out.
RepublishNothing(h) ==
  /\ pc[h] = "error"
  /\ cur[h].retry < RetryLimit
  /\ Goto(h, "retried")
  /\ UNCHANGED <<member, clientVars, bridgeVars, bridged, queue, cur, mid, dbVars, eventVars,
                 attempts, crashes, faults>>

\* The except branch: a copy with retry_count + 1, while the limit allows one.
Republish(h) ==
  /\ pc[h] = "error"
  /\ cur[h].retry < RetryLimit
  /\ queue' = [queue EXCEPT ![RetryCopy(cur[h])] = @ + 1]
  /\ Goto(h, "retried")
  /\ UNCHANGED <<member, clientVars, bridgeVars, bridged, cur, mid, dbVars, eventVars,
                 attempts, crashes, faults>>

\* message_retrying tells the sender; it holds no state the model keeps.
PublishRetrying(h) ==
  /\ pc[h] = "retried"
  /\ Goto(h, "close")
  /\ UNCHANGED <<member, clientVars, bridgeVars, bridged, queue, cur, mid, dbVars,
                 eventVars, attempts, crashes, faults>>

\* Mutant of GiveUp: past the limit the delivery is acknowledged in silence.
GiveUpSilently(h) ==
  /\ pc[h] = "error"
  /\ cur[h].retry = RetryLimit
  /\ Goto(h, "close")
  /\ UNCHANGED <<member, clientVars, bridgeVars, bridged, queue, cur, mid, dbVars,
                 eventVars, attempts, crashes, faults>>

\* The except branch past the limit.
GiveUp(h) ==
  /\ pc[h] = "error"
  /\ cur[h].retry = RetryLimit
  /\ Goto(h, "giveup")
  /\ UNCHANGED <<member, clientVars, bridgeVars, bridged, queue, cur, mid, dbVars,
                 eventVars, attempts, crashes, faults>>

\* Mutant of PublishFailed: giving up removes the message a copy may have stored.
PublishFailedAndDelete(h) ==
  /\ pc[h] = "giveup"
  /\ failed' = failed \cup {cur[h].event}
  /\ rows' = {m \in rows : m.event.client # cur[h].event.client}
  /\ Goto(h, "close")
  /\ UNCHANGED <<member, clientVars, bridgeVars, bridged, queue, cur, mid, dedup, nextId,
                 announced, acked, attempts, crashes, faults>>

PublishFailed(h) ==
  /\ pc[h] = "giveup"
  /\ failed' = failed \cup {cur[h].event}
  /\ Goto(h, "close")
  /\ UNCHANGED <<member, clientVars, bridgeVars, bridged, queue, cur, mid, dbVars,
                 announced, acked, attempts, crashes, faults>>

\* The except branch itself raises: nothing acknowledges the delivery, which
\* the broker counts against the worker until the worker goes.
HandlerStuck(h) ==
  /\ faults < MaxFaults
  /\ pc[h] \in {"error", "retried", "giveup", "close"}
  /\ Goto(h, "stuck")
  /\ faults' = faults + 1
  /\ UNCHANGED <<member, clientVars, bridgeVars, bridged, queue, cur, mid, dbVars,
                 eventVars, attempts, crashes>>

\* message.ack(), in the try block or at the end of the except branch.
BasicAck(h) ==
  /\ pc[h] \in {"done", "close"}
  /\ Goto(h, "idle")
  /\ cur' = [cur EXCEPT ![h] = NoDelivery]
  /\ mid' = [mid EXCEPT ![h] = 0]
  /\ UNCHANGED <<member, clientVars, bridgeVars, bridged, queue, dbVars, eventVars,
                 attempts, crashes, faults>>

-----------------------------------------------------------------------------

\* What a handler does by itself once it holds a delivery.
HandlerStep(h) ==
  \/ RejectNonMember(h) \/ CheckMember(h) \/ ReuseExisting(h) \/ InsertMessage(h)
  \/ TakeDedupKey(h) \/ DedupKeyTaken(h) \/ Commit(h)
  \/ PublishPersisted(h) \/ PublishAck(h) \/ Notify(h)
  \/ Republish(h) \/ PublishRetrying(h) \/ GiveUp(h) \/ PublishFailed(h)
  \/ BasicAck(h)

Next ==
  \/ \E p \in InitialMember : RemoveMember(p)
  \/ \E e \in Request : SendMessage(e)
  \/ \E w \in Worker : StartWorker(w) \/ Subscribe(w) \/ BridgeEvent(w)
                         \/ BridgeDies(w) \/ Crash(w)
  \/ \E h \in Handler : \E d \in Delivery : Deliver(h, d)
  \/ \E h \in Handler : HandlerStep(h) \/ HandlerFault(h) \/ HandlerStuck(h)

Spec == Init /\ [][Next]_vars

(***************************************************************************)
(* Fairness.  Containers restart (restart: unless-stopped), an event loop  *)
(* runs every task that can run, and the broker hands a ready delivery to  *)
(* a consumer that keeps having room.  Clients, removals, crashes and      *)
(* faults owe nothing.                                                     *)
(***************************************************************************)
Fairness ==
  /\ \A w \in Worker : WF_vars(StartWorker(w)) /\ WF_vars(Subscribe(w))
                         /\ WF_vars(BridgeEvent(w))
  /\ \A d \in Delivery : SF_vars(\E h \in Handler : Deliver(h, d))
  /\ \A h \in Handler : WF_vars(HandlerStep(h))

FairSpec == Spec /\ Fairness

-----------------------------------------------------------------------------
(* Properties. *)

\* However many replicas bridge a request, however often it is sent, redelivered
\* or retried, one client message id has one committed row
\* (persist_ingress_message, message_dedup_keys).
OneRowPerClientId ==
  \A m1, m2 \in rows : m1.event.client = m2.event.client => m1 = m2

\* message_persisted_ack and message_persisted are sent after the commit: they
\* name a durable row, an acknowledgement one of its own client message id
\* (_process_message_event).
AckNamesDurableRow ==
  /\ \A a \in acked : \E m \in rows : m.id = a.id /\ m.event.client = a.event.client
  /\ \A b \in announced : \E m \in rows : m.id = b.id

Stored(e) == \E m \in rows : m.event.client = e.client
Settled(e) == Stored(e) \/ e \in failed

\* A ready delivery, or a handler that has not finished with one.
Pending(e) ==
  \/ \E d \in Delivery : d.event = e /\ queue[d] > 0
  \/ \E h \in Handler : /\ pc[h] \notin {"idle", "retried", "done", "close"}
                         /\ cur[h].event = e

\* Once the broker has a request, crashes, exceptions and the hand-over from a
\* delivery to its retry copy never lose it: it is stored, reported failed, or
\* still on its way (_consume_message_queue acknowledges last).
NoSilentLoss == \A e \in bridged : Settled(e) \/ Pending(e)

\* message_failed is sent only for a request whose handling has raised more than
\* worker_retry_limit times (_consume_message_queue).
FailedOnlyAfterAllRetries == \A e \in failed : attempts[e] > RetryLimit

\* The pipeline implements the once-only store of MessageStore.
Promise == INSTANCE MessageStore
             WITH requested <- sent, stored <- rows, confirmed <- acked, refused <- failed

ImplementsStore == Promise!Spec

\* Its except branch has raised with the last copy of e, or with every handler
\* there is.
Wedged(e) ==
  \/ \E h \in Handler : pc[h] = "stuck" /\ cur[h].event = e
  \/ \A h \in Handler : pc[h] = "stuck"

\* A request the broker has accepted is stored or reported failed in the end,
\* unless an exception in the handler's own except branch has wedged it.
EventuallySettled == \A e \in Request : e \in bridged ~> Settled(e) \/ Wedged(e)

-----------------------------------------------------------------------------
(* What makes the properties inductive. *)

\* Rows and dedup keys are committed together, one key per row.
StoreInv ==
  /\ \A m \in rows : m.id # 0 /\ m.id < nextId /\ dedup[m.event.client] = m.id
  /\ \A m1, m2 \in rows : m1.id = m2.id => m1 = m2
  /\ \A c \in ClientId :
       dedup[c] # 0 => \E m \in rows : m.id = dedup[c] /\ m.event.client = c

Drafting(h) == pc[h] \in {"dedup", "commit"}

\* Open transactions hold ids of their own, and the keys they have inserted are
\* free in the table and held by nobody else.
DraftInv ==
  /\ \A h \in Handler : Drafting(h) =>
       mid[h] # 0 /\ mid[h] < nextId /\ \A m \in rows : m.id # mid[h]
  /\ \A h1, h2 \in Handler : Drafting(h1) /\ Drafting(h2) /\ mid[h1] = mid[h2] => h1 = h2
  /\ \A h \in Handler : pc[h] = "commit" => dedup[cur[h].event.client] = 0
  /\ \A h1, h2 \in Handler :
       /\ pc[h1] = "commit" /\ pc[h2] = "commit"
       /\ cur[h1].event.client = cur[h2].event.client
       => h1 = h2

\* What a handler is about to publish is committed.
PublishInv ==
  \A h \in Handler : pc[h] \in {"publish", "ack", "notify"} =>
    \E m \in rows : m.id = mid[h] /\ m.event.client = cur[h].event.client

OnceInv == StoreInv /\ DraftInv /\ PublishInv /\ AckNamesDurableRow

\* retry_count never exceeds the exceptions that led to it.
RetryInv ==
  /\ \A d \in Delivery : queue[d] > 0 => attempts[d.event] >= d.retry
  /\ \A h \in Handler : pc[h] # "idle" => attempts[cur[h].event] >= cur[h].retry
  /\ \A h \in Handler : pc[h] \in {"error", "giveup"} =>
       attempts[cur[h].event] > cur[h].retry
  /\ \A h \in Handler : pc[h] = "giveup" => cur[h].retry = RetryLimit
  /\ FailedOnlyAfterAllRetries

\* Nothing in the pipeline was not sent by a client.
SentInv ==
  /\ \A w \in Worker : \A i \in 1 .. Len(buffer[w]) : buffer[w][i] \in sent
  /\ \A d \in Delivery : queue[d] > 0 => d.event \in sent
  /\ \A h \in Handler : pc[h] # "idle" => cur[h].event \in sent

=============================================================================
