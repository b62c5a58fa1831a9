# Verification of the qora-qarg'a messenger

TLA+ models of the messenger in `src/`, the TLC runs that check them on small
instances, and TLAPS proofs of their most important properties for every value
of the constants.  `PROJECT.json` lists components, runs, mutants, findings,
hazards and theorems, and maps every definition to the lines it models.

1. [The system](#1-the-system)
2. [Modules and how they correspond to the code](#2-modules)
3. [Runs, bounds and fairness](#3-runs-bounds-and-fairness)
4. [Proofs](#4-proofs)
5. [Where code and documentation disagree](#5-where-code-and-documentation-disagree)
6. [What is not modelled](#6-what-is-not-modelled)
7. [Plan](#7-plan)

## 1. The system

A messenger: a Python backend (`app/`) in several processes, a desktop client
(`desktop/`, Tauri and React) and a mobile client (`mobile/`, Expo).  The
documents at the root describe a newer backend than `app/`: sessions with
refresh tokens, the change feed and call signalling have clients here and no
server.  The server side of those is modelled from how the clients use it and
marked external.

```
client --ws--> gateway --PUBLISH ingress.events--> Redis --> bridge task (every worker)
                  ^                                              |
                  |                                              v
   conversation:*, user:*, presence <--PUBLISH-- worker <-- RabbitMQ message queue
                                                  |
client --REST--> API process ------------------> PostgreSQL, Redis caches
```

| Component | State | Operations | Interacts with | Hard behaviour | Correct when |
|---|---|---|---|---|---|
| Gateway `app/websocket/gateway.py` | sockets | send_message, acks, join/leave, typing, active conversation | Redis channels, caches, presence | publish-and-forget; checks and effects separated by awaits | what it accepts reaches the queue; nobody hears a room they were never in |
| Connection manager `manager.py` | users, rooms and sockets of one process | connect, join, leave, disconnect, broadcast | gateway | a failed send disconnects under a running handler | its four maps agree |
| Bridge and worker `app/workers/main.py`, `queue/rabbitmq.py` | deliveries in hand | bridge ingress, consume, retry, acknowledge | Redis, RabbitMQ, PostgreSQL | every replica bridges every event; redelivery; retry copies; crash between commit and ack | stored once, never lost once queued, acknowledged only when durable |
| Message service `app/messages/service.py` | messages, dedup keys, receipts | persist, mark_delivered, mark_read, list, edit, delete | PostgreSQL, recent-message cache | overlapping READ COMMITTED transactions | the delivery state is earned by the recipients |
| Conversation service and cache | participants, admins, two Redis caches | read, list, add, remove | gateway | stale readers rewrite an invalidated cache; half-done changes | strangers are never trusted; the caches come to agree |
| Presence `app/presence/service.py` | sessions with expiry, online set, active conversation | online, offline, touch, count, sweep | gateway, worker (push notifications) | count-then-write over several processes, expiry, sockets that share a session id | a connected user comes to be online, a gone one offline |
| Rate limiter, analytics, notifications, storage, auth | counters, rows, files | — | worker, API | best effort, or sequential | — |
| Desktop session `desktop/src/api/session.ts`, `client.ts`, `stores/auth.ts` | stored refresh token, access token, refresh in flight | refresh, force, request, bootstrap, sign out | server, other tabs | single flight, web locks, lost answers, sign-out during a refresh | no used token is presented; a login survives errors |
| Desktop socket `desktop/src/realtime/socket.ts`, `RealtimeProvider.tsx`, `ChatScreen.tsx` | socket, outbox, retry timer, reported conversation | connect, disconnect, open, send, retry, heartbeat | session, gateway, presence | sign-outs and sign-ins while a token is awaited; old connections that linger | one socket; nothing leaves under another sign-in; presence ends up where the user is |
| Desktop transcript `message-cache.ts`, `use-messages.ts`, `change-feed.ts` | cached messages, cursor | send, merge, load, recover | socket, change feed | optimistic rows, events, pages and the feed in any order; lost frames | one row per message, nothing missed, ticks move forward |
| Desktop calls `features/calls/*`, `stores/calls.ts` | one call, one peer, media, tones, timers | invite, accept, reject, hang up, signal | socket, browser | prompts awaited while the call ends; candidates before descriptions; timers of an old call | no media outside a call, no caller unanswered, a call that is over is left |
| Mobile chat store `mobile/store/chatStore.ts` | messages, badges, cursors, limits | start, list synchronisation, send, events, history, recovery | mobile socket, REST | whole lists written back from snapshots; a persisted cursor | one row per message, one count per message, a recovery leaves the server's rows |
| Mobile session, socket and calls | as on the desktop | as on the desktop | | | |

## 2. Modules

`MessageStore` is the abstract specification; `MessagePipeline` implements it.
The other components share only tables, tokens or events with it and are modules
of their own, each with the others' side as its environment.  `MC*` modules hold the values of the constants for TLC,
`*Proofs` modules the theorems.

All of them split a handler **where another task can come between or where it
can fail**: at its awaits on PostgreSQL, Redis, RabbitMQ, the keyring or the
network.  What a handler does between two awaits is one action.

### MessageStore, MessagePipeline

`MessageStore` promises: a sent request is stored at most once per client
message id, an acknowledgement names a message stored for that id, only a sent
request is refused, and nothing of it is taken back.

`MessagePipeline` is the path of `send_message`:

| State | Code |
|---|---|
| `member` | `conversation_participants` |
| `sent`, `queuedAck` | what `_handle_send_message` accepted, and answered with `message_queued` |
| `bridge[w]`, `buffer[w]` | the life of worker `w` and of its bridge task; its Redis subscription |
| `queue`, `bridged` | the durable RabbitMQ queue as a bag of deliveries with `retry_count`; what it ever accepted |
| `pc[h]`, `cur[h]`, `mid[h]` | where handler `h` of `_consume_message_queue` is, its unacknowledged delivery, its message id |
| `rows`, `dedup`, `nextId` | tables `messages` and `message_dedup_keys`, the id sequence |
| `announced`, `acked`, `failed` | `message_persisted`, `message_persisted_ack` and `message_failed` events |

`SendMessage` is the gateway; `StartWorker`, `Subscribe`, `BridgeEvent`,
`BridgeDies`, `Crash` the worker process; `Deliver` to `BasicAck` the consumer:
`persist_ingress_message` is the membership check with the dedup lookup
(`RejectNonMember`, `ReuseExisting`, `InsertMessage`), the autoflush of the
dedup key (`TakeDedupKey`, `DedupKeyTaken`), which waits for another open
transaction with the same key as PostgreSQL does, and `Commit`.  The except
branch is `Republish`, `PublishRetrying`, `GiveUp`, `PublishFailed`; an
exception inside it (`HandlerStuck`) leaves the delivery unacknowledged.  The
queue is a bag: redelivery and several consumers give no order worth relying
on.  A rejected publication of the bridge counts as `BridgeDies`.  An
acknowledgement written to a dead channel has the effect of a crash after the
commit and is covered by `Crash`.

### DeliveryReceipts

One message after it was stored: `receipt` (`message_delivery_receipts`),
`readBy` (`message_read_receipts`), `agg` (`messages.delivery_state`), `queue`
(the acknowledgements in the message queue), `shown` (the last broadcast
state).  A transaction of `mark_delivered` or `mark_read` is `Load` (rows into
the identity map, `seen[h]`), `Flush` (the user's receipt is written and locked
until the end, `write[h]`; an INSERT may meet a committed one: `FlushConflict`),
`Compute` (a fresh query over all receipts, `result[h]`) and `Commit` (only
columns that differ from the loaded ones are sent).  `RestRead` is the same
`mark_read` in a REST request, without a retry.  `wasDelivered` is history.

### ConversationMembership

One group: `participants` and `admins` (the table), `cached`
(`conversation:{id}:participants`), `listed` (`user:{u}:conversation_ids`), the
REST requests (`pc`, `op`, `actor`, `target`, `loaded`: the collection the
session keeps after its first query, which is why the entry a change rewrites
is the old one) and the sockets (`sock`, `found`, `room`).  `Load`, `CacheIds`,
`Warm`, `Authorise`, `CommitAdd`/`CommitRemove`, `Rewarm`, `Invalidate`,
`Forget` are the awaits of one request in their order; `Connect`, `CacheRooms`,
`JoinRooms` those of a connection, `CheckJoin`/`JoinChecked` those of
`join_conversation`.  `Expire` and `ExpireListed` are the time to live.

### ClientSession

The windows of one device: `stored` (`secureStore`), `access`, `fresh` (the
client's clock), `phase` (the single refresh in flight: waiting for the web
lock, reading the store, sent, answered, storing), `carried` (the token on its
way), `status` (the auth store), `call` (an `apiRequest`, the `bootstrap` of a
starting window, or a `signOut`).  Refresh token *n* brings access token *n*, so
one number stands for both.  The server is external (`current`, `revoked`,
`dead`): it rotates the current token and revokes the session when it sees any
other, as `session.ts:10-17` says.  Answers can be lost, requests given up can
arrive later (`late`), windows can close at any step, the keyring can fail.
`HasLocks` is `navigator.locks`; without it the code has no order between
windows, and the module then assumes one window (a Tauri window).

### Presence

One user.  `online` is the status with the membership of `presence:online_users`,
`sessions` the set `user:{id}:sessions`, `keys` the session keys with their time
to live; `job[p]` is what a process is doing: the handler of a socket
(`UserOnline`, `TouchSession`, `UserOffline`), the maintenance loop
(`StartCleanup`) or a request (`GetUserPresence`).  Each Redis pipeline is one
step, and what the four operations share is one set of steps: `Query` or `Sweep`
(the status), `Members`, `Exists`, `Prune` (`_count_active_sessions`),
`SetUserOffline`, `Reread`, `Tell`.  Several sockets may name one session:
a client keeps its `session_id` over a reconnection.  Keys expire only when
their client has no open socket that is awake, because the heartbeat is much
shorter than the time to live.

### DesktopSocket

One window over several sign-ins.  `socket`, `opening`, `closedByUs`, `timer`,
`outbox`, `active` are the fields of `RealtimeSocket` (`attempt` only sets
delays and is left out); `waits` the calls of `getToken` that have not returned,
`conns` every WebSocket until the server has noticed its end, with the frames
under way.  `SignIn`, `SignOut` and `Revoked` (close code 4001) are the effect
of `RealtimeProvider` around `connect` and `disconnect`, `SignOut` also when the
session is lost by other means; `TokenArrives` and `NoToken` the rest of `open`;
`Opens`, `Closed`, `Greeted`, `Heartbeat`, `TimerFires`, `send` the handlers.
`OpenChat` and `CloseChat` are the effect of `ChatScreen` and its cleanup,
`StartSend` and `SendMessage` the two ends of the upload of `useSendFile`.
`reported` is presence's active conversation, which `Receives` and `Notices`
(the `user_offline` of an ended connection) write.  A broken connection may
still look open: then what is sent is lost.

### DesktopTranscript

One open conversation.  `cache` is the list of `message-cache.ts`, whose
functions keep their names; `cursor` the stored cursor; `page`, `older`, `feed`
the requests awaited; `inbox` the events under way; `link`, `retrying`,
`outbox` what the socket contributes.  The server is external: `log` is the
change feed, the version of a message its last entry.  History variables mark
what the code does not repair: `dropped` (a frame written to a dead socket) and
`overtaken` (something older than the cursor was written after it).

### DesktopCalls

One window and the calls placed by it or coming in.  `call`, `phase`, `stream`
are the store's active call, `peer` and `peers` the `CallPeer` objects with
their promises (`OfferCreated`, `RemoteSet`, `AnswerSent`), `media` the prompts
awaited, `timers` the 1.2 second timers, `live` the streams that capture, `tone`
what sounds.  `srv[c]` is the state of a call at the server, which is external
and atomic: it decides an invitation, an answer or an end in the order it hears
of them, and tells the other side.  `raced` is history: something awaited for a
call, or a timer of it, came after that call; `lost`: an event was lost with
the socket.

### MobileChat

One conversation of the store: `rows`, its badge `unread`, its `cursor`, and
the operations with an await each as one variable: `boot`
(`initializeForSession`), `sync` (`syncConversations`, with the copies it will
write back), `older` (`loadOlderMessages`), `feed`
(`recoverConversationChanges`).  `mine[m]` follows a message of the user to the
server.  Badge and cursor survive `Restart`, rows do not.  History: `raced`
(something older was written over something newer), `skipped` (an entry of the
feed was passed over as out of the loaded window), `counted` and `base` (what
the badge should say at most), `fresh` (a recovery has ended since the last
connection).

## 3. Runs, bounds and fairness

| Run | Shows | Bounds |
|---|---|---|
| `pipeline` | two replicas bridge and consume a request: one row, acknowledged when durable, never lost, implements `MessageStore`, settled in the end | 1 request sent once (the two bridges make two copies), 2 workers with a handler each, 1 retry, 1 crash, 1 fault |
| `receipts` | no aggregate claims what did not happen; acknowledgements are applied | 2 users, one a recipient and one who joined later (whose receipt is created by the acknowledgement, so INSERTs conflict), 2 acknowledgements, 2 open transactions, 1 retry, 1 fault |
| `membership` | no stranger is trusted, an admin stays, the caches and the joins heal | 2 users, 2 requests, 1 socket, 1 change, 1 fault |
| `removed_broadcast` | a removed user's socket stays in the room (violation) | 1 change, no faults |
| `session` | no used token is presented, the stored token can revive the session, errors never end a login, every call ends | 2 tabs with a caller and a timer each, 1 rotation |
| `desktop_calls` | no offer before the acceptance, no candidate left behind, no caller left unanswered, media only within a call, a call that is over is left | 1 placed and 1 received call, 3 streams, 1 candidate, 1 timer and 1 prompt at a time (594 000 states) |
| `desktop_transcript` | a message is shown once; no change the stored cursor has passed is missing from the row shown of its message; after the last fault the transcript comes to be the server's | 1 message of the user, 1 of another, pages of one row and one entry, 2 changes, 1 lost connection or restart (337 000 states) |
| `delivery_forward` | an older page or event takes a tick back (violation) | no faults |
| `desktop_socket` | one socket, no message under another sign-in, a user who stays is connected and reported where they are | 2 sign-ins, 2 chats, 2 WebSockets, 2 broken connections or revocations; the user adds a frame only while none waits (295 000 states) |
| `closed_reported` | a closed chat is reported again by the next connection (violation) | 1 sign-in |
| `presence` | a served user comes to be online, a gone one offline | 2 sockets of one session, 1 reader (maintenance or request), 2 errors, crashes or suspensions (206 000 states) |
| `mobile_chat` | a message is shown once and counted once; a finished recovery leaves the server's rows | 1 message of the user, 1 of another, 2 changes, pages of one entry, 1 fault (2.8 million states) |

Why the bounds are enough: each hazard needs two actors and one failure.  Two
handlers are what it takes for two copies of a request, or a late reader and a
writer, to overlap; one retry separates a first run from a last one; one crash
and one fault reach every place between two steps.  One rotation of the token
is enough for a used token to exist beside a current one.  The safety properties
of every run are also proved without bounds, so the bounds matter only for the
liveness that section 4 lists as only model-checked.  For the two transcripts
two messages are what it takes for a page, a feed page and an event to disagree
about order or presence, and one lost connection or restart separates the cursor
from the rows; the first of the two changes can be that of the user's own
message.  Two sockets of one session are the case presence gets wrong for a
while; a third only repeats it.  Two sign-ins are a first and a second user of
the window; two WebSockets let one linger at the server while the next is open.
Two calls are one to be in and one to come in.  No run uses symmetry: its
properties are partly temporal.  `CHECK_DEADLOCK FALSE` stands where the system
may rest: all requests sent and settled, all acknowledgements applied, all
changes made, the user at rest.  `ClientSession` and `Presence` never rest, and
their runs check for deadlock.

Every property has a mutant: a plausible bug in a mapped definition, written
beside it, under which TLC must find the property violated.

Fairness, and why the code justifies it:

- `MessagePipeline`: workers restart (`restart: unless-stopped` in
  `docker-compose.yml`), an event loop runs each task that can run (weak
  fairness of a handler's next step), and the broker does not pass over a ready
  delivery for ever while consumers keep having room (strong fairness of
  `Deliver`, because a consumer's room comes and goes).  `SendMessage`,
  `RemoveMember`, crashes and faults owe nothing.
- `DeliveryReceipts`: the same; a waiting transaction is woken by PostgreSQL.
- `ConversationMembership`: a request or a connection that has begun goes on.
  The participants entry expires unless a request rewrites it, which restarts
  its time to live; hence the fairness of `Expire` *or* a warming.
- `ClientSession`: each `fetch` settles, with an answer or an error; Web Locks
  are granted in the order of the requests, so a window that keeps asking is
  not overtaken for ever (strong fairness of `AcquireLock`).

- `Presence`: handlers, requests and the loop go on; a client that is awake
  sends its heartbeat every 25 seconds; Redis expires keys; the maintenance loop
  comes again every few seconds, although requests may be answered in between
  (strong fairness of `StartCleanup`).  Nobody has to connect or to ask.
- `DesktopSocket`: timers and event handlers run.  A server that is asked again
  and again answers in the end: `TokenArrives` and `Opens` are strongly fair,
  because the retry loop keeps asking and the attempts fail in between.  The
  user owes nothing: not even to close a chat.
- `DesktopTranscript`: a broken socket is noticed and replaced, an event or an
  answer is handled; the feed answers in the end (strong fairness: a request may
  fail and is made again at the next recovery).
- `DesktopCalls`: timers fire and events that are not lost are handled; the
  user, the other side and the prompts owe nothing.
- `MobileChat` has no liveness property and no fairness: nothing in the store
  makes a recovery begin after it has failed.

What each property is about is stated above it in its module.  Some need a
word here.  `EventuallySettled` excuses a request whose delivery is held by a
handler that raised in its own except branch: the code leaves it unacknowledged,
and only a restart brings it back.  `CacheHeals` speaks of the time after the
last change and allows a list that lacks a group: what it excludes is a user
trusted for ever after having left.  `Answered` excludes no failure; it says
that the lock, the promise in flight and its waiters never wait on each other.
`Converges` (desktop) and `Converged` (mobile) leave aside the behaviours their
history variables mark, which section 5 lists: what is claimed is that nothing
else goes wrong.  `OwnMessages` likewise leaves aside a token or an upload that
was awaited across a sign-out.  `PresenceHeals` is about the end: a user who is
connected is shown offline for as long as a heartbeat takes.

## 4. Proofs

TLAPS checks every theorem for all values of the constants under the
assumptions the modules name: handlers form a finite set with a host each,
limits and bounds are natural numbers, the values that stand for "nothing" are
outside the sets they extend, the recipients of a message are users, a device
without web locks has one window, no call is both placed and received, a user
sends finitely many messages, and a socket names one session.

| Module | Theorems | Inductive invariant and why it is needed |
|---|---|---|
| `MessagePipelineProofs` | `TypeCorrect`, `OnceCorrect`, `AckCorrect`, `LossCorrect`, `FailedCorrect`, `PipelineImplementsStore` | `OnceInv` adds to one-row-per-id that rows and dedup keys agree (`StoreInv`), that open transactions have ids of their own and at most one holds a key that is free in the table (`DraftInv`), and that what is about to be published is committed (`PublishInv`); without the second, two open transactions could both commit. `RetryInv` bounds `retry_count` by the exceptions that led to it. `SentInv` gives the refinement its `requested`. `NoSilentLoss` rests on `OnceInv`: what a handler publishes has been committed. `FailedCorrect` (a request is refused only after every retry, or for want of membership) has no run of its own |
| `DeliveryReceiptsProofs` | `ReceiptTypes`, `NoFalseDeliveryCorrect`, `ReadReceiptCorrect`, `NeverUndeliveredCorrect` | `EarnedInv`: a row says no more than its user did, and what an open transaction has computed will be earned once it has committed, although it read rows others are changing; `MarkedInv`: an aggregate past `persisted` comes from receipts that all are, so that no stale transaction can write less |
| `ConversationMembershipProofs` | `MembershipTypes`, `TrustCorrect`, `AdminCorrect` | `TrustInv` covers the readings sessions and sockets carry; `AdminInv`: the creator is the only admin there can be, so the promotion of another member in `remove_member` is unreachable |
| `ClientSessionProofs` | `SessionTypes`, `NoReuseCorrect`, `LoginKeptCorrect`, `RecoverableCorrect` | `Mutex`: one window past the lock; `RotationInv`: until an answer is lost, what is carried is what the server accepts, and the store is behind only while the replacement is on its way; `CauseInv`: who is about to end the login has a reason |
| `DesktopCallsProofs` | `CallTypes`, `OfferCorrect`, `CandidatesCorrect`, `InviteCorrect`, `SignalCorrect`, `MediaCorrect` | `CallInv`: the events under way and the promises of the peers are of calls the server knows to be that far, and a placed call is prompted for and invited once; `InviteInv`: a received call the client knows is not new at the server, the call in the store is a known one, and the timers are of calls that are over; without the last an old timer could take a ringing call out of the store unnoticed. `SignalInv` (what the client keeps agrees with what the server has sent and has still to hear) has no run of its own; with it `CalmInv` strengthens `MediaFollowsCall`: a placed call's prompt is answered while it rings out and nothing captures, a received call that is connected has its stream and rings no more, and a timer waits for the call of the store only once that call has ended |
| `DesktopSocketProofs` | `SocketTypes`, `SingleSocket`, `MessagesAreOwn` | `SocketInv`: a token is awaited once and only while there is no socket, a timer waits only while none is open, a socket exists only while someone is signed in; `OwnInv`: until something comes back after its sign-in has ended, the live connection and the outbox belong to who is signed in |
| `MobileChatProofs` | `TypeCorrect`, `ShownOnce`, `BadgeCounts`, `Recovered` | `ChatInv`: events, pages and snapshots say what the log says up to where they were made, and a list has one row per message, the copies of the synchronisation included. `CountInv`: a message that was counted has a row or is known to be deleted, so that nothing brings it as new again. `ReplayInv`: every change up to the cursor has been applied, and once a recovery that began after the connection has ended every later one is applied or on its way, which is why the cursor may be stored. `ShownInv`: what has been applied is what is shown, unless an entry was left out |
| `DesktopTranscriptProofs` | `TranscriptTypes`, `TranscriptOnce`, `CursorCorrect` | `TranscriptInv`: the transcript and a page of history that has come repeat no message (an older page and a page of the feed may, because they are merged row by row). That the newest page repeats none follows from the log: a message is listed at the entry that created it. `CursorInv`, for `CursorKept`: a page of the feed starts no later than the cursor, has a row for each entry after it and is as new as its last entry; a message the server has was sent before, and an optimistic row is older than the message made of it. By the last an entry is in scope whenever its message is shown, so the cursor may pass what is left out |
| `ConversationMembershipProofs`, second half | `PresenceTypes` | of `Presence`, taken in as `P`: the types are inductive, and since they are proved no run checks them; what is said of presence is about what it comes to, and is model-checked |

The refinement is proved step by step: every action of the pipeline maps to an
action of `MessageStore` or leaves `sent`, `rows`, `acked` and `failed` alone.

Only model-checked:

- `EventuallySettled`, `EventuallyRecorded`, `CacheHeals`, `JoinsHeal`,
  `Answered`, `OverLeaves`, `Settles`, `PresenceHeals`, `GoneHeals`,
  `Converges`: liveness under fairness is out of the prover's reach.

The induction theorems of the library take an operator as a parameter, which the
provers cannot instantiate.  Where `MobileChatProofs` and
`DesktopTranscriptProofs` need induction (a page of any length, a log of any
length) they argue by a least counterexample: `Least` and `Minimum` say that a
nonempty set of numbers has a least member, `Induct` and `UpTo` that a set with 0
which goes on from each number to the next holds them all.  What is done row by
row is therefore a recursive function (`Pass`, `MergeAll`, `Those`, `Newest`), and
`PassExists` and `Recursion` show that there is one that satisfies its equation.

## 5. Where code and documentation disagree

Three runs end in the violation of what a document or a comment says; the
findings in `PROJECT.json` quote it.

- A removed member's socket stays in the room (`SESSIONS_S3_REALTIME.md:126`).
- Delivery ticks move back: a page or an event older than the row replaces it
  (`desktop/src/api/message-cache.ts:128`, against
  `desktop/src/realtime/RealtimeProvider.tsx:41`).
- A chat that was closed is reported again after a reconnection
  (`desktop/src/features/chat/ChatScreen.tsx:56`).  The value that stays behind also
  suppresses the badge of that chat (`RealtimeProvider.tsx:35-37`, `101-103`).

Noted while modelling, not stated as a property:

- `message_queued` is sent before RabbitMQ has accepted anything, and a
  `client_message_id` used by another sender is acknowledged with the other
  sender's message (`SESSIONS_S3_REALTIME.md:124`).
- A `mark_delivered` that loaded its row before a `mark_read` committed can
  write the receipt back to delivered (`app/messages/service.py:332`).
- An access token is used by other callers between its assignment and the
  storing of its refresh token, against `session.ts:78-80`.
- After a lost answer the next refresh presents the same token again, which is
  a replay when the server had rotated it (`session.ts:16-17`).
- A forced refresh consults the expiry clock (`desktop/src/api/session.ts:181`).
- A sign-out whose request failed can be undone by a refresh in flight that
  stores its token afterwards (`stores/auth.ts:58-60` speaks of this device's
  credentials only).
- A start while the server cannot be reached shows the login screen
  (`stores/auth.ts:83`), although the stored session is kept.
- A request can be reported with `message_failed` although a copy of it was
  stored: `MessageStore` allows it, because copies are retried independently.
- The promotion of another admin in `remove_member` cannot be reached.
- Presence: the end of a replaced socket sets a user offline who has reconnected
  (`app/presence/service.py:58`) until the next heartbeat, which tells nobody.
- Calls: the 1.2 second timer of a call that is over clears the store whatever
  call is in it (`call-engine.ts:149`, against the check at line 180).
- The change feed: a page that overtakes the feed leaves a gap
  (`change-feed.ts:66-72`).
- Sign-outs: an upload that ends after a sign-out sends its message under the
  next sign-in, and a refresh that ends after it can hand the old token to the
  new socket.
- Mobile chat store: `syncConversations` writes back copies older than what came
  meanwhile (`chatStore.ts:1076`); an entry is left out when the only row shown is an
  optimistic one that is newer, or when an entry before it in the page has
  deleted the oldest row shown (`chatStore.ts:1164`); `loadOlderMessages`
  and a start drop or restore what changed while they waited.

## 6. What is not modelled

- Payloads: texts, attachments, titles, validation errors, push notifications,
  analytics.  No property tells them apart.
- The rate limiter: a refused request is one that was not sent.
- Authentication, storage, migrations, the user interface and the Tauri shell:
  sequential, pure I/O, or without shared protocol state.
- The notification and analytics queues: the same retry code as the message
  queue, and nothing reads what they produce.
- Partition maintenance: an idempotent call of a database function.
- A broker connection that drops while its worker lives on (aio-pika's robust
  reconnection); a crash of the worker has the same effect on its deliveries.
- Message history, search, edit and delete at the server: sequential reads and
  single-row writes.  Their hazards (a partly filled cache taken for a page,
  catch-up by id) are listed without a property.
- The maps of the connection manager, the instances of a room, typing and last
  seen.  `ConversationMembership` has the rooms of the sockets it needs.
- In `ClientSession`, a new sign-in on the device; `DesktopSocket` has it, with
  the session reduced to tokens that come or do not.
- On the desktop: badges, previews and pins of the list, several open
  conversations, a second device of a user, a sign-out during a call, switches
  of microphone and camera, groups of callers.
- On mobile: the session and the socket, which follow the desktop's protocol
  with one process; the calls, which have the desktop's signalling with other
  media adapters; in the chat store, edits, deletion, search, call summaries,
  and a recovery that overlaps another.
- `mobile/dist-web` and `mobile/.preview-web` are bundles built from the mobile
  sources.

## 7. Plan

The order is that of importance.  Done, each with its run: `MessageStore` and
`MessagePipeline`, `DeliveryReceipts`, `ConversationMembership`,
`ClientSession`, `DesktopCalls`, `DesktopTranscript`, `DesktopSocket`,
`Presence`, `MobileChat`; all have proofs, and what is not proved is liveness.

What is left:

| Next | Of | Questions | Form |
|---|---|---|---|
| 1 | history and catch-up at the server | is the first page the newest; does catch-up miss a message committed late | a module over 3 messages and a page of 2 |
| 2 | connection manager | do its maps agree when a send fails under a running handler | a module over 2 sockets and 2 rooms |
| 3 | mobile socket, session and calls | what they lack beside the desktop's | the desktop modules' questions asked of the mobile code |

`DesktopTranscript` and `DesktopSocket` meet at the reconnection: what the first
abstracts as `link`, `retrying` and `outbox` is the second's state.  `Presence`
meets `MessagePipeline` at one place, the worker's decision whom to notify.
