-------------------------- MODULE DesktopTranscript --------------------------
(***************************************************************************)
(* The transcript of one open conversation in the desktop client.  Three   *)
(* sources write to it and none waits for another: the rows the user sends *)
(* (optimistic), the events of the socket, and REST: the first page, an    *)
(* older page, and the change feed, replayed from a stored cursor.  All    *)
(* writes go through message-cache.ts.                                     *)
(*                                                                         *)
(* The server is kept to what the client can see of it.  Its log is the    *)
(* change feed: an entry names a message created, edited, deleted or       *)
(* pinned, and the version of a message is its last entry.  The feed and   *)
(* the pages carry the version current when the server answers, an event   *)
(* the one it was published for.  A request may be stored, reported failed *)
(* or both, and may be lost.                                               *)
(***************************************************************************)
EXTENDS Integers, FiniteSets, Sequences

CONSTANTS
  Mine,        \* messages this user may send
  Others,      \* messages others may send
  Slot,        \* recoverConversation calls that may run at once
  PageSize,    \* rows of a page of history
  FeedSize,    \* entries of a page of the feed
  MaxPages,    \* MAX_PAGES: pages one recoverConversation asks for
  MaxLog,      \* bound: changes
  MaxDelivery, \* bound: how far a delivery state goes, 2 delivered, 3 read
  Notices,     \* bound: what the server tells of a request, of "sending" and "failed"
  MaxSkew,     \* bound: by how many changes of the log the user's clock is ahead
  MaxTicks,    \* bound: changes of a delivery state and notices
  MaxFaults    \* bound: connections lost and restarts of the application

Msg == Mine \cup Others

ASSUME MsgAssumption == Mine \cap Others = {}
ASSUME SizeAssumption ==
  PageSize \in Nat \ {0} /\ FeedSize \in Nat \ {0} /\ MaxPages \in Nat \ {0}
ASSUME BoundAssumption ==
  /\ IsFiniteSet(Mine) /\ MaxLog \in Nat /\ MaxDelivery \in 1..3
  /\ Notices \subseteq {"sending", "failed"} /\ MaxSkew \in Nat
  /\ MaxTicks \in Nat /\ MaxFaults \in Nat

VARIABLES
  cache,      \* the transcript, <<>> also before anything is loaded
  cursor,     \* the stored cursor of the feed
  typed,      \* Mine messages that have been sent by the user
  link,       \* the socket: down, up, or dead, that is broken and not noticed
  retrying,   \* attempt > 0: the next connection is a reconnect
  outbox,     \* frames that wait for the socket
  inbox,      \* events on their way
  page,       \* the fetch of the first page
  older,      \* the fetch of an older page
  feed,       \* feed[s]: a page of the feed that recoverConversation awaits
  log,        \* server: the changes
  delivery,   \* server: delivery[m], 1 sent, 2 delivered, 3 read
  accepted,   \* server: sent messages it has and has not yet persisted
  ticks,      \* server: changes of a delivery state and notices so far
  faults,     \* connections lost and restarts so far
  ahead,      \* history: a message was sent by a clock ahead of the server's
  overtaken   \* history: something older than the cursor has been written

connVars == <<link, retrying, outbox>>
serverVars == <<log, delivery, accepted, ticks>>
fetchVars == <<page, older, feed>>
historyVars == <<faults, ahead, overtaken>>
vars == <<cache, cursor, typed, connVars, inbox, fetchVars, serverVars, historyVars>>

None == [at |-> "none"]
Asked == [at |-> "asked"]

\* time is createdAt: twice the entry of the creation, odd for the user's clock.
\* delivery is the rank of DELIVERY_RANK: failed, sending, sent, delivered, read.
Row == [msg: Msg, id: BOOLEAN, ver: 0..MaxLog, delivery: -1..3, pending: BOOLEAN, time: Nat]
Event == [kind: {"row", "ack", "delivery", "sending", "failed"}, row: Row]
Answer == [at: {"here"}, rows: Seq(Row)]
Fetch == {None, Asked} \cup Answer
OlderFetch == {None} \cup [at: {"asked"}, offset: Nat] \cup Answer
\* left: the pages recoverConversation may still ask for after this one.
FeedFetch == {None} \cup [at: {"asked"}, from: 0..MaxLog, left: Nat]
             \cup [at: {"here"}, next: 0..MaxLog, more: BOOLEAN, rows: Seq(Row), left: Nat]

TypeOK ==
  /\ cache \in Seq(Row)
  /\ cursor \in 0..MaxLog
  /\ typed \subseteq Mine
  /\ link \in {"down", "up", "dead"}
  /\ retrying \in BOOLEAN
  /\ outbox \in Seq(Mine)
  /\ inbox \in Seq(Event)
  /\ page \in Fetch
  /\ older \in OlderFetch
  /\ feed \in [Slot -> FeedFetch]
  /\ log \in Seq(Msg) /\ Len(log) <= MaxLog
  /\ delivery \in [Msg -> 1..3]
  /\ accepted \subseteq Mine
  /\ ticks \in 0..MaxTicks
  /\ faults \in 0..MaxFaults
  /\ ahead \in BOOLEAN
  /\ overtaken \in BOOLEAN

\* The conversation is opened: its page is fetched, and the feed replayed.
Init ==
  /\ cache = <<>>
  /\ cursor = 0
  /\ typed = {}
  /\ link = "down"
  /\ retrying = FALSE
  /\ outbox = <<>>
  /\ inbox = <<>>
  /\ page = Asked
  /\ older = None
  /\ feed = [s \in Slot |-> None]
  /\ log = <<>>
  /\ delivery = [m \in Msg |-> 1]
  /\ accepted = {}
  /\ ticks = 0
  /\ faults = 0
  /\ ahead = FALSE
  /\ overtaken = FALSE

-----------------------------------------------------------------------------
(* The server's view. *)

Exists(m) == \E i \in 1..Len(log) : log[i] = m
LastUpTo(m, n) == CHOOSE i \in 1..n : log[i] = m /\ \A j \in i + 1..n : log[j] # m
Version(m) == LastUpTo(m, Len(log))
Created(m) == CHOOSE i \in 1..Len(log) : log[i] = m /\ \A j \in 1..i - 1 : log[j] # m
ServerRow(m) ==
  [msg |-> m, id |-> TRUE, ver |-> Version(m), delivery |-> delivery[m], pending |-> FALSE,
   time |-> 2 * Created(m)]

\* The messages that exist, the oldest first.
Oldest ==
  LET upTo[n \in 0..Len(log)] ==
        IF n = 0 THEN <<>>
        ELSE IF Created(log[n]) = n THEN Append(upTo[n - 1], log[n])
        ELSE upTo[n - 1]
  IN upTo[Len(log)]

\* The rows of at most n entries of ms, after the first k.
Rows(ms, k, n) ==
  LET part == SubSeq(ms, k + 1, IF k + n < Len(ms) THEN k + n ELSE Len(ms))
  IN [i \in DOMAIN part |-> ServerRow(part[i])]

\* list_messages past offset 0: by creation, ascending.
ListPage(offset) == [at |-> "here", rows |-> Rows(Oldest, offset, PageSize)]

\* A page of the feed: each message changed in it, once for every change.
FeedPage(from, left) ==
  LET n == IF from + FeedSize < Len(log) THEN from + FeedSize ELSE Len(log)
  IN [at |-> "here", next |-> n, more |-> n < Len(log), rows |-> Rows(log, from, FeedSize),
      left |-> left]

-----------------------------------------------------------------------------
(* message-cache.ts. *)

\* A bug: an optimistic row has no id to be found by.
sameId(a, b) == a.msg = b.msg /\ a.id /\ b.id

\* By id, or by client message id: both are those of the message.
sameMessage(a, b) == a.msg = b.msg

mergeMessage(list, row) ==
  IF \E i \in DOMAIN list : sameMessage(list[i], row)
  THEN LET first == CHOOSE i \in DOMAIN list :
                      sameMessage(list[i], row) /\ \A j \in 1..i - 1 : ~ sameMessage(list[j], row)
       IN [list EXCEPT ![first] = row]
  ELSE Append(list, row)

MergeAll(list, rows) ==
  LET at[n \in 0..Len(rows)] == IF n = 0 THEN list ELSE mergeMessage(at[n - 1], rows[n])
  IN at[Len(rows)]

\* What a sequence has at the places of keep.
Those(seq, keep) ==
  LET upTo[n \in 0..Len(seq)] ==
        IF n = 0 THEN <<>>
        ELSE IF n \in keep THEN Append(upTo[n - 1], seq[n])
        ELSE upTo[n - 1]
  IN upTo[Len(seq)]

\* The rows of the newer snapshot, then those it does not contain.
mergeMissing(previous, next) ==
  next \o Those(previous, {i \in DOMAIN previous :
                            \A j \in DOMAIN next : ~ sameMessage(next[j], previous[i])})

\* The rows of m as patched, the others as they are.
patchMessage(m, patched) ==
  [i \in DOMAIN cache |-> IF cache[i].msg = m THEN patched[i] ELSE cache[i]]

\* list_messages at offset 0: the stored messages that the recent list in Redis
\* names, whatever additions, expiry and invalidations have left in it, and the
\* oldest when it names none.
FirstPage(keep) ==
  LET ms == Those(Oldest, keep) IN [at |-> "here", rows |-> Rows(ms, 0, PageSize)]

\* The tick marks go forward only.
advanceDelivery(current, incoming) == IF incoming > current THEN incoming ELSE current

\* A bug: the optimistic row of the message is not looked at.
isKnown(row, loaded) ==
  loaded = <<>> \/ \E i \in DOMAIN loaded : loaded[i].id /\ loaded[i].msg = row.msg

\* A row is in scope when it is known, or not older than the oldest shown.
isInScope(row, loaded) ==
  \/ loaded = <<>>
  \/ \E i \in DOMAIN loaded : loaded[i].id /\ loaded[i].msg = row.msg
  \/ \E i \in DOMAIN loaded : loaded[i].time <= row.time

Stale(row) == \E i \in DOMAIN log : i <= cursor /\ log[i] = row.msg /\ i > row.ver
Overtakes(rows) == overtaken' = (overtaken \/ \E i \in DOMAIN rows : Stale(rows[i]))

-----------------------------------------------------------------------------
(* The socket. *)

Live == link = "up"

\* realtime.send of the message: a socket that is dead and not noticed looks open.
SendFrame(m) ==
  /\ accepted' = IF link = "up" THEN accepted \cup {m} ELSE accepted
  /\ outbox' = IF link = "down" THEN Append(outbox, m) ELSE outbox

\* What the user's clock may tell: nothing ties it to the server's.
ClientTime == {2 * k + 1 : k \in 0..Len(log) + MaxSkew}

\* sendMessage: the optimistic row, at the time the user's own clock tells, then
\* the frame.
Send(m, t) ==
  /\ m \in Mine \ typed
  /\ typed' = typed \cup {m}
  /\ cache' = mergeMessage(cache, [msg |-> m, id |-> FALSE, ver |-> 0, delivery |-> 0,
                                   pending |-> TRUE, time |-> t])
  /\ ahead' = (ahead \/ t > 2 * Len(log) + 1)
  /\ SendFrame(m)
  /\ UNCHANGED <<cursor, link, retrying, inbox, fetchVars, log, delivery, ticks, faults,
                 overtaken>>

Breaks ==
  /\ link = "up"
  /\ faults < MaxFaults
  /\ link' = "dead"
  /\ inbox' = <<>>
  /\ faults' = faults + 1
  /\ UNCHANGED <<cache, cursor, typed, retrying, outbox, fetchVars, serverVars, ahead, overtaken>>

\* onclose, or an attempt that fails: scheduleRetry.
Closed ==
  /\ link = "dead" \/ (link = "down" /\ ~ retrying)
  /\ link' = "down"
  /\ retrying' = TRUE
  /\ UNCHANGED <<cache, cursor, typed, outbox, inbox, fetchVars, serverVars, historyVars>>

\* recoverConversation begins; beyond Slot calls at once are not modelled.
Recover ==
  IF \E s \in Slot : feed[s] = None
  THEN feed' = [feed EXCEPT ![CHOOSE s \in Slot : feed[s] = None] =
                  [at |-> "asked", from |-> cursor, left |-> MaxPages - 1]]
  ELSE UNCHANGED feed

\* onopen: the outbox is flushed; a reconnect replays the feed and fetches the
\* page again, instead of any fetch in progress.
Opens ==
  /\ link = "down"
  /\ link' = "up"
  /\ retrying' = FALSE
  /\ outbox' = <<>>
  /\ accepted' = accepted \cup {outbox[i] : i \in DOMAIN outbox}
  /\ IF retrying THEN Recover /\ page' = Asked ELSE UNCHANGED <<feed, page>>
  /\ UNCHANGED <<cache, cursor, typed, inbox, older, log, delivery, ticks, historyVars>>

\* A row of the server is written: ingest and its like.
HandleRow ==
  /\ cache' = mergeMessage(cache, Head(inbox).row)
  /\ Overtakes(<<Head(inbox).row>>)

\* message_persisted_ack binds the client id to the id.
HandleAck ==
  /\ cache' = patchMessage(Head(inbox).row.msg,
                [i \in DOMAIN cache |->
                   [cache[i] EXCEPT !.id = TRUE, !.delivery = 1, !.pending = FALSE]])
  /\ UNCHANGED overtaken

HandleDelivery ==
  /\ cache' = patchMessage(Head(inbox).row.msg,
                [i \in DOMAIN cache |->
                   IF cache[i].id
                   THEN [cache[i] EXCEPT !.delivery =
                           advanceDelivery(@, Head(inbox).row.delivery)]
                   ELSE cache[i]])
  /\ UNCHANGED overtaken

\* message_queued, and message_retrying while the conversation is the active one.
HandleSending ==
  /\ cache' = patchMessage(Head(inbox).row.msg,
                [i \in DOMAIN cache |-> [cache[i] EXCEPT !.delivery = 0]])
  /\ UNCHANGED overtaken

\* message_failed.
HandleFailed ==
  /\ cache' = patchMessage(Head(inbox).row.msg,
                [i \in DOMAIN cache |-> [cache[i] EXCEPT !.delivery = -1, !.pending = FALSE]])
  /\ UNCHANGED overtaken

Handle ==
  /\ link = "up"
  /\ inbox # <<>>
  /\ inbox' = Tail(inbox)
  /\ CASE Head(inbox).kind = "row" -> HandleRow
       [] Head(inbox).kind = "ack" -> HandleAck
       [] Head(inbox).kind = "delivery" -> HandleDelivery
       [] Head(inbox).kind = "sending" -> HandleSending
       [] Head(inbox).kind = "failed" -> HandleFailed
  /\ UNCHANGED <<cursor, typed, connVars, fetchVars, serverVars, faults, ahead>>

-----------------------------------------------------------------------------
(* REST. *)

\* A remount finds the transcript stale.
Refetch ==
  /\ page = None
  /\ page' = Asked
  /\ UNCHANGED <<cache, cursor, typed, connVars, inbox, older, feed, serverVars, historyVars>>

PageAnswers ==
  /\ page = Asked
  /\ \E keep \in SUBSET DOMAIN Oldest :
       /\ Oldest # <<>> => keep # {}
       /\ page' = FirstPage(keep)
  /\ UNCHANGED <<cache, cursor, typed, connVars, inbox, older, feed, serverVars, historyVars>>

PageApplies ==
  /\ page.at = "here"
  /\ page' = None
  /\ cache' = mergeMissing(cache, page.rows)
  /\ Overtakes(page.rows)
  /\ UNCHANGED <<cursor, typed, connVars, inbox, older, feed, serverVars, faults, ahead>>

LoadOlder ==
  /\ older = None
  /\ \E i \in DOMAIN cache : cache[i].id
  /\ older' = [at |-> "asked", offset |-> Cardinality({i \in DOMAIN cache : cache[i].id})]
  /\ UNCHANGED <<cache, cursor, typed, connVars, inbox, page, feed, serverVars, historyVars>>

OlderAnswers ==
  /\ older.at = "asked"
  /\ older' = ListPage(older.offset)
  /\ UNCHANGED <<cache, cursor, typed, connVars, inbox, page, feed, serverVars, historyVars>>

OlderApplies ==
  /\ older.at = "here"
  /\ older' = None
  /\ cache' = MergeAll(cache, older.rows)
  /\ Overtakes(older.rows)
  /\ UNCHANGED <<cursor, typed, connVars, inbox, page, feed, serverVars, faults, ahead>>

\* The timer of a focused window, and reopening the conversation.
RecoverTimer ==
  /\ \E s \in Slot : feed[s] = None
  /\ Recover
  /\ UNCHANGED <<cache, cursor, typed, connVars, inbox, page, older, serverVars, historyVars>>

FeedAnswers(s) ==
  /\ feed[s].at = "asked"
  /\ feed' = [feed EXCEPT ![s] = FeedPage(feed[s].from, feed[s].left)]
  /\ UNCHANGED <<cache, cursor, typed, connVars, inbox, page, older, serverVars, historyVars>>

FeedFails(s) ==
  /\ feed[s].at = "asked"
  /\ feed' = [feed EXCEPT ![s] = None]
  /\ UNCHANGED <<cache, cursor, typed, connVars, inbox, page, older, serverVars, historyVars>>

\* A bug: the cursor is that of the entry to come.
setCursorPast(n) == cursor' = IF n >= cursor THEN n + 1 ELSE cursor

\* A bug: the cursor is set to where the log ends, not to where this page does.
setCursorToEnd(n) == cursor' = Len(log)

\* setCursor never goes back.
setCursor(n) == cursor' = IF n > cursor THEN n ELSE cursor

\* A page of the feed: scope is judged by the transcript before it.
FeedApplies(s) ==
  /\ feed[s].at = "here"
  /\ feed' = [feed EXCEPT ![s] =
                IF @.more /\ @.left > 0
                THEN [at |-> "asked", from |-> @.next, left |-> @.left - 1]
                ELSE None]
  /\ setCursor(feed[s].next)
  /\ UNCHANGED <<typed, connVars, inbox, page, older, serverVars, faults, ahead>>
  /\ LET entries == feed[s].rows
         rows == Those(entries, {i \in DOMAIN entries : isInScope(entries[i], cache)})
     IN cache' = MergeAll(cache, rows) /\ Overtakes(rows)

\* The window is closed and opened again: only the cursor was stored.
Restart ==
  /\ faults < MaxFaults
  /\ faults' = faults + 1
  /\ cache' = <<>>
  /\ link' = "down"
  /\ retrying' = FALSE
  /\ outbox' = <<>>
  /\ inbox' = <<>>
  /\ page' = Asked
  /\ older' = None
  /\ feed' = [s \in Slot |-> None]
  /\ UNCHANGED <<cursor, typed, serverVars, ahead, overtaken>>

-----------------------------------------------------------------------------
(* The server and the other users.  Any event may be lost on its way. *)

Publish(events) ==
  \E kept \in SUBSET DOMAIN events :
    /\ kept # {} => Live
    /\ inbox' = inbox \o Those(events, kept)

ToRow(m, kind) ==
  [kind |-> kind,
   row |-> [msg |-> m, id |-> TRUE, ver |-> Len(log) + 1, delivery |-> delivery[m],
            pending |-> FALSE,
            time |-> 2 * (IF Exists(m) THEN Created(m) ELSE Len(log) + 1)]]

\* Room is left for the messages that are still to come from this user.
Room == Len(log) + Cardinality({m \in Mine : ~ Exists(m)}) < MaxLog

\* persist_ingress_message and the two events that follow it.
Persist(m) ==
  /\ m \in accepted
  /\ ~ Exists(m)
  /\ Len(log) < MaxLog
  /\ log' = Append(log, m)
  /\ accepted' = accepted \ {m}
  /\ Publish(<<ToRow(m, "row"), ToRow(m, "ack")>>) \/ Publish(<<ToRow(m, "ack"), ToRow(m, "row")>>)
  /\ UNCHANGED <<delivery, ticks>>

\* A request taken by the gateway, tried again or given up; several copies of it
\* may be in the queue, so any of these can come after the message is stored.
Notice(m, kind) ==
  /\ m \in accepted \/ (m \in Mine /\ Exists(m))
  /\ ticks < MaxTicks
  /\ ticks' = ticks + 1
  /\ Publish(<<[kind |-> kind,
                row |-> [msg |-> m, id |-> FALSE, ver |-> 0, delivery |-> 0,
                         pending |-> FALSE, time |-> 0]]>>)
  /\ UNCHANGED <<log, delivery, accepted>>

\* Another user's message, or a change of one that exists.
Change(m) ==
  /\ Exists(m) \/ m \in Others
  /\ Room
  /\ log' = Append(log, m)
  /\ Publish(<<ToRow(m, "row")>>)
  /\ UNCHANGED <<delivery, accepted, ticks>>

Advance(m) ==
  /\ m \in Mine
  /\ Exists(m)
  /\ delivery[m] < MaxDelivery
  /\ ticks < MaxTicks
  /\ delivery' = [delivery EXCEPT ![m] = @ + 1]
  /\ ticks' = ticks + 1
  /\ Publish(<<[kind |-> "delivery", row |-> [ServerRow(m) EXCEPT !.delivery = delivery[m] + 1]]>>)
  /\ UNCHANGED <<log, accepted>>

Server(m) ==
  /\ \/ Persist(m) \/ Change(m) \/ Advance(m)
     \/ \E kind \in Notices : Notice(m, kind)
  /\ UNCHANGED <<cache, cursor, typed, connVars, fetchVars, historyVars>>

-----------------------------------------------------------------------------

Next ==
  \/ \E m \in Msg : Server(m) \/ \E t \in ClientTime : Send(m, t)
  \/ Breaks \/ Closed \/ Opens \/ Handle
  \/ Refetch \/ PageAnswers \/ PageApplies
  \/ LoadOlder \/ OlderAnswers \/ OlderApplies
  \/ RecoverTimer
  \/ \E s \in Slot : FeedAnswers(s) \/ FeedFails(s) \/ FeedApplies(s)
  \/ Restart

Spec == Init /\ [][Next]_vars

\* The window is focused again and again, and the feed is asked then; a request of
\* it may fail, but not for ever.  Nothing is assumed of the socket and its events,
\* of the pages of history, or of the server: what is sent need not be stored.
Fairness ==
  /\ WF_vars(RecoverTimer)
  /\ \A s \in Slot : SF_vars(FeedAnswers(s)) /\ WF_vars(FeedApplies(s))

FairSpec == Spec /\ Fairness

-----------------------------------------------------------------------------
(* Properties. *)

\* "Any two of them can describe the same message" (message-cache.ts:10): it is
\* shown once, in whatever order its optimistic row, its acknowledgement, its
\* event, a page and the feed are written.
NoDuplicates == \A i, j \in DOMAIN cache : cache[i].msg = cache[j].msg => i = j

\* The cursor is persisted "only after the whole page is applied" (change-feed.ts:113),
\* and an entry that is out of scope is not applied: even so no row that is shown is
\* older than a change the cursor has passed.  That needs the user's clock not to be
\* ahead of the server's: an optimistic row dated later than the message stored from
\* it puts that message's own entry out of scope.  And it excepts the case that a
\* row that was already older was written over a newer one.
CursorKept == ~ overtaken /\ ~ ahead => \A k \in 1..Len(cache) : ~ Stale(cache[k])

Pending(m) == \E i \in DOMAIN cache : cache[i].msg = m /\ cache[i].pending
Current == \A i \in DOMAIN cache : cache[i].id => cache[i].ver = Version(cache[i].msg)

\* Lost events, lost connections and restarts are made good (recoverConversation,
\* onReconnected, the timer): in the end every row that has its id is the current
\* one, and no message the server has stored is still shown as being sent, with
\* the same two exceptions.
Converges ==
  <>[](\/ Current /\ \A m \in Mine : Exists(m) => ~ Pending(m)
       \/ overtaken \/ ahead)

\* "Delivery only ever moves forward" (message-cache.ts:128).
DeliveryForward ==
  [][\A i \in DOMAIN cache, j \in DOMAIN cache' :
        cache[i].msg = cache'[j].msg => cache'[j].delivery >= cache[i].delivery]_vars

=============================================================================
