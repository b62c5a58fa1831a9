----------------------------- MODULE MobileChat -----------------------------
(***************************************************************************)
(* One conversation in the mobile client's chat store, with its unread     *)
(* badge.  Its messages are written by the user (optimistic rows), by the  *)
(* events of the socket, by the change feed, and, as whole lists, by pages *)
(* of history, by the start of the application and by the synchronisation  *)
(* of the conversation list, which writes back the copies it took before   *)
(* its last request.  Only the badge and the cursor of the feed outlive    *)
(* the application.                                                        *)
(*                                                                         *)
(* The server's log of changes is what the feed hands out; a page of       *)
(* history may hold any part of the conversation.  An edit is applied as   *)
(* the creation is, and left out; a frame written to an open socket        *)
(* arrives.                                                                *)
(***************************************************************************)
EXTENDS Naturals, FiniteSets, Sequences

CONSTANTS
  Mine,        \* messages this user may send
  Others,      \* messages others may send
  FeedSize,    \* entries of a page of the feed
  MaxPages,    \* pages of one recovery
  MaxSkew,     \* bound: how far the user's clock is ahead, in entries of the log
  MaxLog,      \* bound: changes
  MaxFaults    \* bound: connections lost, restarts, events published again, messages
               \* both stored and given up, and synchronisations that find a new
               \* conversation

Msg == Mine \cup Others

ASSUME MsgAssumption == Mine \cap Others = {}
ASSUME BoundAssumption ==
  /\ FeedSize \in Nat \ {0} /\ MaxPages \in Nat \ {0}
  /\ MaxSkew \in Nat /\ MaxLog \in Nat /\ MaxFaults \in Nat

VARIABLES
  rows,       \* messagesByChat
  unread,     \* unreadByChatId, persisted
  cursor,     \* changeCursorByChat, persisted
  listed,     \* the conversation is in chats
  open,       \* the conversation is active and the application visible
  loaded,     \* loadedMessageLimitByChat > 0
  mine,       \* mine[m]: where a message of the user is on its way to the log
  up,         \* the socket is open
  inbox,      \* events on their way
  boot,       \* initializeForSession
  older,      \* loadOlderMessages
  feed,       \* recoverConversationChanges; a second call at once is not modelled
  sync,       \* syncConversations, from its snapshot on
  log,        \* server: the changes
  faults,
  newest,     \* history: how far the written state of a message has come
  raced,      \* history: something older was written over something newer
  missing,    \* history: messages a page lacked, the feed left out as out of scope, or
              \* a late message_failed took back
  fresh,      \* history: a recovery begun after the last connection has come to its end
  base,       \* history: the badge when counting began
  counted     \* history: messages counted since the start, since the badge was cleared,
              \* or since a page lacked one of them

viewVars == <<listed, open, loaded>>
fetchVars == <<boot, older, feed, sync>>
historyVars == <<newest, raced, missing, base, counted>>
vars == <<rows, unread, cursor, viewVars, mine, up, inbox, fetchVars, log, faults,
          historyVars, fresh>>

None == [at |-> "none"]

\* time is createdAt: twice the entry of the creation, odd by the user's clock.
Row == [msg: Msg, id: BOOLEAN, time: 0..2 * (MaxLog + MaxSkew) + 1]
\* A row of the server, which may be that of a deleted message.
Item == [row: Row, deleted: BOOLEAN]
Event == [kind: {"new", "changed", "ack", "failed"}, item: Item]
Change == [msg: Msg, kind: {"create", "delete"}]
\* A list of rows and the number of changes it reflects.
List == [at: {"here"}, rows: SUBSET Row, asof: 0..MaxLog]

TypeOK ==
  /\ rows \subseteq Row
  /\ unread \in Nat
  /\ cursor \in 0..MaxLog
  /\ listed \in BOOLEAN /\ open \in BOOLEAN /\ loaded \in BOOLEAN
  /\ mine \in [Mine -> {"new", "sending", "queued", "accepted", "stored", "refused", "done"}]
  /\ up \in BOOLEAN
  /\ inbox \in Seq(Event)
  /\ boot \in {None} \cup [at: {"list"}] \cup [at: {"latest"}, unread: Nat]
              \cup [at: {"here"}, unread: Nat, rows: SUBSET Row, asof: 0..MaxLog]
  /\ older \in {None} \cup [at: {"asked"}] \cup List
  /\ feed \in {None} \cup [at: {"asked"}, from: 0..MaxLog, left: 1..MaxPages, since: BOOLEAN]
              \cup [at: {"here"}, from: 0..MaxLog, left: 1..MaxPages, since: BOOLEAN, next: 0..MaxLog,
                    more: BOOLEAN, items: Seq(Item)]
  /\ sync \in {None} \cup [at: {"latest"}, own: BOOLEAN, rows: SUBSET Row, unread: Nat, loaded: BOOLEAN]
              \cup [at: {"here"}, own: {TRUE}, rows: SUBSET Row, asof: 0..MaxLog, unread: Nat,
                    loaded: BOOLEAN]
  /\ log \in Seq(Change) /\ Len(log) <= MaxLog
  /\ faults \in 0..MaxFaults
  /\ newest \in [Msg -> 0..2]
  /\ raced \in BOOLEAN /\ missing \subseteq Msg /\ fresh \in BOOLEAN
  /\ base \in Nat /\ counted \subseteq Others

Init ==
  /\ rows = {}
  /\ unread = 0
  /\ cursor = 0
  /\ listed = FALSE /\ open = FALSE /\ loaded = FALSE
  /\ mine = [m \in Mine |-> "new"]
  /\ up = FALSE
  /\ inbox = <<>>
  /\ boot = [at |-> "list"]
  /\ older = None /\ feed = None /\ sync = None
  /\ log = <<>>
  /\ faults = 0
  /\ newest = [m \in Msg |-> 0]
  /\ raced = FALSE /\ missing = {} /\ fresh = FALSE
  /\ base = 0 /\ counted = {}

-----------------------------------------------------------------------------
(* The server's view after the changes of l. *)

Exists(l, m) == \E i \in DOMAIN l : l[i].msg = m
Deleted(l, m) == \E i \in DOMAIN l : l[i] = [msg |-> m, kind |-> "delete"]
Created(l, m) == CHOOSE i \in DOMAIN l : l[i] = [msg |-> m, kind |-> "create"]
\* 0 not yet created, 1 there, 2 deleted.
State(l, m) == IF Deleted(l, m) THEN 2 ELSE IF Exists(l, m) THEN 1 ELSE 0
ServerRow(l, m) == [msg |-> m, id |-> TRUE, time |-> 2 * Created(l, m)]
ServerItem(l, m) == [row |-> ServerRow(l, m), deleted |-> Deleted(l, m)]
ServerRows(l) == {ServerRow(l, m) : m \in {x \in Msg : State(l, x) = 1}}

\* GET /messages/latest: nothing is shown when the newest message is deleted.
LatestRows(l) ==
  {r \in ServerRows(l) : \A m \in Msg : Exists(l, m) => Created(l, m) <= Created(l, r.msg)}

-----------------------------------------------------------------------------
(* The store's helpers. *)

\* By id or by client id: both are those of the message.
Same(r, m) == r.msg = m
SameId(r, m) == r.msg = m /\ r.id

\* applyApiMessage: what it makes of a list of rows.
ReplaceById(list, row) == {r \in list : ~ SameId(r, row.msg)} \cup {row}
replaceMessage(list, row) == {r \in list : ~ Same(r, row.msg)} \cup {row}
ApplyTo(list, item) ==
  IF item.deleted THEN {r \in list : ~ Same(r, item.row.msg)} ELSE replaceMessage(list, item.row)

\* ... and of the badge.
CountsAgain(item) == ~ item.deleted /\ item.row.msg \in Others
Counts(item) ==
  /\ ~ item.deleted
  /\ item.row.msg \in Others
  /\ ~ \E r \in rows : Same(r, item.row.msg)

Badge(incrementUnread, item) ==
  IF open THEN unread' = 0 /\ base' = 0 /\ counted' = {}
  ELSE IF incrementUnread /\ Counts(item)
  THEN unread' = unread + 1 /\ counted' = counted \cup {item.row.msg} /\ UNCHANGED base
  ELSE UNCHANGED <<unread, base, counted>>

\* What a write of these items means for the history, which ends with a race; those
\* of left are not written.
ItemState(item) == IF item.deleted THEN 2 ELSE 1
Upserts(items, left) ==
  LET last(m) == {i \in DOMAIN items : items[i].row.msg = m} IN
  /\ raced' = (raced \/ \E i \in DOMAIN items : ItemState(items[i]) < newest[items[i].row.msg])
  /\ newest' = [m \in Msg |-> IF raced' THEN 0
                              ELSE IF last(m) = {} THEN newest[m]
                              ELSE ItemState(items[CHOOSE i \in last(m) : \A j \in last(m) : j <= i])]
  /\ missing' = IF raced' THEN {}
                ELSE {m \in missing : last(m) = {}} \cup {items[i].row.msg : i \in left}

\* A whole list is written that reflects the changes up to asof only.
Overwrites(list, asof, same) ==
  LET l == SubSeq(log, 1, asof) IN
  /\ raced' = (raced \/ ~ same \/ \E m \in Msg : newest[m] > State(l, m))
  /\ newest' = [m \in Msg |-> IF raced' THEN 0 ELSE State(l, m)]
  /\ missing' = IF raced' THEN {} ELSE {m \in Msg : State(l, m) = 1 /\ ServerRow(l, m) \notin list}

\* A counted message that a list lacks may be counted again.
Recount(badge) ==
  IF counted \cap missing' = {} THEN UNCHANGED <<base, counted>>
  ELSE base' = badge /\ counted' = {}

\* markConversationRead
MarkRead == unread' = 0 /\ base' = 0 /\ counted' = {}

\* recoverConversationChanges begins.
Recovering ==
  IF feed = None THEN [at |-> "asked", from |-> cursor, left |-> MaxPages, since |-> TRUE] ELSE feed

-----------------------------------------------------------------------------
(* The user. *)

\* A step that is a fault if bad is true.
Fault(bad) == IF bad THEN faults < MaxFaults /\ faults' = faults + 1 ELSE UNCHANGED faults

Optimistic(m, ahead) == [msg |-> m, id |-> FALSE, time |-> 2 * (Len(log) + ahead) + 1]

\* sendMessage: the optimistic row, then the upload of an attachment.
SendMessage(m) ==
  /\ open
  /\ mine[m] = "new"
  /\ mine' = [mine EXCEPT ![m] = "sending"]
  /\ \E ahead \in 0..MaxSkew : rows' = rows \cup {Optimistic(m, ahead)} /\ Fault(ahead > 0)
  /\ UNCHANGED <<unread, cursor, viewVars, up, inbox, fetchVars, log, historyVars, fresh>>

\* send: a socket that is not open keeps the frame.
Uploaded(m) ==
  /\ mine[m] = "sending"
  /\ mine' = [mine EXCEPT ![m] = IF up THEN "accepted" ELSE "queued"]
  /\ UNCHANGED <<rows, unread, cursor, viewVars, up, inbox, fetchVars, log, faults, historyVars,
                 fresh>>

\* The row is taken back.
UploadFails(m) ==
  /\ mine[m] = "sending"
  /\ mine' = [mine EXCEPT ![m] = "done"]
  /\ rows' = {r \in rows : r.msg # m \/ r.id}
  /\ UNCHANGED <<unread, cursor, viewVars, up, inbox, fetchVars, log, faults, historyVars, fresh>>

\* setActiveConversationId, of a conversation in the list
Open ==
  /\ ~ open /\ listed
  /\ open' = TRUE
  /\ MarkRead
  /\ feed' = Recovering
  /\ older' = IF ~ loaded /\ older = None THEN [at |-> "asked"] ELSE older
  /\ UNCHANGED <<rows, cursor, listed, loaded, mine, up, inbox, boot, sync, log, faults,
                 newest, raced, missing, fresh>>

\* The conversation is left, or the application goes into the background.
Close ==
  /\ open
  /\ open' = FALSE
  /\ UNCHANGED <<rows, unread, cursor, listed, loaded, mine, up, inbox, fetchVars, log, faults,
                 historyVars, fresh>>

\* setAppVisibility(true) with the conversation still active.
Show ==
  /\ ~ open /\ listed
  /\ loaded
  /\ open' = TRUE
  /\ MarkRead
  /\ UNCHANGED <<rows, cursor, listed, loaded, mine, up, inbox, fetchVars, log, faults,
                 newest, raced, missing, fresh>>

-----------------------------------------------------------------------------
(* The start: the list of conversations, then the latest message of each. *)

\* The list may come from before the user was added.
BootList ==
  /\ boot.at = "list"
  /\ listed' \in {listed, TRUE}
  /\ boot' = [at |-> "latest", unread |-> IF listed' THEN unread ELSE 0]
  /\ UNCHANGED <<rows, unread, cursor, open, loaded, mine, up, inbox, older, feed, sync, log,
                 faults, historyVars, fresh>>

BootAnswers ==
  /\ boot.at = "latest"
  /\ boot' = [at |-> "here", unread |-> boot.unread,
              rows |-> IF listed THEN LatestRows(log) ELSE {}, asof |-> Len(log)]
  /\ UNCHANGED <<rows, unread, cursor, viewVars, mine, up, inbox, older, feed, sync, log,
                 faults, historyVars, fresh>>

\* A request that fails ends it, and it may be begun again.
BootFails ==
  /\ boot.at \in {"list", "latest"}
  /\ boot' = [at |-> "list"]
  /\ UNCHANGED <<rows, unread, cursor, viewVars, mine, up, inbox, older, feed, sync, log,
                 faults, historyVars, fresh>>

\* More than one row of a listed conversation is kept; a badge read before the last
\* request is put back.
BootEnds ==
  /\ boot.at = "here"
  /\ boot' = None
  /\ IF listed /\ Cardinality(rows) > 1
     THEN UNCHANGED <<rows, newest, missing>> /\ raced' = (raced \/ boot.unread # unread)
     ELSE rows' = boot.rows /\ Overwrites(boot.rows, boot.asof, boot.unread = unread)
  /\ unread' = boot.unread
  /\ base' = boot.unread /\ counted' = {}
  /\ loaded' = FALSE
  /\ UNCHANGED <<cursor, listed, open, mine, up, inbox, older, feed, sync, log, faults, fresh>>

\* The application is killed and started again.
Restart ==
  /\ faults < MaxFaults
  /\ faults' = faults + 1
  /\ rows' = {}
  /\ open' = FALSE /\ loaded' = FALSE
  /\ mine' = [m \in Mine |-> IF mine[m] \in {"sending", "queued"} THEN "done" ELSE mine[m]]
  /\ up' = FALSE
  /\ inbox' = <<>>
  /\ boot' = [at |-> "list"]
  /\ older' = None /\ feed' = None /\ sync' = None
  /\ fresh' = FALSE
  /\ missing' = {}
  /\ base' = unread /\ counted' = {}
  /\ UNCHANGED <<unread, cursor, listed, log, newest, raced>>

-----------------------------------------------------------------------------
(* The socket. *)

\* onopen flushes the queue, and recoverAfterReconnect replays the feed; it leaves out
\* what is not listed, as if that recovery failed.
Connect ==
  /\ ~ up
  /\ boot = None
  /\ up' = TRUE
  /\ mine' = [m \in Mine |-> IF mine[m] = "queued" THEN "accepted" ELSE mine[m]]
  /\ feed' = IF feed = None THEN Recovering ELSE [feed EXCEPT !.since = FALSE]
  /\ fresh' = FALSE
  /\ UNCHANGED <<rows, unread, cursor, viewVars, inbox, boot, older, sync, log, faults,
                 historyVars>>

Breaks ==
  /\ up
  /\ faults < MaxFaults
  /\ faults' = faults + 1
  /\ up' = FALSE
  /\ inbox' = <<>>
  /\ UNCHANGED <<rows, unread, cursor, viewVars, mine, fetchVars, log, historyVars,
                 fresh>>

\* handleSocketEvent: message_persisted and new_message ("new"), message_deleted
\* ("changed").
HandleItem(e) ==
  /\ rows' = ApplyTo(rows, e.item)
  /\ Badge(e.kind = "new", e.item)
  /\ Upserts(<<e.item>>, {})

\* message_persisted_ack gives the optimistic row its id.
HandleAck(m) ==
  /\ rows' = {IF r.msg = m /\ ~ r.id THEN [r EXCEPT !.id = TRUE] ELSE r : r \in rows}
  /\ UNCHANGED <<unread, historyVars>>

\* message_failed takes back a row that is still being sent, or one that a late
\* message_queued took back to that.
HandleFailed(m) ==
  /\ \/ rows' = {r \in rows : r.msg # m \/ r.id} /\ UNCHANGED missing
     \/ /\ \E r \in rows : SameId(r, m)
        /\ rows' = {r \in rows : r.msg # m}
        /\ missing' = IF raced THEN missing ELSE missing \cup {m}
  /\ UNCHANGED <<unread, newest, raced, base, counted>>

Handle ==
  /\ up
  /\ inbox # <<>>
  /\ inbox' = Tail(inbox)
  /\ LET e == Head(inbox) IN
     CASE e.kind \in {"new", "changed"} -> HandleItem(e)
       [] e.kind = "ack" -> HandleAck(e.item.row.msg)
       [] e.kind = "failed" -> HandleFailed(e.item.row.msg)
  /\ UNCHANGED <<cursor, viewVars, mine, up, fetchVars, log, faults, fresh>>

-----------------------------------------------------------------------------
(* REST. *)

\* loadOlderMessages, when the user scrolls up; a second call at once is not modelled.
LoadOlder ==
  /\ open
  /\ older = None
  /\ older' = [at |-> "asked"]
  /\ UNCHANGED <<rows, unread, cursor, viewVars, mine, up, inbox, boot, feed, sync, log,
                 faults, historyVars, fresh>>

\* GET /messages: the rows of the recent list, which may hold only those persisted since
\* it was last emptied, or the oldest ones.
OlderAnswers ==
  /\ older.at = "asked"
  /\ \E page \in SUBSET ServerRows(log) : older' = [at |-> "here", rows |-> page, asof |-> Len(log)]
  /\ UNCHANGED <<rows, unread, cursor, viewVars, mine, up, inbox, boot, feed, sync, log,
                 faults, historyVars, fresh>>

OlderFails ==
  /\ older.at = "asked"
  /\ older' = None
  /\ UNCHANGED <<rows, unread, cursor, viewVars, mine, up, inbox, boot, feed, sync, log,
                 faults, historyVars, fresh>>

\* The page takes the place of all rows, those being sent included.
OlderApplies ==
  /\ older.at = "here"
  /\ older' = None
  /\ rows' = older.rows
  /\ loaded' = TRUE
  /\ Overwrites(older.rows, older.asof, TRUE)
  /\ Recount(unread)
  /\ UNCHANGED <<unread, cursor, listed, open, mine, up, inbox, boot, feed, sync, log,
                 faults, fresh>>

\* The entries from + 1 .. next, each with the state of its message now.
FeedAnswers ==
  /\ feed.at = "asked"
  /\ LET next == IF feed.from + FeedSize < Len(log) THEN feed.from + FeedSize ELSE Len(log) IN
     feed' = [at |-> "here", from |-> feed.from, left |-> feed.left, since |-> feed.since,
              next |-> next, more |-> next < Len(log),
              items |-> [i \in 1..next - feed.from |-> ServerItem(log, log[feed.from + i].msg)]]
  /\ UNCHANGED <<rows, unread, cursor, viewVars, mine, up, inbox, boot, older, sync, log,
                 faults, historyVars, fresh>>

\* The call ends, and is not repeated.
FeedFails ==
  /\ feed.at = "asked"
  /\ feed' = None
  /\ UNCHANGED <<rows, unread, cursor, viewVars, mine, up, inbox, boot, older, sync, log,
                 faults, historyVars, fresh>>

\* An entry is left out when it is older than the oldest row and not known.
InScope(list, item) ==
  \/ list = {}
  \/ \E r \in list : r.id /\ r.msg = item.row.msg
  \/ \E r \in list : r.time <= item.row.time

\* The list after each of the items of a page, which are applied in their order.
Pass(list, items) ==
  LET at[i \in 0..Len(items)] ==
        IF i = 0 THEN list
        ELSE IF InScope(at[i - 1], items[i]) THEN ApplyTo(at[i - 1], items[i])
        ELSE at[i - 1]
  IN at

CursorByPage(next) == cursor' = cursor + FeedSize
CursorToEnd(next) == cursor' = Len(log)
CursorTo(next) == cursor' = IF next > feed.from THEN next ELSE cursor

FeedApplies ==
  /\ feed.at = "here"
  /\ LET at == Pass(rows, feed.items)
         Kept(i) == InScope(at[i - 1], feed.items[i])
     IN /\ rows' = at[Len(feed.items)]
        /\ IF open /\ (\E i \in 1..Len(feed.items) : Kept(i)) THEN MarkRead
           ELSE UNCHANGED <<unread, base, counted>>
        /\ Upserts(feed.items, {i \in 1..Len(feed.items) : ~ Kept(i)})
  /\ CursorTo(feed.next)
  /\ feed' = IF feed.more /\ feed.left > 1
             THEN [at |-> "asked", from |-> feed.next, left |-> feed.left - 1, since |-> feed.since]
             ELSE None
  /\ fresh' = (fresh \/ (feed.since /\ ~ feed.more /\ up))
  /\ UNCHANGED <<viewVars, mine, up, inbox, boot, older, sync, log, faults>>

\* syncConversations, when the list has a new conversation, this one or another: the
\* messages, badges and loaded limits are copied, the latest message of the new one is
\* fetched, and the copies are written back.  Without a new one it changes nothing here.
SyncSnapshot ==
  /\ boot = None
  /\ sync = None
  /\ \E own \in {FALSE, ~ listed} :
       sync' = [at |-> "latest", own |-> own, rows |-> rows, unread |-> unread, loaded |-> loaded]
  /\ faults < MaxFaults
  /\ faults' = faults + 1
  /\ UNCHANGED <<rows, unread, cursor, viewVars, mine, up, inbox, boot, older, feed, log,
                 historyVars, fresh>>

\* The latest message of this conversation takes the place of the rows copied.
SyncAnswers ==
  /\ sync.at = "latest" /\ sync.own
  /\ log # <<>>
  /\ sync' = [at |-> "here", own |-> TRUE, rows |-> LatestRows(log), asof |-> Len(log),
              unread |-> sync.unread, loaded |-> sync.loaded]
  /\ UNCHANGED <<rows, unread, cursor, viewVars, mine, up, inbox, boot, older, feed, log,
                 faults, historyVars, fresh>>

SyncFails ==
  /\ sync.at = "latest"
  /\ sync' = None
  /\ UNCHANGED <<rows, unread, cursor, viewVars, mine, up, inbox, boot, older, feed, log,
                 faults, historyVars, fresh>>

SyncEnds ==
  /\ \/ /\ sync.at = "latest" /\ (sync.own => log = <<>>)
        /\ raced' = (raced \/ sync.rows # rows \/ sync.unread # unread)
        /\ UNCHANGED <<newest, missing, base, counted>>
     \/ /\ sync.at = "here"
        /\ Overwrites(sync.rows, sync.asof, sync.unread = unread)
        /\ Recount(sync.unread)
  /\ sync' = None
  /\ rows' = sync.rows
  /\ unread' = sync.unread
  /\ loaded' = sync.loaded
  /\ listed' = (listed \/ sync.own)
  /\ UNCHANGED <<cursor, open, mine, up, inbox, boot, older, feed, log, faults, fresh>>

-----------------------------------------------------------------------------
(* The server and the other users. *)

Publish(events) == inbox' = IF up THEN inbox \o events ELSE inbox

LogAnd(m, kind) == Append(log, [msg |-> m, kind |-> kind])
EventOf(l, m, kind) == [kind |-> kind, item |-> ServerItem(l, m)]

\* The worker tells the conversation of a stored message, then its sender.
Told(l, m) ==
  IF m \in Mine THEN <<EventOf(l, m, "new"), EventOf(l, m, "ack")>> ELSE <<EventOf(l, m, "new")>>

\* The worker stores a message or gives it up; by a fault it gives up what it has
\* stored, or stores another copy of what it gave up.
Persist(m) ==
  /\ m \in Mine /\ mine[m] \in {"accepted", "refused"}
  /\ Len(log) < MaxLog
  /\ log' = LogAnd(m, "create")
  /\ mine' = [mine EXCEPT ![m] = IF @ = "refused" THEN "done" ELSE "stored"]
  /\ Publish(Told(log', m))
  /\ Fault(mine[m] = "refused")

Reject(m) ==
  /\ m \in Mine /\ mine[m] \in {"accepted", "stored"}
  /\ mine' = [mine EXCEPT ![m] = IF @ = "stored" THEN "done" ELSE "refused"]
  /\ Publish(<<[kind |-> "failed",
                item |-> [row |-> [msg |-> m, id |-> FALSE, time |-> 0], deleted |-> FALSE]]>>)
  /\ Fault(mine[m] = "stored")
  /\ UNCHANGED log

Arrive(m) ==
  /\ m \in Others /\ ~ Exists(log, m)
  /\ Len(log) < MaxLog
  /\ log' = LogAnd(m, "create")
  /\ Publish(<<EventOf(log', m, "new")>>)
  /\ UNCHANGED <<mine, faults>>

Delete(m) ==
  /\ State(log, m) = 1
  /\ Len(log) < MaxLog
  /\ log' = LogAnd(m, "delete")
  /\ Publish(<<EventOf(log', m, "changed")>>)
  /\ UNCHANGED <<mine, faults>>

\* The worker takes a queued message again and publishes it again.
Republish(m) ==
  /\ Exists(log, m)
  /\ faults < MaxFaults
  /\ faults' = faults + 1
  /\ Publish(Told(log, m))
  /\ UNCHANGED <<log, mine>>

Server(m) ==
  /\ Persist(m) \/ Reject(m) \/ Arrive(m) \/ Delete(m) \/ Republish(m)
  /\ UNCHANGED <<rows, unread, cursor, viewVars, up, fetchVars, historyVars, fresh>>

-----------------------------------------------------------------------------

Next ==
  \/ \E m \in Mine : SendMessage(m) \/ Uploaded(m) \/ UploadFails(m)
  \/ \E m \in Msg : Server(m)
  \/ Open \/ Close \/ Show
  \/ BootList \/ BootAnswers \/ BootFails \/ BootEnds \/ Restart
  \/ Connect \/ Breaks \/ Handle
  \/ LoadOlder \/ OlderAnswers \/ OlderFails \/ OlderApplies
  \/ FeedAnswers \/ FeedFails \/ FeedApplies
  \/ SyncSnapshot \/ SyncAnswers \/ SyncFails \/ SyncEnds

Spec == Init /\ [][Next]_vars

-----------------------------------------------------------------------------
(* Properties. *)

\* A message is shown once, in whatever order its optimistic row, its
\* acknowledgement, its event, the feed and the pages are written.
NoDuplicates == \A r, s \in rows : r.msg = s.msg => r = s

\* No message is counted twice by the badge in one run of the application, although
\* it is published again, or comes through the feed or a page as well.  That is,
\* unless a page lacked it after it was counted, or a list or a row older than what was
\* shown has been written over it.
CountedOnce == raced \/ unread <= base + Cardinality(counted)

\* The rows of m the server knows are those it has.
InStep(m) == {r \in rows : r.msg = m /\ r.id} = {r \in ServerRows(log) : r.msg = m}

\* Events lost while the socket was down, or the application closed, are made good:
\* once history is loaded, a recovery begun after the last connection has come to the
\* end of the feed and no event or request is on its way, the rows are the server's.
\* That is, but for a message the last page lacked, the feed left out as out of scope
\* or a late message_failed took back, none of which came again since; and unless
\* something older was written over something newer.
Quiet == up /\ inbox = <<>> /\ boot = None /\ older = None /\ feed = None /\ sync = None
Converged == Quiet /\ loaded /\ fresh /\ ~ raced => \A m \in Msg \ missing : InStep(m)
=============================================================================
