--------------------------- MODULE MobileChatProofs ---------------------------
(***************************************************************************)
(* What holds of MobileChat for any messages, pages and faults: types, no  *)
(* message shown twice, none counted twice by the badge, and rows that are *)
(* the server's once what was missed has been recovered.                   *)
(***************************************************************************)
EXTENDS MobileChat, TLAPS, FiniteSetTheorems, WellFoundedInduction

-----------------------------------------------------------------------------
(* Induction over the entries of a page, in the form the provers take: the *)
(* entries for which something holds are a set.                            *)

LEMMA Least ==
  ASSUME NEW T, T \subseteq Nat, T # {}
  PROVE  \E n \in T : \A m \in T : ~ (m < n)
<1> DEFINE R == OpToRel(<, Nat)
<1>1. IsWellFoundedOn(R, Nat)
  BY NatLessThanWellFounded
<1>2. PICK x \in T : \A y \in T : ~ (<<y, x>> \in R)
  <2> HIDE DEF R
  <2> QED BY <1>1, WFMin
<1>3. \A y \in T : ~ (y < x)
  BY <1>2 DEF OpToRel
<1> QED BY <1>3

LEMMA Induct ==
  ASSUME NEW n \in Nat, NEW S, 0 \in S, \A i \in 1..n : i - 1 \in S => i \in S
  PROVE  0..n \subseteq S
<1> DEFINE T == (0..n) \ S
<1>1. SUFFICES ASSUME T # {} PROVE FALSE
  OBVIOUS
<1>2. T \subseteq Nat
  OBVIOUS
<1> HIDE DEF T
<1>3. PICK k \in T : \A m \in T : ~ (m < k)
  BY <1>1, <1>2, Least
<1> USE DEF T
<1>4. k \in 1..n /\ k - 1 \in 0..n /\ k - 1 < k
  BY <1>3
<1>5. k - 1 \in S
  BY <1>3, <1>4
<1> QED BY <1>3, <1>4, <1>5

\* What the list is after one item more.
After(list, item) == IF InScope(list, item) THEN ApplyTo(list, item) ELSE list

PassOf(f, list, items, n) ==
  f = [i \in 0..n |-> IF i = 0 THEN list ELSE After(f[i - 1], items[i])]

LEMMA PassExists ==
  ASSUME NEW list, NEW items, NEW n \in Nat
  PROVE  \E f : PassOf(f, list, items, n)
<1> DEFINE S == {k \in 0..n : \E f : PassOf(f, list, items, k)}
<1>1. 0 \in S
  <2> DEFINE f == [i \in 0..0 |-> list]
  <2>1. PassOf(f, list, items, 0)
    BY DEF PassOf
  <2> QED BY <2>1
<1>2. ASSUME NEW k \in 1..n, k - 1 \in S PROVE k \in S
  <2>1. PICK g : PassOf(g, list, items, k - 1)
    BY <1>2
  <2> DEFINE f == [i \in 0..k |-> IF i = k THEN After(g[k - 1], items[k]) ELSE g[i]]
  <2>2. \A i \in 0..k : i # k => i \in 0..k - 1 /\ (i # 0 => i - 1 \in 0..k - 1)
    OBVIOUS
  <2>3. ASSUME NEW i \in 0..k PROVE f[i] = IF i = 0 THEN list ELSE After(f[i - 1], items[i])
    <3>1. CASE i = k
      BY <3>1
    <3>2. CASE i # k
      <4>1. g[i] = IF i = 0 THEN list ELSE After(g[i - 1], items[i])
        BY <2>1, <2>2, <3>2 DEF PassOf
      <4>2. f[i] = g[i] /\ (i # 0 => f[i - 1] = g[i - 1])
        BY <2>2, <3>2
      <4> QED BY <4>1, <4>2
    <3> QED BY <3>1, <3>2
  <2>4. PassOf(f, list, items, k)
    <3>1. f = [i \in 0..k |-> f[i]]
      OBVIOUS
    <3> HIDE DEF f
    <3> QED BY <2>3, <3>1 DEF PassOf
  <2> QED BY <2>4
<1> HIDE DEF S
<1>3. n \in S
  BY <1>1, <1>2, Induct
<1> QED BY <1>3 DEF S

\* The equation of Pass: what each item of the page makes of the list.
LEMMA PassDef ==
  ASSUME NEW list, NEW items, Len(items) \in Nat
  PROVE  /\ Pass(list, items)[0] = list
         /\ \A i \in 1..Len(items) :
              Pass(list, items)[i] = After(Pass(list, items)[i - 1], items[i])
<1> DEFINE f == Pass(list, items)
<1>1. f = CHOOSE g : PassOf(g, list, items, Len(items))
  BY DEF Pass, PassOf, After
<1> HIDE DEF f
<1>2. PassOf(f, list, items, Len(items))
  BY <1>1, PassExists
<1> QED BY <1>2 DEF PassOf, f

-----------------------------------------------------------------------------
(* The log, which only grows, and what is said of a message at some point of it. *)

Create(m) == [msg |-> m, kind |-> "create"]
\* A message is created once, and before anything else happens to it.
LogInv(l) ==
  /\ l \in Seq(Change)
  /\ \A i \in 1..Len(l) : \E j \in 1..i : l[j] = Create(l[i].msg)
  /\ \A i, j \in 1..Len(l) : l[i] = l[j] /\ l[i].kind = "create" => i = j

\* k goes on where l ends.
Grows(l, k) == Len(l) <= Len(k) /\ \A i \in 1..Len(l) : k[i] = l[i]

LEMMA CreatedAt ==
  ASSUME NEW l, LogInv(l), NEW m, Exists(l, m)
  PROVE  Created(l, m) \in 1..Len(l) /\ l[Created(l, m)] = Create(m)
<1>1. DOMAIN l = 1..Len(l)
  BY DEF LogInv
<1>2. PICK i \in 1..Len(l) : l[i].msg = m
  BY <1>1 DEF Exists
<1>3. PICK j \in 1..i : l[j] = Create(m)
  BY <1>2 DEF LogInv
<1>4. Len(l) \in Nat
  BY DEF LogInv
<1>5. j \in 1..Len(l)
  BY <1>2, <1>3, <1>4
<1> QED BY <1>1, <1>3, <1>5 DEF Created, Create

LEMMA CreatedUnique ==
  ASSUME NEW l, LogInv(l), NEW m, NEW i \in 1..Len(l), l[i] = Create(m)
  PROVE  Created(l, m) = i /\ Exists(l, m)
<1>1. DOMAIN l = 1..Len(l)
  BY DEF LogInv
<1>2. Created(l, m) \in 1..Len(l) /\ l[Created(l, m)] = Create(m)
  BY <1>1 DEF Created, Create
<1>3. Created(l, m) = i
  BY <1>2 DEF LogInv, Create
<1> QED BY <1>1, <1>3 DEF Exists, Create

LEMMA GrowsKeeps ==
  ASSUME NEW l, NEW k, LogInv(l), LogInv(k), Grows(l, k), NEW m, Exists(l, m)
  PROVE  /\ Exists(k, m)
         /\ ServerRow(k, m) = ServerRow(l, m)
         /\ Deleted(l, m) => Deleted(k, m)
<1>1. DOMAIN l = 1..Len(l) /\ DOMAIN k = 1..Len(k) /\ Len(l) \in Nat /\ Len(k) \in Nat
  BY DEF LogInv
<1>2. Created(l, m) \in 1..Len(l) /\ l[Created(l, m)] = Create(m)
  BY CreatedAt
<1>3. Created(l, m) \in 1..Len(k) /\ k[Created(l, m)] = Create(m)
  BY <1>1, <1>2 DEF Grows
<1>4. Created(k, m) = Created(l, m) /\ Exists(k, m)
  BY <1>3, CreatedUnique
<1>5. Deleted(l, m) => Deleted(k, m)
  BY <1>1 DEF Deleted, Grows
<1> QED BY <1>4, <1>5 DEF ServerRow

\* A message is in the log from its creation, and there unless it is deleted.
LEMMA StateIs ==
  ASSUME NEW l, LogInv(l), NEW m
  PROVE  /\ State(l, m) \in {0, 1, 2}
         /\ State(l, m) = 0 <=> ~ Exists(l, m)
         /\ State(l, m) = 2 <=> Deleted(l, m)
<1>1. Deleted(l, m) => Exists(l, m)
  BY DEF Deleted, Exists
<1> QED BY <1>1 DEF State

LEMMA StateGrows ==
  ASSUME NEW l, NEW k, LogInv(l), LogInv(k), Grows(l, k), NEW m
  PROVE  State(l, m) <= State(k, m)
<1>1. Exists(l, m) => Exists(k, m) /\ (Deleted(l, m) => Deleted(k, m))
  BY GrowsKeeps
<1> QED BY <1>1, StateIs

LEMMA LogPrefix ==
  ASSUME NEW l, LogInv(l), NEW n \in 0..Len(l)
  PROVE  LogInv(SubSeq(l, 1, n)) /\ Grows(SubSeq(l, 1, n), l) /\ Len(SubSeq(l, 1, n)) = n
<1>1. l \in Seq(Change) /\ Len(l) \in Nat
  BY DEF LogInv
<1> DEFINE p == SubSeq(l, 1, n)
<1>2. p \in Seq(Change) /\ Len(p) = n /\ \A i \in 1..n : p[i] = l[i]
  BY <1>1
<1> HIDE DEF p
<1>3. \A i \in 1..n : i \in 1..Len(l) /\ \A j \in 1..i : j \in 1..n
  BY <1>1
<1>4. LogInv(p)
  BY <1>2, <1>3 DEF LogInv
<1>5. Grows(p, l)
  BY <1>1, <1>2 DEF Grows
<1> QED BY <1>2, <1>4, <1>5 DEF p

LEMMA LogAppend ==
  ASSUME NEW l, LogInv(l), NEW c \in Change,
         IF c.kind = "create" THEN ~ Exists(l, c.msg) ELSE Exists(l, c.msg)
  PROVE  /\ LogInv(Append(l, c)) /\ Grows(l, Append(l, c)) /\ Len(Append(l, c)) = Len(l) + 1
         /\ Append(l, c)[Len(l) + 1] = c
         /\ Exists(Append(l, c), c.msg)
         /\ \A m : m # c.msg => State(Append(l, c), m) = State(l, m)
         /\ \A n \in 0..Len(l) : SubSeq(Append(l, c), 1, n) = SubSeq(l, 1, n)
<1>1. l \in Seq(Change) /\ Len(l) \in Nat /\ DOMAIN l = 1..Len(l)
  BY DEF LogInv
<1> DEFINE k == Append(l, c)
<1>2. k \in Seq(Change) /\ Len(k) = Len(l) + 1 /\ DOMAIN k = 1..Len(l) + 1
      /\ \A i \in 1..Len(l) + 1 : k[i] = IF i = Len(l) + 1 THEN c ELSE l[i]
  BY <1>1
<1>3. \A n \in 0..Len(l) : SubSeq(k, 1, n) = SubSeq(l, 1, n)
  <2> SUFFICES ASSUME NEW n \in 0..Len(l) PROVE SubSeq(k, 1, n) = SubSeq(l, 1, n)
    OBVIOUS
  <2>1. SubSeq(k, 1, n) \in Seq(Change) /\ Len(SubSeq(k, 1, n)) = n
        /\ \A i \in 1..n : SubSeq(k, 1, n)[i] = k[i]
    BY <1>1, <1>2
  <2>2. SubSeq(l, 1, n) \in Seq(Change) /\ Len(SubSeq(l, 1, n)) = n
        /\ \A i \in 1..n : SubSeq(l, 1, n)[i] = l[i]
    BY <1>1
  <2> HIDE DEF k
  <2>3. \A i \in 1..n : k[i] = l[i]
    BY <1>1, <1>2
  <2> QED BY <2>1, <2>2, <2>3
<1> HIDE DEF k
<1>4. \A i \in 1..Len(k) : \E j \in 1..i : k[j] = Create(k[i].msg)
  <2> SUFFICES ASSUME NEW i \in 1..Len(k) PROVE \E j \in 1..i : k[j] = Create(k[i].msg)
    OBVIOUS
  <2>1. CASE i \in 1..Len(l)
    <3>1. PICK j \in 1..i : l[j] = Create(l[i].msg)
      BY <2>1 DEF LogInv
    <3> QED BY <1>1, <1>2, <2>1, <3>1
  <2>2. CASE i = Len(l) + 1
    <3>1. k[i] = c
      BY <1>2, <2>2
    <3>2. CASE c.kind = "create"
      BY <1>2, <3>1, <3>2 DEF Create, Change
    <3>3. CASE c.kind # "create"
      <4>1. Created(l, c.msg) \in 1..Len(l) /\ l[Created(l, c.msg)] = Create(c.msg)
        BY <3>3, CreatedAt
      <4> QED BY <1>1, <1>2, <2>2, <3>1, <4>1
    <3> QED BY <3>2, <3>3
  <2> QED BY <1>1, <1>2, <2>1, <2>2
<1>5. ASSUME NEW i \in 1..Len(k), NEW j \in 1..Len(k), k[i] = k[j], k[i].kind = "create" PROVE i = j
  <2>1. \A x \in 1..Len(l) : k[x] = c => c.kind # "create"
    BY <1>1, <1>2 DEF Exists
  <2> QED BY <1>1, <1>2, <1>5, <2>1 DEF LogInv
<1>6. LogInv(k)
  BY <1>2, <1>4, <1>5 DEF LogInv
<1>7. Grows(l, k)
  BY <1>1, <1>2 DEF Grows
<1>8. Exists(k, c.msg)
  BY <1>1, <1>2 DEF Exists
<1>9. ASSUME NEW m, m # c.msg PROVE State(k, m) = State(l, m)
  <2>1. Exists(k, m) <=> Exists(l, m)
    BY <1>1, <1>2, <1>9 DEF Exists
  <2>2. Deleted(k, m) <=> Deleted(l, m)
    BY <1>1, <1>2, <1>9 DEF Deleted
  <2> QED BY <2>1, <2>2 DEF State
<1> QED BY <1>1, <1>2, <1>3, <1>6, <1>7, <1>8, <1>9 DEF k

-----------------------------------------------------------------------------
(* What the server says, and what the store makes of it. *)

\* What the server says of a message in its log.
GoodItem(item, l) ==
  /\ item \in Item
  /\ Exists(l, item.row.msg)
  /\ item.row = ServerRow(l, item.row.msg)
  /\ item.deleted => Deleted(l, item.row.msg)

GoodEvent(e, l) ==
  /\ e \in Event
  /\ IF e.kind = "failed" THEN e.item.row.msg \in Mine ELSE GoodItem(e.item, l)

InboxInv == \A i \in 1..Len(inbox) : GoodEvent(inbox[i], log)

\* How far an entry of the log brings its message.
Reach(i) == IF log[i].kind = "create" THEN 1 ELSE 2

\* A page reflects the state of its messages when it was made.
FeedInv ==
  /\ cursor <= Len(log)
  /\ feed # None => feed.from = cursor
  /\ feed.at = "here" =>
       /\ feed.next \in cursor..Len(log)
       /\ feed.more => feed.next > cursor
       /\ Len(feed.items) = feed.next - cursor
       /\ \A i \in 1..Len(feed.items) :
            /\ GoodItem(feed.items[i], log)
            /\ feed.items[i].row.msg = log[cursor + i].msg
            /\ ItemState(feed.items[i]) >= Reach(cursor + i)
       /\ \A i, j \in 1..Len(feed.items) :
            feed.items[i].row.msg = feed.items[j].row.msg => feed.items[i] = feed.items[j]

\* Rows the server had at some point of the log, maybe not all of them.
FromServer(rs, asof) == asof \in 0..Len(log) /\ rs \subseteq ServerRows(SubSeq(log, 1, asof))

ListsInv ==
  /\ older.at = "here" => FromServer(older.rows, older.asof)
  /\ boot.at = "here" => FromServer(boot.rows, boot.asof)
  /\ sync.at = "here" => FromServer(sync.rows, sync.asof)

SyncInv == sync.at = "latest" => boot = None /\ (sync.loaded => loaded)

\* A message of the user that the worker has not stored.
Unstored == {"new", "sending", "queued", "accepted", "refused"}

GoodRows(rs) ==
  /\ \A r, s \in rs : r.msg = s.msg => r = s
  /\ \A r \in rs : r.id => Exists(log, r.msg)
  /\ \A r \in rs : r.msg \in Mine => mine[r.msg] # "new"

RowsInv ==
  /\ GoodRows(rows)
  /\ sync.at = "latest" => GoodRows(sync.rows)
  /\ \A m \in Mine : mine[m] \in Unstored => ~ Exists(log, m)

ChatInv == TypeOK /\ LogInv(log) /\ InboxInv /\ FeedInv /\ ListsInv /\ SyncInv /\ RowsInv

CountInv ==
  /\ IsFiniteSet(counted)
  /\ ~ raced =>
       /\ unread <= base + Cardinality(counted)
       /\ \A m \in counted : newest[m] = 2 \/ (newest[m] = 1 /\ \E r \in rows : r.msg = m)

Seen(i) == newest[log[i].msg] >= Reach(i)
Coming(i) ==
  \E j \in 1..Len(inbox) :
    /\ inbox[j].kind \in {"new", "changed"}
    /\ inbox[j].item.row.msg = log[i].msg
    /\ ItemState(inbox[j].item) >= Reach(i)

ReplayInv ==
  ~ raced =>
    /\ \A m \in Msg : newest[m] <= State(log, m)
    /\ \A i \in 1..cursor : Seen(i)
    /\ up /\ fresh => \A i \in 1..Len(log) : Seen(i) \/ Coming(i)
    /\ up /\ feed.at = "here" /\ feed.since /\ ~ feed.more =>
         \A i \in feed.next + 1..Len(log) : Seen(i) \/ Coming(i)

\* TypeOK with the types of the requests under names.
BootType ==
  {None} \cup [at: {"list"}] \cup [at: {"latest"}, unread: Nat]
         \cup [at: {"here"}, unread: Nat, rows: SUBSET Row, asof: 0..MaxLog]
OlderType == {None} \cup [at: {"asked"}] \cup List
FeedType ==
  {None} \cup [at: {"asked"}, from: 0..MaxLog, left: 1..MaxPages, since: BOOLEAN]
         \cup [at: {"here"}, from: 0..MaxLog, left: 1..MaxPages, since: BOOLEAN, next: 0..MaxLog,
               more: BOOLEAN, items: Seq(Item)]
SyncType ==
  {None} \cup [at: {"latest"}, own: BOOLEAN, rows: SUBSET Row, unread: Nat, loaded: BOOLEAN]
         \cup [at: {"here"}, own: {TRUE}, rows: SUBSET Row, asof: 0..MaxLog, unread: Nat,
               loaded: BOOLEAN]

Types ==
  /\ rows \subseteq Row
  /\ unread \in Nat
  /\ cursor \in 0..MaxLog
  /\ listed \in BOOLEAN /\ open \in BOOLEAN /\ loaded \in BOOLEAN
  /\ mine \in [Mine -> {"new", "sending", "queued", "accepted", "stored", "refused", "done"}]
  /\ up \in BOOLEAN
  /\ inbox \in Seq(Event)
  /\ boot \in BootType /\ older \in OlderType /\ feed \in FeedType /\ sync \in SyncType
  /\ log \in Seq(Change) /\ Len(log) <= MaxLog
  /\ faults \in 0..MaxFaults
  /\ newest \in [Msg -> 0..2]
  /\ raced \in BOOLEAN /\ missing \subseteq Msg /\ fresh \in BOOLEAN
  /\ base \in Nat /\ counted \subseteq Others

LEMMA TypesAre == (TypeOK <=> Types) /\ (TypeOK' <=> Types')
BY Zenon DEF TypeOK, Types, BootType, OlderType, FeedType, SyncType

ShownInv ==
  ~ raced /\ loaded =>
    \A m \in Msg \ missing :
      /\ newest[m] = 1 => ServerRow(log, m) \in rows
      /\ newest[m] = 2 => \A r \in rows : r.msg # m

LEMMA ItemOf ==
  ASSUME NEW l, LogInv(l), Len(l) <= MaxLog, NEW m \in Msg, Exists(l, m)
  PROVE  /\ GoodItem(ServerItem(l, m), l)
         /\ ServerItem(l, m).row.msg = m
         /\ ItemState(ServerItem(l, m)) = State(l, m)
<1>1. Created(l, m) \in 1..Len(l) /\ Len(l) \in Nat
  BY CreatedAt DEF LogInv
<1>2. ServerRow(l, m) \in Row /\ ServerRow(l, m).msg = m
  BY <1>1, BoundAssumption DEF ServerRow, Row
<1>3. ServerItem(l, m) \in Item
  BY <1>2 DEF ServerItem, Item, Deleted
<1>4. ItemState(ServerItem(l, m)) = State(l, m)
  BY StateIs DEF ItemState, ServerItem, State
<1> QED BY <1>2, <1>3, <1>4 DEF GoodItem, ServerItem

LEMMA ItemIs ==
  ASSUME NEW l, LogInv(l), NEW item, GoodItem(item, l)
  PROVE  /\ item.row \in Row /\ item.row.id /\ item.row.msg \in Msg
         /\ item.deleted \in BOOLEAN
         /\ ItemState(item) \in {1, 2} /\ ItemState(item) <= State(l, item.row.msg)
<1>1. item.row \in Row /\ item.row.msg \in Msg /\ item.deleted \in BOOLEAN
  BY DEF GoodItem, Item, Row
<1>2. item.row.id
  BY DEF GoodItem, ServerRow
<1>3. State(l, item.row.msg) \in {1, 2} /\ (item.deleted => State(l, item.row.msg) = 2)
  BY StateIs DEF GoodItem
<1> QED BY <1>1, <1>2, <1>3 DEF ItemState

LEMMA GoodItemGrows ==
  ASSUME NEW l, NEW k, LogInv(l), LogInv(k), Grows(l, k), NEW item, GoodItem(item, l)
  PROVE  GoodItem(item, k)
BY GrowsKeeps DEF GoodItem

LEMMA ServerRowsAre ==
  ASSUME NEW l, LogInv(l), Len(l) <= MaxLog
  PROVE  /\ \A r \in ServerRows(l) :
              /\ r \in Row /\ r.id /\ r.msg \in Msg
              /\ r = ServerRow(l, r.msg) /\ State(l, r.msg) = 1
         /\ \A m \in Msg : State(l, m) = 1 => ServerRow(l, m) \in ServerRows(l)
<1>1. ASSUME NEW r \in ServerRows(l)
      PROVE  r \in Row /\ r.id /\ r.msg \in Msg /\ r = ServerRow(l, r.msg) /\ State(l, r.msg) = 1
  <2>1. PICK m \in Msg : r = ServerRow(l, m) /\ State(l, m) = 1
    BY DEF ServerRows
  <2>2. Exists(l, m)
    BY <2>1, StateIs
  <2>3. ServerRow(l, m) \in Row /\ ServerRow(l, m).msg = m /\ ServerRow(l, m).id
    <3>1. Created(l, m) \in 1..Len(l) /\ Len(l) \in Nat
      BY <2>2, CreatedAt DEF LogInv
    <3> QED BY <3>1, BoundAssumption DEF ServerRow, Row
  <2> QED BY <2>1, <2>3
<1>2. \A m \in Msg : State(l, m) = 1 => ServerRow(l, m) \in ServerRows(l)
  BY DEF ServerRows
<1> QED BY <1>1, <1>2

\* The rows of the server at some point of the log are rows like any other.
LEMMA ServerRowsGood ==
  ASSUME NEW l, LogInv(l), Len(l) <= MaxLog, LogInv(log), Grows(l, log),
         \A m \in Mine : mine[m] \in Unstored => ~ Exists(log, m)
  PROVE  ServerRows(l) \subseteq Row /\ GoodRows(ServerRows(l))
<1>1. \A r \in ServerRows(l) : r \in Row /\ r.id /\ r = ServerRow(l, r.msg) /\ State(l, r.msg) = 1
  BY ServerRowsAre
<1>2. \A r \in ServerRows(l) : Exists(log, r.msg)
  BY <1>1, StateIs, GrowsKeeps
<1>3. \A r, s \in ServerRows(l) : r.msg = s.msg => r = s
  BY <1>1
<1>4. \A r \in ServerRows(l) : r.msg \in Mine => mine[r.msg] # "new"
  BY <1>2 DEF Unstored
<1> QED BY <1>1, <1>2, <1>3, <1>4 DEF GoodRows

\* applyApiMessage changes the rows of one message.
LEMMA ApplyRows ==
  ASSUME NEW list, NEW item, item.deleted \in BOOLEAN
  PROVE  /\ \A r : r.msg # item.row.msg => (r \in ApplyTo(list, item) <=> r \in list)
         /\ item.deleted => \A r \in ApplyTo(list, item) : r.msg # item.row.msg
         /\ ~ item.deleted =>
              /\ item.row \in ApplyTo(list, item)
              /\ \A r \in ApplyTo(list, item) : r.msg = item.row.msg => r = item.row
BY DEF ApplyTo, replaceMessage, Same

LEMMA ApplyGood ==
  ASSUME NEW list, list \subseteq Row, GoodRows(list), LogInv(log),
         NEW item, GoodItem(item, log), \A m \in Mine : mine[m] \in Unstored => ~ Exists(log, m)
  PROVE  ApplyTo(list, item) \subseteq Row /\ GoodRows(ApplyTo(list, item))
<1>1. item.row \in Row /\ item.row.id /\ item.deleted \in BOOLEAN
  BY ItemIs
<1>2. ApplyTo(list, item) \subseteq list \cup {item.row}
  BY DEF ApplyTo, replaceMessage
<1>3. \A r, s \in ApplyTo(list, item) : r.msg = s.msg => r = s
  <2>1. \A r, s \in list : r.msg = s.msg => r = s
    BY DEF GoodRows
  <2> QED BY <1>1, <1>2, <2>1, ApplyRows
<1>4. Exists(log, item.row.msg) /\ (item.row.msg \in Mine => mine[item.row.msg] # "new")
  BY DEF GoodItem, Unstored
<1> QED BY <1>1, <1>2, <1>3, <1>4 DEF GoodRows

-----------------------------------------------------------------------------
(* The rows after a page of the feed. *)

LEMMA PassGood ==
  ASSUME NEW list, list \subseteq Row, GoodRows(list), LogInv(log),
         NEW items, Len(items) \in Nat, \A i \in 1..Len(items) : GoodItem(items[i], log),
         \A m \in Mine : mine[m] \in Unstored => ~ Exists(log, m)
  PROVE  LET last == Pass(list, items)[Len(items)] IN last \subseteq Row /\ GoodRows(last)
<1> DEFINE at == Pass(list, items)
           S == {i \in 0..Len(items) : at[i] \subseteq Row /\ GoodRows(at[i])}
<1>1. at[0] = list /\ \A i \in 1..Len(items) : at[i] = After(at[i - 1], items[i])
  BY PassDef
<1> HIDE DEF at
<1>2. 0 \in S
  BY <1>1
<1>3. ASSUME NEW i \in 1..Len(items), i - 1 \in S PROVE i \in S
  <2>1. at[i - 1] \subseteq Row /\ GoodRows(at[i - 1])
    BY <1>3
  <2>2. ApplyTo(at[i - 1], items[i]) \subseteq Row /\ GoodRows(ApplyTo(at[i - 1], items[i]))
    BY <2>1, ApplyGood
  <2>3. at[i] \subseteq Row /\ GoodRows(at[i])
    BY <1>1, <2>1, <2>2 DEF After
  <2> QED BY <2>3
<1> HIDE DEF S
<1>4. 0..Len(items) \subseteq S
  BY <1>2, <1>3, Induct
<1> QED BY <1>4 DEF S, at

\* A message that is there, and that no item says is deleted, is still there.
LEMMA PassHas ==
  ASSUME NEW list, NEW items, Len(items) \in Nat, NEW m,
         \A i \in 1..Len(items) : items[i].deleted \in BOOLEAN,
         \A i \in 1..Len(items) : items[i].row.msg = m => ~ items[i].deleted,
         \E r \in list : r.msg = m
  PROVE  \E r \in Pass(list, items)[Len(items)] : r.msg = m
<1> DEFINE at == Pass(list, items)
           S == {i \in 0..Len(items) : \E r \in at[i] : r.msg = m}
<1>1. at[0] = list /\ \A i \in 1..Len(items) : at[i] = After(at[i - 1], items[i])
  BY PassDef
<1> HIDE DEF at
<1>2. 0 \in S
  BY <1>1
<1>3. ASSUME NEW i \in 1..Len(items), i - 1 \in S PROVE i \in S
  <2>1. PICK r \in at[i - 1] : r.msg = m
    BY <1>3
  <2>2. \E s \in ApplyTo(at[i - 1], items[i]) : s.msg = m
    <3>1. CASE items[i].row.msg = m
      BY <3>1, ApplyRows
    <3>2. CASE items[i].row.msg # m
      BY <2>1, <3>2, ApplyRows
    <3> QED BY <3>1, <3>2
  <2>3. \E s \in at[i] : s.msg = m
    BY <1>1, <2>1, <2>2 DEF After
  <2> QED BY <2>3
<1> HIDE DEF S
<1>4. 0..Len(items) \subseteq S
  BY <1>2, <1>3, Induct
<1> QED BY <1>4 DEF S, at

\* When no item of a message is left out, what the page says of it is what there is of
\* it, and a message it says nothing of is left alone.
LEMMA PassAll ==
  ASSUME NEW list, NEW items, Len(items) \in Nat, NEW m,
         \A i \in 1..Len(items) : items[i].deleted \in BOOLEAN,
         \A i \in 1..Len(items) :
           items[i].row.msg = m => InScope(Pass(list, items)[i - 1], items[i])
  PROVE  LET last == Pass(list, items)[Len(items)] IN
         /\ (\A i \in 1..Len(items) : items[i].row.msg # m) =>
               \A r : r.msg = m => (r \in last <=> r \in list)
         /\ \A item :
              /\ \E i \in 1..Len(items) : items[i].row.msg = m
              /\ \A i \in 1..Len(items) : items[i].row.msg = m => items[i] = item
              => IF item.deleted THEN \A r \in last : r.msg # m ELSE item.row \in last
<1> DEFINE at == Pass(list, items)
<1>1. /\ at[0] = list
      /\ \A i \in 1..Len(items) : at[i] = ApplyTo(at[i - 1], items[i])
                                  \/ (at[i] = at[i - 1] /\ items[i].row.msg # m)
  BY PassDef DEF After
<1>2. ASSUME \A i \in 1..Len(items) : items[i].row.msg # m
      PROVE  \A r : r.msg = m => (r \in at[Len(items)] <=> r \in list)
  <2> HIDE DEF at
  <2> DEFINE S == {i \in 0..Len(items) : \A r : r.msg = m => (r \in at[i] <=> r \in list)}
  <2>1. 0 \in S
    BY <1>1
  <2>2. ASSUME NEW i \in 1..Len(items), i - 1 \in S PROVE i \in S
    <3>1. \A r : r.msg = m => (r \in at[i - 1] <=> r \in list)
      BY <2>2
    <3>2. \A r : r.msg = m => (r \in at[i] <=> r \in at[i - 1])
      BY <1>1, <1>2, ApplyRows
    <3>3. \A r : r.msg = m => (r \in at[i] <=> r \in list)
      BY <3>1, <3>2
    <3> QED BY <3>3
  <2> HIDE DEF S
  <2>3. 0..Len(items) \subseteq S
    BY <2>1, <2>2, Induct
  <2> QED BY <2>3 DEF S
<1>3. ASSUME NEW item, \A i \in 1..Len(items) : items[i].row.msg = m => items[i] = item,
             NEW k \in 1..Len(items), items[k].row.msg = m
      PROVE  IF item.deleted THEN \A r \in at[Len(items)] : r.msg # m ELSE item.row \in at[Len(items)]
  <2> HIDE DEF at
  <2> DEFINE Said(i) == IF item.deleted THEN \A r \in at[i] : r.msg # m ELSE item.row \in at[i]
             S == {i \in 0..Len(items) : i < k \/ Said(i)}
  <2>0. item = items[k] /\ item.deleted \in BOOLEAN /\ item.row.msg = m
    BY <1>3
  <2>1. 0 \in S
    OBVIOUS
  <2>2. ASSUME NEW i \in 1..Len(items), i - 1 \in S PROVE i \in S
    <3>1. CASE i < k
      BY <3>1
    <3>2. CASE items[i].row.msg = m
      <4>1. items[i] = item
        BY <1>3, <3>2
      <4>2. at[i] = ApplyTo(at[i - 1], item)
        BY <1>1, <3>2, <4>1
      <4>3. Said(i)
        BY <2>0, <4>2, ApplyRows
      <4> QED BY <4>3
    <3>3. CASE i >= k /\ items[i].row.msg # m
      <4>1. i - 1 >= k
        BY <1>3, <3>3
      <4>2. Said(i - 1)
        BY <2>2, <4>1
      <4>3. Said(i)
        <5>1. \A r : r.msg = m => (r \in at[i] <=> r \in at[i - 1])
          BY <1>1, <3>3, ApplyRows
        <5> QED BY <2>0, <4>2, <5>1
      <4> QED BY <4>3
    <3> QED BY <3>1, <3>2, <3>3
  <2> HIDE DEF S
  <2>3. 0..Len(items) \subseteq S
    BY <2>1, <2>2, Induct
  <2> QED BY <2>3 DEF S
<1> HIDE DEF at
<1>4. ASSUME NEW item, \E i \in 1..Len(items) : items[i].row.msg = m,
             \A i \in 1..Len(items) : items[i].row.msg = m => items[i] = item
      PROVE  IF item.deleted THEN \A r \in at[Len(items)] : r.msg # m ELSE item.row \in at[Len(items)]
  BY <1>3, <1>4
<1> QED BY <1>2, <1>4 DEF at

\* What the server had when it was asked are rows like any other.
LEMMA FromServerGood ==
  ASSUME ChatInv, NEW rs, NEW asof, FromServer(rs, asof)
  PROVE  rs \subseteq Row /\ GoodRows(rs)
<1> DEFINE l == SubSeq(log, 1, asof)
<1>1. LogInv(log) /\ Len(log) \in Nat /\ Len(log) <= MaxLog /\ asof \in 0..Len(log)
  BY DEF ChatInv, TypeOK, LogInv, FromServer
<1>2. LogInv(l) /\ Grows(l, log) /\ Len(l) <= MaxLog
  BY <1>1, LogPrefix, BoundAssumption
<1>3. rs \subseteq ServerRows(l)
  BY DEF FromServer
<1> HIDE DEF l
<1>4. ServerRows(l) \subseteq Row /\ GoodRows(ServerRows(l))
  BY <1>1, <1>2, ServerRowsGood DEF ChatInv, RowsInv
<1> QED BY <1>3, <1>4 DEF GoodRows

-----------------------------------------------------------------------------
(* The steps of the server. *)

\* Events are put behind those that wait, if the socket is open.
LEMMA Published ==
  ASSUME NEW l, inbox \in Seq(Event), \A i \in 1..Len(inbox) : GoodEvent(inbox[i], l),
         NEW events \in Seq(Event), \A i \in 1..Len(events) : GoodEvent(events[i], l),
         Publish(events)
  PROVE  /\ inbox' \in Seq(Event) /\ \A i \in 1..Len(inbox') : GoodEvent(inbox'[i], l)
         /\ up => /\ \A i \in 1..Len(inbox) : i \in 1..Len(inbox') /\ inbox'[i] = inbox[i]
                  /\ \A i \in 1..Len(events) : \E j \in 1..Len(inbox') : inbox'[j] = events[i]
<1>1. CASE ~ up
  BY <1>1 DEF Publish
<1>2. CASE up
  <2> DEFINE q == inbox \o events
  <2>1. /\ q \in Seq(Event) /\ Len(q) = Len(inbox) + Len(events)
        /\ Len(inbox) \in Nat /\ Len(events) \in Nat
        /\ \A i \in 1..Len(q) : q[i] = IF i <= Len(inbox) THEN inbox[i] ELSE events[i - Len(inbox)]
    OBVIOUS
  <2>2. inbox' = q
    BY <1>2 DEF Publish
  <2> HIDE DEF q
  <2>3. \A i \in 1..Len(q) : GoodEvent(q[i], l)
    <3> SUFFICES ASSUME NEW i \in 1..Len(q) PROVE GoodEvent(q[i], l)
      OBVIOUS
    <3>1. CASE i <= Len(inbox)
      BY <2>1, <3>1
    <3>2. CASE ~ i <= Len(inbox)
      <4>1. i - Len(inbox) \in 1..Len(events)
        BY <2>1, <3>2
      <4> QED BY <2>1, <3>2, <4>1
    <3> QED BY <3>1, <3>2
  <2>4. \A i \in 1..Len(inbox) : i \in 1..Len(q) /\ q[i] = inbox[i]
    BY <2>1
  <2>5. ASSUME NEW i \in 1..Len(events) PROVE \E j \in 1..Len(q) : q[j] = events[i]
    <3> DEFINE k == Len(inbox) + i
    <3>1. k \in 1..Len(q) /\ ~ (k <= Len(inbox)) /\ k - Len(inbox) = i
      BY <2>1
    <3> HIDE DEF k
    <3>2. q[k] = events[i]
      BY <2>1, <3>1
    <3> QED BY <3>1, <3>2
  <2> QED BY <2>1, <2>2, <2>3, <2>4, <2>5
<1> QED BY <1>1, <1>2

\* A step of the server: the log grows by at most one change, of which it tells
\* whoever is connected.
Grown(m) ==
  /\ LogInv(log') /\ Grows(log, log') /\ Len(log') <= MaxLog
  /\ \A n \in 0..Len(log) : SubSeq(log', 1, n) = SubSeq(log, 1, n)
  /\ log' # log => /\ Len(log') = Len(log) + 1
                   /\ log'[Len(log) + 1].msg = m
                   /\ up => \E j \in 1..Len(inbox') :
                               inbox'[j] \in {EventOf(log', m, "new"), EventOf(log', m, "changed")}

ServerKeeps ==
  /\ inbox' \in Seq(Event) /\ InboxInv'
  /\ up => \A i \in 1..Len(inbox) : i \in 1..Len(inbox') /\ inbox'[i] = inbox[i]
  /\ mine' \in [Mine -> {"new", "sending", "queued", "accepted", "stored", "refused", "done"}]
  /\ \A x \in Mine : mine[x] # "new" => mine'[x] # "new"
  /\ \A x \in Mine : mine'[x] \in Unstored => ~ Exists(log', x)

LEMMA GrownSame ==
  ASSUME ChatInv, NEW m, log' = log PROVE Grown(m)
BY DEF Grown, ChatInv, TypeOK, LogInv, Grows

LEMMA GrownAppend ==
  ASSUME ChatInv, NEW m \in Msg, NEW kind \in {"create", "delete"}, log' = LogAnd(m, kind),
         Len(log) < MaxLog, IF kind = "create" THEN ~ Exists(log, m) ELSE Exists(log, m)
  PROVE  /\ LogInv(log') /\ Grows(log, log') /\ Len(log') <= MaxLog /\ Len(log') = Len(log) + 1
         /\ log'[Len(log) + 1].msg = m
         /\ Exists(log', m)
         /\ \A x : x # m => (Exists(log', x) <=> Exists(log, x))
         /\ \A n \in 0..Len(log) : SubSeq(log', 1, n) = SubSeq(log, 1, n)
<1> DEFINE c == [msg |-> m, kind |-> kind]
<1>1. c \in Change /\ c.kind = kind /\ c.msg = m
  BY DEF Change
<1>2. LogInv(log) /\ Len(log) \in Nat /\ log' = Append(log, c)
  BY DEF ChatInv, LogInv, LogAnd
<1> HIDE DEF c
<1>3. /\ LogInv(log') /\ Grows(log, log') /\ Len(log') = Len(log) + 1
      /\ log'[Len(log) + 1] = c
      /\ Exists(log', m)
      /\ \A x : x # m => State(log', x) = State(log, x)
      /\ \A n \in 0..Len(log) : SubSeq(log', 1, n) = SubSeq(log, 1, n)
  BY <1>1, <1>2, LogAppend
<1>4. \A x : x # m => (Exists(log', x) <=> Exists(log, x))
  BY <1>2, <1>3, StateIs
<1>5. Len(log') <= MaxLog
  BY <1>2, <1>3, BoundAssumption
<1> QED BY <1>1, <1>3, <1>4, <1>5

LEMMA OldEvents ==
  ASSUME ChatInv, LogInv(log'), Grows(log, log')
  PROVE  \A i \in 1..Len(inbox) : GoodEvent(inbox[i], log')
<1> SUFFICES ASSUME NEW i \in 1..Len(inbox) PROVE GoodEvent(inbox[i], log')
  OBVIOUS
<1>1. GoodEvent(inbox[i], log) /\ LogInv(log)
  BY DEF ChatInv, InboxInv
<1> QED BY <1>1, GoodItemGrows DEF GoodEvent

LEMMA EventGood ==
  ASSUME NEW l, LogInv(l), Len(l) <= MaxLog, NEW m \in Msg, Exists(l, m),
         NEW kind \in {"new", "changed", "ack"}
  PROVE  /\ EventOf(l, m, kind) \in Event /\ GoodEvent(EventOf(l, m, kind), l)
         /\ EventOf(l, m, kind).kind = kind
<1>1. GoodItem(ServerItem(l, m), l)
  BY ItemOf
<1> QED BY <1>1 DEF EventOf, GoodEvent, GoodItem, Event

\* What the worker says of a stored message.
LEMMA ToldGood ==
  ASSUME NEW l, LogInv(l), Len(l) <= MaxLog, NEW m \in Msg, Exists(l, m)
  PROVE  LET q == Told(l, m) IN
         /\ q \in Seq(Event) /\ \A i \in 1..Len(q) : GoodEvent(q[i], l)
         /\ 1 \in 1..Len(q) /\ q[1] = EventOf(l, m, "new")
<1> DEFINE e == EventOf(l, m, "new")
           a == EventOf(l, m, "ack")
<1>1. e \in Event /\ a \in Event /\ GoodEvent(e, l) /\ GoodEvent(a, l)
  BY EventGood
<1>2. Told(l, m) = <<e, a>> \/ Told(l, m) = <<e>>
  BY DEF Told
<1> HIDE DEF e, a
<1>3. /\ <<e, a>> \in Seq(Event) /\ Len(<<e, a>>) = 2 /\ <<e, a>>[1] = e /\ <<e, a>>[2] = a
      /\ <<e>> \in Seq(Event) /\ Len(<<e>>) = 1 /\ <<e>>[1] = e
  BY <1>1
<1>4. CASE Told(l, m) = <<e, a>>
  <2>1. \A i \in 1..2 : i = 1 \/ i = 2
    OBVIOUS
  <2> QED BY <1>1, <1>3, <1>4, <2>1 DEF e
<1>5. CASE Told(l, m) = <<e>>
  <2>1. \A i \in 1..1 : i = 1
    OBVIOUS
  <2> QED BY <1>1, <1>3, <1>5, <2>1 DEF e
<1> QED BY <1>2, <1>4, <1>5

LEMMA PersistKeeps ==
  ASSUME ChatInv, NEW m \in Msg, Persist(m) PROVE Grown(m) /\ ServerKeeps
<1>1. /\ m \in Mine /\ mine[m] \in {"accepted", "refused"}
      /\ mine' = [mine EXCEPT ![m] = IF @ = "refused" THEN "done" ELSE "stored"]
      /\ Len(log) < MaxLog /\ log' = LogAnd(m, "create") /\ Publish(Told(log', m))
  BY DEF Persist
<1>2. ~ Exists(log, m)
  BY <1>1 DEF ChatInv, RowsInv, Unstored
<1>3. /\ LogInv(log') /\ Grows(log, log') /\ Len(log') <= MaxLog /\ Len(log') = Len(log) + 1
      /\ log'[Len(log) + 1].msg = m
      /\ Exists(log', m)
      /\ \A x : x # m => (Exists(log', x) <=> Exists(log, x))
      /\ \A n \in 0..Len(log) : SubSeq(log', 1, n) = SubSeq(log, 1, n)
  BY <1>1, <1>2, GrownAppend
<1> DEFINE q == Told(log', m)
<1>4. /\ q \in Seq(Event) /\ \A i \in 1..Len(q) : GoodEvent(q[i], log')
      /\ 1 \in 1..Len(q) /\ q[1] = EventOf(log', m, "new") /\ Publish(q)
  BY <1>1, <1>3, ToldGood
<1> HIDE DEF q
<1>5. inbox \in Seq(Event) /\ \A i \in 1..Len(inbox) : GoodEvent(inbox[i], log')
  BY <1>3, OldEvents DEF ChatInv, TypeOK
<1>6. /\ inbox' \in Seq(Event) /\ \A i \in 1..Len(inbox') : GoodEvent(inbox'[i], log')
      /\ up => /\ \A i \in 1..Len(inbox) : i \in 1..Len(inbox') /\ inbox'[i] = inbox[i]
               /\ \A i \in 1..Len(q) : \E j \in 1..Len(inbox') : inbox'[j] = q[i]
  BY <1>4, <1>5, Published
<1>7. up => \E j \in 1..Len(inbox') : inbox'[j] = EventOf(log', m, "new")
  BY <1>4, <1>6
<1>8. Grown(m)
  BY <1>3, <1>7 DEF Grown
<1>9. /\ mine' \in [Mine -> {"new", "sending", "queued", "accepted", "stored", "refused", "done"}]
      /\ \A x \in Mine : mine[x] # "new" => mine'[x] # "new"
      /\ \A x \in Mine : mine'[x] \in Unstored => x # m /\ mine[x] \in Unstored
  BY <1>1 DEF ChatInv, TypeOK, Unstored
<1>10. \A x \in Mine : mine'[x] \in Unstored => ~ Exists(log', x)
  BY <1>3, <1>9 DEF ChatInv, RowsInv
<1> QED BY <1>6, <1>8, <1>9, <1>10 DEF ServerKeeps, InboxInv

\* Steps that tell of one event.
LEMMA TellKeeps ==
  ASSUME ChatInv, NEW m \in Msg, NEW kind \in {"new", "changed"},
         LogInv(log'), Grows(log, log'), Len(log') <= MaxLog,
         \A n \in 0..Len(log) : SubSeq(log', 1, n) = SubSeq(log, 1, n),
         log' # log => Len(log') = Len(log) + 1 /\ log'[Len(log) + 1].msg = m,
         Exists(log', m), \A x \in Mine : Exists(log', x) => Exists(log, x),
         Publish(<<EventOf(log', m, kind)>>), mine' = mine
  PROVE  Grown(m) /\ ServerKeeps
<1> DEFINE e == EventOf(log', m, kind)
<1>1. e \in Event /\ GoodEvent(e, log')
  BY EventGood
<1>2. inbox \in Seq(Event) /\ \A i \in 1..Len(inbox) : GoodEvent(inbox[i], log')
  BY OldEvents DEF ChatInv, TypeOK
<1>3. Publish(<<e>>)
  OBVIOUS
<1> HIDE DEF e
<1>4. <<e>> \in Seq(Event) /\ Len(<<e>>) = 1 /\ \A i \in 1..1 : <<e>>[i] = e
  BY <1>1
<1>5. /\ inbox' \in Seq(Event) /\ \A i \in 1..Len(inbox') : GoodEvent(inbox'[i], log')
      /\ up => /\ \A i \in 1..Len(inbox) : i \in 1..Len(inbox') /\ inbox'[i] = inbox[i]
               /\ \E j \in 1..Len(inbox') : inbox'[j] = e
  <2> DEFINE q == <<e>>
  <2>1. /\ q \in Seq(Event) /\ \A i \in 1..Len(q) : GoodEvent(q[i], log')
        /\ 1 \in 1..Len(q) /\ q[1] = e /\ Publish(q)
    BY <1>1, <1>3, <1>4
  <2> HIDE DEF q
  <2>2. /\ inbox' \in Seq(Event) /\ \A i \in 1..Len(inbox') : GoodEvent(inbox'[i], log')
        /\ up => /\ \A i \in 1..Len(inbox) : i \in 1..Len(inbox') /\ inbox'[i] = inbox[i]
                 /\ \A i \in 1..Len(q) : \E j \in 1..Len(inbox') : inbox'[j] = q[i]
    BY <1>2, <2>1, Published
  <2> QED BY <2>1, <2>2
<1>6. Grown(m)
  BY <1>5 DEF Grown, e
<1>7. ServerKeeps
  BY <1>5 DEF ServerKeeps, InboxInv, ChatInv, TypeOK, RowsInv
<1> QED BY <1>6, <1>7

LEMMA ArriveKeeps ==
  ASSUME ChatInv, NEW m \in Msg, Arrive(m) PROVE Grown(m) /\ ServerKeeps
<1>1. /\ m \in Others /\ ~ Exists(log, m) /\ Len(log) < MaxLog /\ log' = LogAnd(m, "create")
      /\ Publish(<<EventOf(log', m, "new")>>) /\ mine' = mine
  BY DEF Arrive
<1>2. \A x \in Mine : x # m
  BY <1>1, MsgAssumption
<1> QED BY <1>1, <1>2, GrownAppend, TellKeeps

LEMMA DeleteKeeps ==
  ASSUME ChatInv, NEW m \in Msg, Delete(m) PROVE Grown(m) /\ ServerKeeps
<1>1. /\ State(log, m) = 1 /\ Len(log) < MaxLog /\ log' = LogAnd(m, "delete")
      /\ Publish(<<EventOf(log', m, "changed")>>) /\ mine' = mine
  BY DEF Delete
<1>2. Exists(log, m)
  BY <1>1, StateIs DEF ChatInv
<1> QED BY <1>1, <1>2, GrownAppend, TellKeeps

LEMMA RepublishKeeps ==
  ASSUME ChatInv, NEW m \in Msg, Republish(m) PROVE Grown(m) /\ ServerKeeps
<1> DEFINE q == Told(log, m)
<1>1. Exists(log, m) /\ log' = log /\ mine' = mine /\ Publish(q)
  BY DEF Republish
<1>2. Grown(m)
  BY <1>1, GrownSame
<1>3. q \in Seq(Event) /\ \A i \in 1..Len(q) : GoodEvent(q[i], log)
  BY <1>1, ToldGood DEF ChatInv, TypeOK
<1> HIDE DEF q
<1>4. inbox \in Seq(Event) /\ \A i \in 1..Len(inbox) : GoodEvent(inbox[i], log)
  BY DEF ChatInv, TypeOK, InboxInv
<1>5. /\ inbox' \in Seq(Event) /\ \A i \in 1..Len(inbox') : GoodEvent(inbox'[i], log)
      /\ up => \A i \in 1..Len(inbox) : i \in 1..Len(inbox') /\ inbox'[i] = inbox[i]
  BY <1>1, <1>3, <1>4, Published
<1>6. ServerKeeps
  BY <1>1, <1>5 DEF ServerKeeps, InboxInv, ChatInv, TypeOK, RowsInv
<1> QED BY <1>2, <1>6

LEMMA RejectKeeps ==
  ASSUME ChatInv, NEW m \in Msg, Reject(m) PROVE Grown(m) /\ ServerKeeps
<1> DEFINE r == [msg |-> m, id |-> FALSE, time |-> 0]
           e == [kind |-> "failed", item |-> [row |-> r, deleted |-> FALSE]]
<1>1. /\ m \in Mine /\ mine[m] \in {"accepted", "stored"} /\ log' = log
      /\ mine' = [mine EXCEPT ![m] = IF @ = "stored" THEN "done" ELSE "refused"]
      /\ Publish(<<e>>)
  BY DEF Reject
<1>2. Grown(m)
  BY <1>1, GrownSame
<1>3. 0 \in 0..2 * (MaxLog + MaxSkew) + 1
  BY BoundAssumption
<1>4. r \in Row /\ r.msg = m
  BY <1>3 DEF Row
<1> HIDE DEF r
<1>5. e \in Event /\ GoodEvent(e, log)
  BY <1>1, <1>4 DEF Event, Item, GoodEvent
<1> HIDE DEF e
<1>6. <<e>> \in Seq(Event) /\ Len(<<e>>) = 1 /\ \A i \in 1..1 : <<e>>[i] = e
  BY <1>5
<1>7. inbox \in Seq(Event) /\ \A i \in 1..Len(inbox) : GoodEvent(inbox[i], log)
  BY DEF ChatInv, TypeOK, InboxInv
<1>8. /\ inbox' \in Seq(Event) /\ \A i \in 1..Len(inbox') : GoodEvent(inbox'[i], log)
      /\ up => \A i \in 1..Len(inbox) : i \in 1..Len(inbox') /\ inbox'[i] = inbox[i]
  BY <1>1, <1>5, <1>6, <1>7, Published
<1>9. /\ mine' \in [Mine -> {"new", "sending", "queued", "accepted", "stored", "refused", "done"}]
      /\ \A x \in Mine : mine[x] # "new" => mine'[x] # "new"
      /\ \A x \in Mine : mine'[x] \in Unstored => mine[x] \in Unstored
  BY <1>1 DEF ChatInv, TypeOK, Unstored
<1>10. \A x \in Mine : mine'[x] \in Unstored => ~ Exists(log', x)
  BY <1>1, <1>9 DEF ChatInv, RowsInv
<1>11. ServerKeeps
  BY <1>1, <1>8, <1>9, <1>10 DEF ServerKeeps, InboxInv
<1> QED BY <1>2, <1>11

LEMMA ServerMoves ==
  ASSUME ChatInv, NEW m \in Msg, Server(m) PROVE Grown(m) /\ ServerKeeps
BY PersistKeeps, RejectKeeps, ArriveKeeps, DeleteKeeps, RepublishKeeps DEF Server

LEMMA ChatServer == ASSUME ChatInv, NEW m \in Msg, Server(m) PROVE ChatInv'
<1>1. Grown(m) /\ ServerKeeps
  BY ServerMoves
<1>2. /\ UNCHANGED <<rows, unread, cursor, listed, open, loaded, up, boot, older, feed, sync, newest,
                     raced, missing, base, counted, fresh>>
      /\ faults' \in 0..MaxFaults
  <2>1. UNCHANGED <<rows, unread, cursor, listed, open, loaded, up, boot, older, feed, sync, newest,
                    raced, missing, base, counted, fresh>>
    BY DEF Server, viewVars, fetchVars, historyVars
  <2>2. faults' = faults \/ (faults < MaxFaults /\ faults' = faults + 1)
    BY DEF Server, Persist, Reject, Arrive, Delete, Republish, Fault
  <2>3. faults \in 0..MaxFaults
    BY DEF ChatInv, TypeOK
  <2> QED BY <2>1, <2>2, <2>3, BoundAssumption
<1>3. LogInv(log) /\ LogInv(log') /\ Grows(log, log') /\ Len(log) \in Nat /\ Len(log') \in Nat
  BY <1>1 DEF ChatInv, Grown, LogInv
<1>4. TypeOK'
  <2>1. log' \in Seq(Change) /\ Len(log') <= MaxLog
    BY <1>1, <1>3 DEF Grown, LogInv
  <2>2. inbox' \in Seq(Event)
        /\ mine' \in [Mine -> {"new", "sending", "queued", "accepted", "stored", "refused", "done"}]
    BY <1>1 DEF ServerKeeps
  <2> QED BY <1>2, <2>1, <2>2, TypesAre DEF ChatInv, Types
<1>5. FeedInv'
  <2>1. cursor' <= Len(log') /\ (feed' # None => feed'.from = cursor')
    BY <1>2, <1>3 DEF ChatInv, FeedInv, TypeOK, Grows
  <2>2. ASSUME feed.at = "here"
        PROVE  /\ feed.next \in cursor..Len(log')
               /\ feed.more => feed.next > cursor
               /\ Len(feed.items) = feed.next - cursor
               /\ \A i, j \in 1..Len(feed.items) :
                    feed.items[i].row.msg = feed.items[j].row.msg => feed.items[i] = feed.items[j]
    <3>1. cursor \in Nat
      BY BoundAssumption DEF ChatInv, TypeOK
    <3>2. /\ feed.next \in cursor..Len(log) /\ (feed.more => feed.next > cursor)
          /\ Len(feed.items) = feed.next - cursor
          /\ \A i, j \in 1..Len(feed.items) :
               feed.items[i].row.msg = feed.items[j].row.msg => feed.items[i] = feed.items[j]
      BY <2>2 DEF ChatInv, FeedInv
    <3>3. Len(log) <= Len(log')
      BY <1>3 DEF Grows
    <3>4. feed.next \in cursor..Len(log')
      BY <1>3, <3>1, <3>2, <3>3
    <3> QED BY <3>2, <3>4
  <2>3. ASSUME feed.at = "here", NEW i \in 1..Len(feed.items)
        PROVE  /\ GoodItem(feed.items[i], log')
               /\ feed.items[i].row.msg = log'[cursor + i].msg
               /\ ItemState(feed.items[i]) >= (IF log'[cursor + i].kind = "create" THEN 1 ELSE 2)
    <3>1. /\ GoodItem(feed.items[i], log)
          /\ feed.items[i].row.msg = log[cursor + i].msg
          /\ ItemState(feed.items[i]) >= (IF log[cursor + i].kind = "create" THEN 1 ELSE 2)
      BY <2>3 DEF ChatInv, FeedInv, Reach
    <3>2. cursor + i \in 1..Len(log)
      BY <1>3, <2>3 DEF ChatInv, FeedInv, TypeOK
    <3>3. log'[cursor + i] = log[cursor + i]
      BY <1>3, <3>2 DEF Grows
    <3> QED BY <1>3, <3>1, <3>3, GoodItemGrows
  <2> QED BY <1>2, <2>1, <2>2, <2>3 DEF FeedInv, Reach
<1>6. ListsInv'
  <2>1. ASSUME NEW rs, NEW n, FromServer(rs, n)
        PROVE  n \in 0..Len(log') /\ rs \subseteq ServerRows(SubSeq(log', 1, n))
    <3>1. n \in 0..Len(log) /\ rs \subseteq ServerRows(SubSeq(log, 1, n))
      BY <2>1 DEF FromServer
    <3>2. SubSeq(log', 1, n) = SubSeq(log, 1, n)
      BY <1>1, <3>1 DEF Grown
    <3>3. rs \subseteq ServerRows(SubSeq(log', 1, n))
      BY <3>1, <3>2, Zenon
    <3>4. n \in 0..Len(log')
      BY <1>3, <3>1 DEF Grows
    <3> QED BY <3>3, <3>4
  <2> QED BY <1>2, <2>1 DEF ListsInv, FromServer, ChatInv
<1>7. RowsInv'
  <2>1. \A rs : GoodRows(rs) => GoodRows(rs)'
    <3> SUFFICES ASSUME NEW rs, GoodRows(rs)
                 PROVE  /\ \A r, s \in rs : r.msg = s.msg => r = s
                        /\ \A r \in rs : r.id => Exists(log', r.msg)
                        /\ \A r \in rs : r.msg \in Mine => mine'[r.msg] # "new"
      BY DEF GoodRows
    <3> QED BY <1>1, <1>3, GrowsKeeps DEF GoodRows, ServerKeeps
  <2> QED BY <1>1, <1>2, <2>1 DEF RowsInv, ChatInv, ServerKeeps
<1>8. SyncInv'
  BY <1>2 DEF ChatInv, SyncInv
<1> QED BY <1>1, <1>3, <1>4, <1>5, <1>6, <1>7, <1>8 DEF ChatInv, ServerKeeps

-----------------------------------------------------------------------------
(* The steps of the client leave the log alone. *)

\* What depends on the log and on what is on its way only.
Sources == LogInv(log) /\ InboxInv /\ FeedInv

LEMMA SourcesSame ==
  ASSUME ChatInv, UNCHANGED <<log, inbox, cursor, feed>> PROVE Sources'
BY DEF ChatInv, Sources, InboxInv, FeedInv, Reach

\* A list on its way comes from the server.
LEMMA ListsMove ==
  ASSUME ChatInv, log' = log,
         older'.at = "here" => older' = older \/ FromServer(older'.rows, older'.asof),
         boot'.at = "here" => boot' = boot \/ FromServer(boot'.rows, boot'.asof),
         sync'.at = "here" => sync' = sync \/ FromServer(sync'.rows, sync'.asof)
  PROVE  ListsInv'
BY DEF ChatInv, ListsInv, FromServer

LEMMA ChatSend ==
  ASSUME ChatInv, NEW m \in Mine, SendMessage(m) \/ Uploaded(m) \/ UploadFails(m) PROVE ChatInv'
<1>1. /\ mine[m] \in {"new", "sending"} /\ mine' \in [Mine -> {"new", "sending", "queued", "accepted", "stored", "refused", "done"}]
      /\ \A x \in Mine : mine'[x] # mine[x] => x = m
      /\ mine'[m] # "new"
      /\ \/ rows' \subseteq rows
         \/ mine[m] = "new" /\ \E ahead \in 0..MaxSkew : rows' = rows \cup {Optimistic(m, ahead)}
      /\ UNCHANGED <<unread, cursor, listed, open, loaded, up, inbox, boot, older, feed, sync, log,
                     newest, raced, missing, base, counted, fresh>>
      /\ faults' = faults \/ (faults < MaxFaults /\ faults' = faults + 1)
  <2>1. mine \in [Mine -> {"new", "sending", "queued", "accepted", "stored", "refused", "done"}]
    BY DEF ChatInv, TypeOK
  <2>2. CASE SendMessage(m)
    BY <2>1, <2>2 DEF SendMessage, Fault, viewVars, fetchVars, historyVars
  <2>3. CASE Uploaded(m)
    BY <2>1, <2>3 DEF Uploaded, viewVars, fetchVars, historyVars
  <2>4. CASE UploadFails(m)
    BY <2>1, <2>4 DEF UploadFails, viewVars, fetchVars, historyVars
  <2> QED BY <2>2, <2>3, <2>4
<1>2. Sources' /\ ListsInv'
  BY <1>1, SourcesSame, ListsMove
<1>3. ASSUME NEW ahead \in 0..MaxSkew
      PROVE  /\ Optimistic(m, ahead) \in Row
             /\ Optimistic(m, ahead).msg = m /\ ~ Optimistic(m, ahead).id
  <2>1. Len(log) \in Nat /\ Len(log) <= MaxLog /\ m \in Msg
    BY DEF ChatInv, TypeOK, Msg
  <2>2. 2 * (Len(log) + ahead) + 1 \in 0..2 * (MaxLog + MaxSkew) + 1
    BY <2>1, BoundAssumption
  <2> QED BY <2>1, <2>2 DEF Optimistic, Row
<1>4. TypeOK'
  <2>1. rows' \subseteq Row
    BY <1>1, <1>3 DEF ChatInv, TypeOK
  <2>2. faults' \in 0..MaxFaults
    BY <1>1, BoundAssumption DEF ChatInv, TypeOK
  <2> QED BY <1>1, <2>1, <2>2, TypesAre DEF ChatInv, Types
<1>5. RowsInv'
  <2>1. GoodRows(rows) /\ ~ Exists(log, m)
    BY <1>1 DEF ChatInv, RowsInv, Unstored
  <2>2. \A r \in rows : r.msg = m => mine[m] # "new"
    BY <2>1 DEF GoodRows
  <2>3. GoodRows(rows)'
    BY <1>1, <1>3, <2>1, <2>2 DEF GoodRows
  <2>4. \A rs : GoodRows(rs) => GoodRows(rs)'
    BY <1>1 DEF GoodRows
  <2>5. \A x \in Mine : mine'[x] \in Unstored => ~ Exists(log', x)
    BY <1>1, <2>1 DEF RowsInv, ChatInv
  <2> QED BY <1>1, <2>3, <2>4, <2>5 DEF RowsInv, ChatInv
<1> QED BY <1>1, <1>2, <1>4, <1>5 DEF ChatInv, Sources, SyncInv

-----------------------------------------------------------------------------
(* What the history says of a write. *)

LEMMA Greatest ==
  ASSUME NEW n \in Nat, NEW T, T \subseteq 1..n, T # {}
  PROVE  \E i \in T : \A j \in T : j <= i
<1> DEFINE D == {n - i : i \in T}
<1>1. D \subseteq Nat /\ D # {}
  <2>1. \A i \in T : n - i \in Nat
    OBVIOUS
  <2>2. PICK t \in T : TRUE
    OBVIOUS
  <2>3. n - t \in D
    OBVIOUS
  <2> QED BY <2>1, <2>3
<1> HIDE DEF D
<1>2. PICK d \in D : \A e \in D : ~ (e < d)
  BY <1>1, Least
<1> USE DEF D
<1>3. PICK i \in T : d = n - i
  BY <1>2
<1>4. \A j \in T : n - j \in D
  OBVIOUS
<1>5. \A j \in T : j <= i
  BY <1>2, <1>3, <1>4
<1> QED BY <1>5

LEMMA UpsertsIs ==
  ASSUME newest \in [Msg -> 0..2], raced \in BOOLEAN, missing \subseteq Msg,
         NEW items, Len(items) \in Nat, DOMAIN items = 1..Len(items),
         \A i \in 1..Len(items) : items[i].row.msg \in Msg,
         NEW left, left \subseteq 1..Len(items), Upserts(items, left)
  PROVE  /\ newest' \in [Msg -> 0..2] /\ raced' \in BOOLEAN /\ missing' \subseteq Msg
         /\ ~ raced' =>
              /\ ~ raced
              /\ \A m : m \in missing' <=>
                    \/ m \in missing /\ \A i \in 1..Len(items) : items[i].row.msg # m
                    \/ \E i \in left : items[i].row.msg = m
              /\ \A i \in 1..Len(items) : ~ (ItemState(items[i]) < newest[items[i].row.msg])
              /\ \A m \in Msg :
                   IF \E i \in 1..Len(items) : items[i].row.msg = m
                   THEN \E i \in 1..Len(items) : items[i].row.msg = m /\ newest'[m] = ItemState(items[i])
                   ELSE newest'[m] = newest[m]
<1> DEFINE last(m) == {i \in 1..Len(items) : items[i].row.msg = m}
           top(m) == CHOOSE i \in last(m) : \A j \in last(m) : j <= i
<1>1. /\ raced' = (raced \/ \E i \in 1..Len(items) : ItemState(items[i]) < newest[items[i].row.msg])
      /\ newest' = [m \in Msg |-> IF raced' THEN 0 ELSE IF last(m) = {} THEN newest[m]
                                  ELSE ItemState(items[top(m)])]
      /\ missing' = IF raced' THEN {}
                    ELSE {m \in missing : last(m) = {}} \cup {items[i].row.msg : i \in left}
  BY DEF Upserts
<1>2. ASSUME NEW m, last(m) # {} PROVE top(m) \in 1..Len(items) /\ items[top(m)].row.msg = m
  <2>1. \E i \in last(m) : \A j \in last(m) : j <= i
    BY <1>2, Greatest
  <2>2. top(m) \in last(m)
    BY <2>1
  <2> QED BY <2>2
<1>3. \A m : last(m) = {} <=> ~ \E i \in 1..Len(items) : items[i].row.msg = m
  OBVIOUS
<1> HIDE DEF last, top
<1>4. newest' \in [Msg -> 0..2] /\ raced' \in BOOLEAN
  BY <1>1 DEF ItemState
<1>6. missing' \subseteq Msg
  BY <1>1
<1>7. ~ raced' => \A m : m \in missing' <=>
                    \/ m \in missing /\ \A i \in 1..Len(items) : items[i].row.msg # m
                    \/ \E i \in left : items[i].row.msg = m
  <2> SUFFICES ASSUME ~ raced', NEW m
               PROVE  m \in missing' <=>
                        \/ m \in missing /\ \A i \in 1..Len(items) : items[i].row.msg # m
                        \/ \E i \in left : items[i].row.msg = m
    OBVIOUS
  <2>1. missing' = {x \in missing : last(x) = {}} \cup {items[i].row.msg : i \in left}
    BY <1>1
  <2>2. m \in missing' <=> (m \in missing /\ last(m) = {}) \/ \E i \in left : m = items[i].row.msg
    BY <2>1, Zenon
  <2> QED BY <1>3, <2>2, Zenon
<1>5. ASSUME ~ raced', NEW m \in Msg
      PROVE  IF \E i \in 1..Len(items) : items[i].row.msg = m
             THEN \E i \in 1..Len(items) : items[i].row.msg = m /\ newest'[m] = ItemState(items[i])
             ELSE newest'[m] = newest[m]
  <2>1. newest'[m] = IF last(m) = {} THEN newest[m] ELSE ItemState(items[top(m)])
    BY <1>1, <1>5
  <2> QED BY <1>2, <1>3, <2>1
<1> QED BY <1>1, <1>4, <1>5, <1>6, <1>7

LEMMA OverwritesIs ==
  ASSUME raced \in BOOLEAN, NEW list, NEW n, NEW same \in BOOLEAN, Overwrites(list, n, same)
  PROVE  /\ newest' \in [Msg -> 0..2] /\ raced' \in BOOLEAN /\ missing' \subseteq Msg
         /\ ~ raced' =>
              /\ ~ raced /\ same
              /\ \A m \in Msg \ missing' : State(SubSeq(log, 1, n), m) = 1
                                            => ServerRow(SubSeq(log, 1, n), m) \in list
              /\ \A m \in Msg : /\ newest'[m] = State(SubSeq(log, 1, n), m)
                                /\ ~ (newest[m] > State(SubSeq(log, 1, n), m))
<1> DEFINE l == SubSeq(log, 1, n)
<1>1. \A m : State(l, m) \in 0..2
  BY DEF State
<1>2. /\ raced' = (raced \/ ~ same \/ \E m \in Msg : newest[m] > State(l, m))
      /\ newest' = [m \in Msg |-> IF raced' THEN 0 ELSE State(l, m)]
      /\ missing' = IF raced' THEN {} ELSE {m \in Msg : State(l, m) = 1 /\ ServerRow(l, m) \notin list}
  BY DEF Overwrites
<1> HIDE DEF l
<1>3. newest' \in [Msg -> 0..2] /\ raced' \in BOOLEAN /\ missing' \subseteq Msg
  BY <1>1, <1>2
<1>4. ~ raced' => /\ ~ raced /\ same
                  /\ \A m \in Msg : newest'[m] = State(l, m) /\ ~ (newest[m] > State(l, m))
                  /\ \A m \in Msg \ missing' : State(l, m) = 1 => ServerRow(l, m) \in list
  BY <1>2
<1> QED BY <1>3, <1>4 DEF l

-----------------------------------------------------------------------------
(* The steps of the client, one by one. *)

\* What happens to rows happens to good rows.
LEMMA RowsMove ==
  ASSUME ChatInv, log' = log, GoodRows(rows'),
         \A m \in Mine : (mine[m] # "new" => mine'[m] # "new") /\ (mine'[m] \in Unstored => mine[m] \in Unstored),
         sync' = sync \/ sync' = None \/ GoodRows(sync'.rows)
  PROVE  RowsInv'
<1>1. \A rs : GoodRows(rs) => GoodRows(rs)'
  BY DEF GoodRows
<1>2. sync'.at = "latest" => GoodRows(sync'.rows)
  BY DEF ChatInv, RowsInv, None
<1>3. \A m \in Mine : mine'[m] \in Unstored => ~ Exists(log', m)
  BY DEF ChatInv, RowsInv
<1> QED BY <1>1, <1>2, <1>3 DEF RowsInv

\* Steps that only turn the view, or ask.
LEMMA ChatView ==
  ASSUME ChatInv, Close \/ Show \/ BootList \/ BootFails \/ LoadOlder \/ OlderFails
  PROVE  ChatInv'
<1>1. /\ UNCHANGED <<rows, cursor, loaded, mine, up, inbox, feed, sync, log, faults, newest, raced, missing, fresh>>
      /\ open' \in BOOLEAN /\ unread' \in {unread, 0} /\ base' \in {base, 0} /\ counted' \in {counted, {}}
      /\ listed' \in BOOLEAN
      /\ \/ boot' = boot
         \/ boot # None /\ boot' = [at |-> "list"]
         \/ boot # None /\ \E n \in {unread, 0} : boot' = [at |-> "latest", unread |-> n]
      /\ older' \in {older, None, [at |-> "asked"]}
  <2>1. open \in BOOLEAN /\ listed \in BOOLEAN
    BY DEF ChatInv, TypeOK
  <2>2. CASE Close
    BY <2>1, <2>2 DEF Close, fetchVars, historyVars
  <2>3. CASE Show
    BY <2>1, <2>3 DEF Show, MarkRead, fetchVars
  <2>4. CASE BootList
    <3>1. boot # None /\ (listed' = listed \/ listed' = TRUE)
      <4>1. boot.at = "list" /\ listed' \in {listed, TRUE}
        BY <2>4 DEF BootList
      <4>2. boot # None
        BY <4>1 DEF None
      <4> QED BY <4>1, <4>2, Zenon
    <3>2. \E n \in {unread, 0} : boot' = [at |-> "latest", unread |-> n]
      BY <2>4 DEF BootList
    <3> QED BY <2>1, <2>4, <3>1, <3>2 DEF BootList, historyVars
  <2>7. CASE BootFails
    BY <2>1, <2>7 DEF BootFails, viewVars, historyVars, None
  <2>5. CASE LoadOlder
    BY <2>1, <2>5 DEF LoadOlder, viewVars, historyVars
  <2>6. CASE OlderFails
    BY <2>1, <2>6 DEF OlderFails, viewVars, historyVars
  <2> QED BY <2>2, <2>3, <2>4, <2>5, <2>6, <2>7
<1>2. TypeOK'
  <2>1. /\ boot' \in {None} \cup [at: {"list"}] \cup [at: {"latest"}, unread: Nat]
                  \cup [at: {"here"}, unread: Nat, rows: SUBSET Row, asof: 0..MaxLog]
        /\ older' \in {None} \cup [at: {"asked"}] \cup List
        /\ unread' \in Nat /\ base' \in Nat /\ counted' \subseteq Others
    BY <1>1 DEF ChatInv, TypeOK
  <2> QED BY <1>1, <2>1 DEF ChatInv, TypeOK
<1>3. LogInv(log)' /\ InboxInv' /\ FeedInv'
  BY <1>1 DEF ChatInv, InboxInv, FeedInv, Reach
<1>4. ListsInv'
  BY <1>1, ListsMove DEF None
<1>5. RowsInv'
  BY <1>1, RowsMove DEF ChatInv, RowsInv
<1>6. SyncInv'
  BY <1>1 DEF ChatInv, SyncInv
<1> QED BY <1>2, <1>3, <1>4, <1>5, <1>6 DEF ChatInv

LEMMA RecoveringIs ==
  ASSUME ChatInv
  PROVE  Recovering = feed \/ (feed = None /\ Recovering = [at |-> "asked", from |-> cursor, left |-> MaxPages, since |-> TRUE])
BY DEF Recovering

LEMMA ChatOpen == ASSUME ChatInv, Open PROVE ChatInv'
<1>1. /\ UNCHANGED <<rows, cursor, listed, loaded, mine, up, inbox, boot, sync, log, faults, newest,
                     raced, missing, fresh>>
      /\ open' = TRUE /\ unread' = 0 /\ base' = 0 /\ counted' = {}
      /\ feed' = feed \/ feed' = [at |-> "asked", from |-> cursor, left |-> MaxPages, since |-> TRUE]
      /\ older' \in {older, [at |-> "asked"]}
  BY DEF Open, MarkRead, Recovering
<1>2. TypeOK'
  <2>1. feed' \in FeedType
    <3>1. feed \in FeedType /\ cursor \in 0..MaxLog
      BY DEF ChatInv, TypeOK, FeedType
    <3>2. [at |-> "asked", from |-> cursor, left |-> MaxPages, since |-> TRUE] \in FeedType
      BY <3>1, BoundAssumption DEF FeedType
    <3> HIDE DEF FeedType
    <3> QED BY <1>1, <3>1, <3>2
  <2>2. older' \in {None} \cup [at: {"asked"}] \cup List
    BY <1>1 DEF ChatInv, TypeOK
  <2> QED BY <1>1, <2>1, <2>2 DEF ChatInv, TypeOK, FeedType
<1>3. LogInv(log)' /\ InboxInv' /\ FeedInv'
  BY <1>1 DEF ChatInv, InboxInv, FeedInv, Reach
<1>4. ListsInv'
  BY <1>1, ListsMove
<1>5. RowsInv'
  BY <1>1, RowsMove DEF ChatInv, RowsInv
<1>6. SyncInv'
  BY <1>1 DEF ChatInv, SyncInv
<1> QED BY <1>2, <1>3, <1>4, <1>5, <1>6 DEF ChatInv

LEMMA ChatRestart == ASSUME ChatInv, Restart PROVE ChatInv'
<1>1. /\ rows' = {} /\ open' = FALSE /\ loaded' = FALSE /\ up' = FALSE /\ inbox' = <<>>
      /\ boot' = [at |-> "list"] /\ older' = None /\ feed' = None /\ sync' = None
      /\ fresh' = FALSE /\ base' = unread /\ counted' = {} /\ faults' \in 0..MaxFaults
      /\ missing' = {} /\ UNCHANGED <<unread, cursor, listed, log, newest, raced>>
  BY BoundAssumption DEF Restart, ChatInv, TypeOK
<1>2. /\ mine' \in [Mine -> {"new", "sending", "queued", "accepted", "stored", "refused", "done"}]
      /\ \A m \in Mine : (mine[m] # "new" => mine'[m] # "new") /\ (mine'[m] \in Unstored => mine[m] \in Unstored)
  BY DEF Restart, ChatInv, TypeOK, Unstored
<1>3. TypeOK'
  <2>1. inbox' \in Seq(Event)
    BY <1>1
  <2> QED BY <1>1, <1>2, <2>1 DEF ChatInv, TypeOK
<1>4. LogInv(log)' /\ InboxInv' /\ FeedInv' /\ ListsInv' /\ SyncInv'
  BY <1>1, ListsMove DEF ChatInv, InboxInv, FeedInv, SyncInv, None
<1>5. RowsInv'
  BY <1>1, <1>2, RowsMove DEF GoodRows
<1> QED BY <1>3, <1>4, <1>5 DEF ChatInv

LEMMA ChatConnect == ASSUME ChatInv, Connect PROVE ChatInv'
<1>1. /\ UNCHANGED <<rows, unread, cursor, listed, open, loaded, inbox, boot, older, sync, log, faults,
                     newest, raced, missing, base, counted>>
      /\ up' = TRUE /\ fresh' = FALSE
      /\ IF feed = None
         THEN feed' = [at |-> "asked", from |-> cursor, left |-> MaxPages, since |-> TRUE]
         ELSE feed' = [feed EXCEPT !.since = FALSE]
  BY DEF Connect, Recovering, viewVars, historyVars
<1>2. /\ mine' \in [Mine -> {"new", "sending", "queued", "accepted", "stored", "refused", "done"}]
      /\ \A m \in Mine : (mine[m] # "new" => mine'[m] # "new") /\ (mine'[m] \in Unstored => mine[m] \in Unstored)
  BY DEF Connect, ChatInv, TypeOK, Unstored
<1>3. /\ feed' \in [at: {"asked"}, from: 0..MaxLog, left: 1..MaxPages, since: BOOLEAN]
                   \cup [at: {"here"}, from: 0..MaxLog, left: 1..MaxPages, since: BOOLEAN,
                         next: 0..MaxLog, more: BOOLEAN, items: Seq(Item)]
      /\ feed'.from = cursor
      /\ feed'.at = "here" => /\ feed.at = "here" /\ feed'.next = feed.next /\ feed'.more = feed.more
                              /\ feed'.items = feed.items
  <2>1. CASE feed = None
    <3>1. cursor \in 0..MaxLog /\ MaxPages \in 1..MaxPages
      BY BoundAssumption DEF ChatInv, TypeOK
    <3>2. [at |-> "asked", from |-> cursor, left |-> MaxPages, since |-> TRUE] \in
            [at: {"asked"}, from: 0..MaxLog, left: 1..MaxPages, since: BOOLEAN]
      BY <3>1
    <3>3. feed' = [at |-> "asked", from |-> cursor, left |-> MaxPages, since |-> TRUE]
      BY <1>1, <2>1
    <3>4. feed'.from = cursor /\ feed'.at # "here"
      BY <3>3
    <3> QED BY <3>2, <3>3, <3>4
  <2>2. CASE feed # None
    <3>1. feed.from = cursor
      BY <2>2 DEF ChatInv, FeedInv
    <3>2. CASE feed \in [at: {"asked"}, from: 0..MaxLog, left: 1..MaxPages, since: BOOLEAN]
      BY <1>1, <2>2, <3>1, <3>2
    <3>3. CASE feed \in [at: {"here"}, from: 0..MaxLog, left: 1..MaxPages, since: BOOLEAN,
                         next: 0..MaxLog, more: BOOLEAN, items: Seq(Item)]
      BY <1>1, <2>2, <3>1, <3>3
    <3> QED BY <2>2, <3>2, <3>3 DEF ChatInv, TypeOK
  <2> QED BY <2>1, <2>2
<1>4. TypeOK'
  BY <1>1, <1>2, <1>3, ZenonT(40) DEF ChatInv, TypeOK
<1>5. FeedInv'
  BY <1>1, <1>3, SMTT(30) DEF ChatInv, FeedInv, Reach
<1>6. LogInv(log)' /\ InboxInv' /\ ListsInv' /\ SyncInv'
  BY <1>1, ListsMove DEF ChatInv, InboxInv, SyncInv
<1>7. RowsInv'
  BY <1>1, <1>2, RowsMove DEF ChatInv, RowsInv
<1> QED BY <1>4, <1>5, <1>6, <1>7 DEF ChatInv

LEMMA ChatBreaks == ASSUME ChatInv, Breaks PROVE ChatInv'
<1>1. /\ UNCHANGED <<rows, unread, cursor, listed, open, loaded, mine, boot, older, feed, sync, log,
                     newest, raced, missing, base, counted, fresh>>
      /\ up' = FALSE /\ inbox' = <<>> /\ faults' \in 0..MaxFaults
  BY BoundAssumption DEF Breaks, ChatInv, TypeOK, viewVars, fetchVars, historyVars
<1>2. TypeOK'
  <2>1. inbox' \in Seq(Event)
    BY <1>1
  <2>2. rows' \subseteq Row /\ unread' \in Nat /\ cursor' \in 0..MaxLog /\ up' \in BOOLEAN
        /\ listed' \in BOOLEAN /\ open' \in BOOLEAN /\ loaded' \in BOOLEAN
        /\ mine' \in [Mine -> {"new", "sending", "queued", "accepted", "stored", "refused", "done"}]
    BY <1>1 DEF ChatInv, TypeOK
  <2>3. feed' \in FeedType
    BY <1>1 DEF ChatInv, TypeOK, FeedType
  <2>4. /\ boot' \in {None} \cup [at: {"list"}] \cup [at: {"latest"}, unread: Nat]
                  \cup [at: {"here"}, unread: Nat, rows: SUBSET Row, asof: 0..MaxLog]
        /\ older' \in {None} \cup [at: {"asked"}] \cup List
        /\ sync' \in {None} \cup [at: {"latest"}, own: BOOLEAN, rows: SUBSET Row, unread: Nat, loaded: BOOLEAN]
                  \cup [at: {"here"}, own: {TRUE}, rows: SUBSET Row, asof: 0..MaxLog, unread: Nat,
                        loaded: BOOLEAN]
    BY <1>1 DEF ChatInv, TypeOK
  <2>5. /\ log' \in Seq(Change) /\ Len(log') <= MaxLog
        /\ newest' \in [Msg -> 0..2]
        /\ raced' \in BOOLEAN /\ missing' \subseteq Msg /\ fresh' \in BOOLEAN
        /\ base' \in Nat /\ counted' \subseteq Others
    BY <1>1 DEF ChatInv, TypeOK
  <2> QED BY <1>1, <2>1, <2>2, <2>3, <2>4, <2>5 DEF TypeOK, FeedType
<1>3. LogInv(log)' /\ InboxInv' /\ FeedInv' /\ ListsInv' /\ SyncInv'
  BY <1>1, ListsMove DEF ChatInv, InboxInv, FeedInv, SyncInv, Reach
<1>4. RowsInv'
  BY <1>1, RowsMove DEF ChatInv, RowsInv
<1> QED BY <1>2, <1>3, <1>4 DEF ChatInv

LEMMA ChatFeedFails == ASSUME ChatInv, FeedFails PROVE ChatInv'
<1>1. /\ UNCHANGED <<rows, unread, cursor, listed, open, loaded, mine, up, inbox, boot, older, sync, log,
                     faults, newest, raced, missing, base, counted, fresh>>
      /\ feed' = None
  BY DEF FeedFails, viewVars, historyVars
<1>2. TypeOK'
  BY <1>1, TypesAre DEF ChatInv, Types, FeedType
<1>3. LogInv(log)' /\ InboxInv' /\ FeedInv' /\ ListsInv' /\ SyncInv'
  BY <1>1, ListsMove DEF ChatInv, InboxInv, FeedInv, SyncInv, None
<1>4. RowsInv'
  BY <1>1, RowsMove DEF ChatInv, RowsInv
<1> QED BY <1>2, <1>3, <1>4 DEF ChatInv

\* A part of what the server has now.
LEMMA NowFromServer ==
  ASSUME ChatInv, NEW rs, rs \subseteq ServerRows(log)
  PROVE  Len(log) \in 0..MaxLog /\ rs \subseteq Row /\ FromServer(rs, Len(log))
<1>1. Len(log) \in Nat /\ Len(log) <= MaxLog /\ SubSeq(log, 1, Len(log)) = log
  BY DEF ChatInv, TypeOK
<1>2. rs \subseteq ServerRows(SubSeq(log, 1, Len(log)))
  BY <1>1, Zenon
<1>3. FromServer(rs, Len(log))
  BY <1>1, <1>2 DEF FromServer
<1> QED BY <1>1, <1>3, FromServerGood, BoundAssumption

LEMMA ChatOlderAnswers == ASSUME ChatInv, OlderAnswers PROVE ChatInv'
<1>1. UNCHANGED <<rows, unread, cursor, listed, open, loaded, mine, up, inbox, boot, feed, sync, log, faults,
                  newest, raced, missing, base, counted, fresh>>
  BY DEF OlderAnswers, viewVars, historyVars
<1>2. PICK page \in SUBSET ServerRows(log) : older' = [at |-> "here", rows |-> page, asof |-> Len(log)]
  BY DEF OlderAnswers
<1>3. Len(log) \in 0..MaxLog /\ page \subseteq Row /\ FromServer(page, Len(log))
  BY <1>2, NowFromServer
<1>4. older' \in List
  BY <1>2, <1>3 DEF List
<1>5. TypeOK'
  BY <1>1, <1>4, TypesAre DEF ChatInv, Types, OlderType
<1>6. LogInv(log)' /\ InboxInv' /\ FeedInv' /\ SyncInv'
  BY <1>1 DEF ChatInv, InboxInv, FeedInv, SyncInv, Reach
<1>7. ListsInv'
  BY <1>1, <1>2, <1>3, ListsMove
<1>8. RowsInv'
  BY <1>1, RowsMove DEF ChatInv, RowsInv
<1> QED BY <1>5, <1>6, <1>7, <1>8 DEF ChatInv

LEMMA ChatBootAnswers == ASSUME ChatInv, BootAnswers PROVE ChatInv'
<1> DEFINE rs == IF listed THEN LatestRows(log) ELSE {}
<1>1. /\ UNCHANGED <<rows, unread, cursor, listed, open, loaded, mine, up, inbox, older, feed, sync, log,
                     faults, newest, raced, missing, base, counted, fresh>>
      /\ boot.at = "latest"
      /\ boot' = [at |-> "here", unread |-> boot.unread, rows |-> rs, asof |-> Len(log)]
  BY DEF BootAnswers, viewVars, historyVars
<1>2. boot.unread \in Nat /\ boot # None
  BY <1>1 DEF ChatInv, TypeOK, None
<1>3. rs \subseteq ServerRows(log)
  BY DEF LatestRows
<1> HIDE DEF rs
<1>4. Len(log) \in 0..MaxLog /\ rs \subseteq Row /\ FromServer(rs, Len(log))
  BY <1>3, NowFromServer
<1>5. boot' \in [at: {"here"}, unread: Nat, rows: SUBSET Row, asof: 0..MaxLog]
  BY <1>1, <1>2, <1>4
<1>6. TypeOK'
  BY <1>1, <1>5, TypesAre DEF ChatInv, Types, BootType
<1>7. Sources' /\ ListsInv'
  BY <1>1, <1>4, SourcesSame, ListsMove
<1>8. SyncInv'
  BY <1>1, <1>2 DEF ChatInv, SyncInv
<1>9. RowsInv'
  BY <1>1, RowsMove DEF ChatInv, RowsInv
<1> QED BY <1>6, <1>7, <1>8, <1>9 DEF ChatInv, Sources

LEMMA ChatSyncSnapshot == ASSUME ChatInv, SyncSnapshot PROVE ChatInv'
<1>1. /\ UNCHANGED <<rows, unread, cursor, listed, open, loaded, mine, up, inbox, boot, older, feed, log,
                     newest, raced, missing, base, counted, fresh>>
      /\ faults' \in 0..MaxFaults /\ boot = None
  BY BoundAssumption DEF SyncSnapshot, ChatInv, TypeOK, viewVars, historyVars
<1>2. PICK own \in BOOLEAN :
        sync' = [at |-> "latest", own |-> own, rows |-> rows, unread |-> unread, loaded |-> loaded]
  BY DEF SyncSnapshot, ChatInv, TypeOK
<1>3. sync' \in [at: {"latest"}, own: BOOLEAN, rows: SUBSET Row, unread: Nat, loaded: BOOLEAN]
  BY <1>2 DEF ChatInv, TypeOK
<1>4. TypeOK'
  BY <1>1, <1>3, TypesAre DEF ChatInv, Types, SyncType
<1>5. Sources' /\ ListsInv'
  BY <1>1, <1>2, SourcesSame, ListsMove
<1>6. SyncInv'
  BY <1>1, <1>2 DEF SyncInv
<1>7. RowsInv'
  BY <1>1, <1>2, RowsMove DEF ChatInv, RowsInv
<1> QED BY <1>4, <1>5, <1>6, <1>7 DEF ChatInv, Sources

LEMMA SyncIs ==
  ASSUME ChatInv, sync.at \in {"latest", "here"}
  PROVE  /\ sync.rows \subseteq Row /\ sync.unread \in Nat /\ sync.loaded \in BOOLEAN
         /\ sync.own \in BOOLEAN /\ GoodRows(sync.rows)
<1>1. CASE sync.at = "latest"
  <2>1. sync \in SyncType /\ GoodRows(sync.rows)
    BY <1>1, TypesAre DEF ChatInv, Types, RowsInv
  <2>2. sync \in [at: {"latest"}, own: BOOLEAN, rows: SUBSET Row, unread: Nat, loaded: BOOLEAN]
    <3>1. sync # None
      BY <1>1 DEF None
    <3>2. ASSUME sync \in [at: {"here"}, own: {TRUE}, rows: SUBSET Row, asof: 0..MaxLog,
                           unread: Nat, loaded: BOOLEAN]
          PROVE  FALSE
      BY <1>1, <3>2
    <3> QED BY <2>1, <3>1, <3>2, Zenon DEF SyncType
  <2> QED BY <2>1, <2>2
<1>2. CASE sync.at = "here"
  <2>1. FromServer(sync.rows, sync.asof)
    BY <1>2 DEF ChatInv, ListsInv
  <2>2. GoodRows(sync.rows)
    BY <2>1, FromServerGood
  <2>3. sync \in SyncType /\ sync.at # "none"
    BY <1>2, TypesAre DEF ChatInv, Types
  <2>4. sync \in [at: {"here"}, own: {TRUE}, rows: SUBSET Row, asof: 0..MaxLog, unread: Nat,
                 loaded: BOOLEAN]
    <3>1. sync # None
      BY <1>2 DEF None
    <3>2. ASSUME sync \in [at: {"latest"}, own: BOOLEAN, rows: SUBSET Row, unread: Nat,
                           loaded: BOOLEAN]
          PROVE  FALSE
      BY <1>2, <3>2
    <3> QED BY <2>3, <3>1, <3>2, Zenon DEF SyncType
  <2> QED BY <2>2, <2>4
<1> QED BY <1>1, <1>2

LEMMA ChatSyncAnswers == ASSUME ChatInv, SyncAnswers PROVE ChatInv'
<1> DEFINE rs == LatestRows(log)
<1>1. /\ UNCHANGED <<rows, unread, cursor, listed, open, loaded, mine, up, inbox, boot, older, feed, log,
                     faults, newest, raced, missing, base, counted, fresh>>
      /\ sync.at = "latest"
      /\ sync' = [at |-> "here", own |-> TRUE, rows |-> rs, asof |-> Len(log),
                  unread |-> sync.unread, loaded |-> sync.loaded]
  BY DEF SyncAnswers, viewVars, historyVars
<1>2. sync.unread \in Nat /\ sync.loaded \in BOOLEAN
  BY <1>1, SyncIs
<1>3. rs \subseteq ServerRows(log)
  BY DEF LatestRows
<1> HIDE DEF rs
<1>4. Len(log) \in 0..MaxLog /\ rs \subseteq Row /\ FromServer(rs, Len(log))
  BY <1>3, NowFromServer
<1>5. sync' \in [at: {"here"}, own: {TRUE}, rows: SUBSET Row, asof: 0..MaxLog, unread: Nat, loaded: BOOLEAN]
  BY <1>1, <1>2, <1>4
<1>6. TypeOK'
  BY <1>1, <1>5 DEF ChatInv, TypeOK
<1>7. Sources' /\ ListsInv'
  BY <1>1, <1>4, SourcesSame, ListsMove
<1>8. SyncInv'
  BY <1>1 DEF SyncInv
<1>9. GoodRows(rows) /\ GoodRows(sync'.rows)
  BY <1>1, <1>4, FromServerGood DEF ChatInv, RowsInv
<1>10. RowsInv'
  BY <1>1, <1>9, RowsMove
<1> QED BY <1>6, <1>7, <1>8, <1>10 DEF ChatInv, Sources

LEMMA ChatSyncFails == ASSUME ChatInv, SyncFails PROVE ChatInv'
<1>1. /\ UNCHANGED <<rows, unread, cursor, listed, open, loaded, mine, up, inbox, boot, older, feed, log,
                     faults, newest, raced, missing, base, counted, fresh>>
      /\ sync' = None
  BY DEF SyncFails, viewVars, historyVars
<1>2. TypeOK'
  BY <1>1 DEF ChatInv, TypeOK
<1>3. Sources' /\ ListsInv' /\ SyncInv'
  BY <1>1, SourcesSame, ListsMove DEF SyncInv, None
<1>4. RowsInv'
  BY <1>1, RowsMove DEF ChatInv, RowsInv
<1> QED BY <1>2, <1>3, <1>4 DEF ChatInv, Sources

\* Copies that differ from what they overwrite are a race, and so is a badge that does.
LEMMA SyncEndsIs ==
  ASSUME ChatInv, SyncEnds
  PROVE  /\ UNCHANGED <<cursor, open, mine, up, inbox, boot, older, feed, log, faults, fresh>>
         /\ sync' = None /\ rows' = sync.rows /\ unread' = sync.unread
         /\ loaded' = sync.loaded /\ listed' = (listed \/ sync.own)
         /\ \/ /\ sync.at = "latest" /\ UNCHANGED <<newest, missing, base, counted>>
               /\ raced' = (raced \/ sync.rows # rows \/ sync.unread # unread)
            \/ /\ sync.at = "here" /\ FromServer(sync.rows, sync.asof)
               /\ \E same \in BOOLEAN :
                    same = (sync.unread = unread) /\ Overwrites(sync.rows, sync.asof, same)
               /\ Recount(sync.unread)
<1>1. CASE sync.at = "latest"
  BY <1>1 DEF SyncEnds
<1>2. CASE sync.at = "here"
  <2> DEFINE same == sync.unread = unread
  <2>1. Overwrites(sync.rows, sync.asof, same) /\ Recount(sync.unread) /\ same \in BOOLEAN
    BY <1>2 DEF SyncEnds
  <2>2. same = (sync.unread = unread)
    OBVIOUS
  <2> HIDE DEF same
  <2>3. FromServer(sync.rows, sync.asof)
    BY <1>2 DEF ChatInv, ListsInv
  <2>4. \E s \in BOOLEAN : s = (sync.unread = unread) /\ Overwrites(sync.rows, sync.asof, s)
    BY <2>1, <2>2
  <2>5. /\ UNCHANGED <<cursor, open, mine, up, inbox, boot, older, feed, log, faults, fresh>>
        /\ sync' = None /\ rows' = sync.rows /\ unread' = sync.unread
        /\ loaded' = sync.loaded /\ listed' = (listed \/ sync.own)
    BY DEF SyncEnds
  <2> QED BY <1>2, <2>1, <2>3, <2>4, <2>5
<1> QED BY <1>1, <1>2 DEF SyncEnds

LEMMA ChatSyncEnds == ASSUME ChatInv, SyncEnds PROVE ChatInv'
<1>1. /\ UNCHANGED <<cursor, open, mine, up, inbox, boot, older, feed, log, faults, fresh>>
      /\ sync' = None /\ rows' = sync.rows /\ unread' = sync.unread
      /\ loaded' = sync.loaded /\ listed' = (listed \/ sync.own)
      /\ sync.at \in {"latest", "here"}
  BY SyncEndsIs
<1>2. /\ sync.rows \subseteq Row /\ sync.unread \in Nat /\ sync.loaded \in BOOLEAN
      /\ sync.own \in BOOLEAN /\ GoodRows(sync.rows)
  BY <1>1, SyncIs
<1>3. /\ newest' \in [Msg -> 0..2] /\ raced' \in BOOLEAN /\ missing' \subseteq Msg
      /\ base' \in Nat /\ counted' \subseteq Others
  <2>1. /\ newest \in [Msg -> 0..2] /\ raced \in BOOLEAN /\ missing \subseteq Msg
        /\ base \in Nat /\ counted \subseteq Others
    BY DEF ChatInv, TypeOK
  <2>2. CASE /\ UNCHANGED <<newest, missing, base, counted>>
             /\ raced' = (raced \/ sync.rows # rows \/ sync.unread # unread)
    BY <2>1, <2>2
  <2>3. CASE Recount(sync.unread) /\ \E same \in BOOLEAN : Overwrites(sync.rows, sync.asof, same)
    <3>1. newest' \in [Msg -> 0..2] /\ raced' \in BOOLEAN /\ missing' \subseteq Msg
      BY <2>1, <2>3, OverwritesIs
    <3>2. base' \in Nat /\ counted' \subseteq Others
      BY <1>2, <2>1, <2>3 DEF Recount
    <3> QED BY <3>1, <3>2
  <2> QED BY <2>2, <2>3, SyncEndsIs
<1>4. TypeOK'
  BY <1>1, <1>2, <1>3 DEF ChatInv, TypeOK
<1>5. Sources' /\ ListsInv' /\ SyncInv'
  BY <1>1, SourcesSame, ListsMove DEF SyncInv, None
<1>6. RowsInv'
  BY <1>1, <1>2, RowsMove
<1> QED BY <1>4, <1>5, <1>6 DEF ChatInv, Sources

LEMMA BootEndsIs ==
  ASSUME ChatInv, BootEnds
  PROVE  /\ UNCHANGED <<cursor, listed, open, mine, up, inbox, older, feed, sync, log, faults, fresh>>
         /\ boot.at = "here" /\ boot' = None /\ boot # None /\ boot.unread \in Nat
         /\ unread' = boot.unread /\ base' = boot.unread /\ counted' = {} /\ loaded' = FALSE
         /\ FromServer(boot.rows, boot.asof)
         /\ \/ /\ UNCHANGED <<rows, newest, missing>>
               /\ raced' = (raced \/ boot.unread # unread)
            \/ /\ rows' = boot.rows
               /\ \E same \in BOOLEAN : Overwrites(boot.rows, boot.asof, same)
<1>1. /\ UNCHANGED <<cursor, listed, open, mine, up, inbox, older, feed, sync, log, faults, fresh>>
      /\ boot.at = "here" /\ boot' = None
      /\ unread' = boot.unread /\ base' = boot.unread /\ counted' = {} /\ loaded' = FALSE
  BY DEF BootEnds
<1>2. boot # None /\ boot.unread \in Nat /\ FromServer(boot.rows, boot.asof)
  BY <1>1 DEF ChatInv, TypeOK, ListsInv, None
<1>3. CASE listed /\ Cardinality(rows) > 1
  BY <1>1, <1>2, <1>3 DEF BootEnds
<1>4. CASE ~ (listed /\ Cardinality(rows) > 1)
  <2> DEFINE same == boot.unread = unread
  <2>1. rows' = boot.rows /\ Overwrites(boot.rows, boot.asof, same) /\ same \in BOOLEAN
    BY <1>4 DEF BootEnds
  <2> HIDE DEF same
  <2>2. \E s \in BOOLEAN : Overwrites(boot.rows, boot.asof, s)
    BY <2>1
  <2> QED BY <1>1, <1>2, <2>1, <2>2
<1> QED BY <1>3, <1>4

LEMMA ChatBootEnds == ASSUME ChatInv, BootEnds PROVE ChatInv'
<1>1. /\ UNCHANGED <<cursor, listed, open, mine, up, inbox, older, feed, sync, log, faults, fresh>>
      /\ boot' = None /\ boot # None /\ boot.unread \in Nat
      /\ unread' = boot.unread /\ base' = boot.unread /\ counted' = {} /\ loaded' = FALSE
      /\ FromServer(boot.rows, boot.asof)
      /\ rows' = rows \/ rows' = boot.rows
  BY BootEndsIs
<1>2. newest' \in [Msg -> 0..2] /\ raced' \in BOOLEAN /\ missing' \subseteq Msg
  <2>1. raced \in BOOLEAN /\ newest \in [Msg -> 0..2] /\ missing \subseteq Msg
    BY DEF ChatInv, TypeOK
  <2>2. CASE UNCHANGED <<newest, missing>> /\ raced' = (raced \/ boot.unread # unread)
    BY <2>1, <2>2
  <2>3. CASE \E same \in BOOLEAN : Overwrites(boot.rows, boot.asof, same)
    BY <2>1, <2>3, OverwritesIs
  <2> QED BY <2>2, <2>3, BootEndsIs
<1>3. rows' \subseteq Row /\ GoodRows(rows')
  BY <1>1, FromServerGood DEF ChatInv, TypeOK, RowsInv
<1>4. TypeOK'
  BY <1>1, <1>2, <1>3, TypesAre DEF ChatInv, Types, BootType
<1>5. Sources' /\ ListsInv'
  BY <1>1, SourcesSame, ListsMove DEF None
<1>6. SyncInv'
  BY <1>1 DEF ChatInv, SyncInv
<1>7. RowsInv'
  BY <1>1, <1>3, RowsMove
<1> QED BY <1>4, <1>5, <1>6, <1>7 DEF ChatInv, Sources

LEMMA ChatOlderApplies == ASSUME ChatInv, OlderApplies PROVE ChatInv'
<1>1. /\ UNCHANGED <<unread, cursor, listed, open, mine, up, inbox, boot, feed, sync, log, faults, fresh>>
      /\ older.at = "here" /\ older' = None /\ rows' = older.rows /\ loaded' = TRUE
      /\ Overwrites(older.rows, older.asof, TRUE) /\ Recount(unread)
  BY DEF OlderApplies
<1>2. newest' \in [Msg -> 0..2] /\ raced' \in BOOLEAN /\ missing' \subseteq Msg
  BY <1>1, OverwritesIs DEF ChatInv, TypeOK
<1>3. rows' \subseteq Row /\ GoodRows(rows')
  BY <1>1, FromServerGood DEF ChatInv, ListsInv
<1>4. base' \in Nat /\ counted' \subseteq Others
  BY <1>1 DEF Recount, ChatInv, TypeOK
<1>5. TypeOK'
  BY <1>1, <1>2, <1>3, <1>4, TypesAre DEF ChatInv, Types, OlderType
<1>6. Sources' /\ ListsInv'
  BY <1>1, SourcesSame, ListsMove DEF None
<1>7. SyncInv'
  BY <1>1 DEF ChatInv, SyncInv
<1>8. RowsInv'
  BY <1>1, <1>3, RowsMove
<1> QED BY <1>5, <1>6, <1>7, <1>8 DEF ChatInv, Sources

\* An acknowledgement changes what is known of a row, and the row of no other message.
Acked(r, m) == IF r.msg = m /\ ~ r.id THEN [r EXCEPT !.id = TRUE] ELSE r

LEMMA AckGood ==
  ASSUME rows \subseteq Row, GoodRows(rows), NEW m, Exists(log, m), HandleAck(m)
  PROVE  /\ rows' \subseteq Row /\ GoodRows(rows')
         /\ \A r \in rows : r.id => r \in rows'
         /\ \A s \in rows' : \E r \in rows : r.msg = s.msg
<1>1. rows' = {Acked(r, m) : r \in rows}
  BY DEF HandleAck, Acked
<1>2. ASSUME NEW r \in rows
      PROVE  /\ Acked(r, m) \in Row /\ Acked(r, m).msg = r.msg
             /\ Acked(r, m).id => r.id \/ r.msg = m
             /\ r.id => Acked(r, m) = r
  BY DEF Acked, Row
<1>3. \A s \in rows' : \E r \in rows : s = Acked(r, m) /\ r.msg = s.msg
  BY <1>1, <1>2
<1>4. rows' \subseteq Row
  BY <1>1, <1>2
<1>5. \A r, s \in rows' : r.msg = s.msg => r = s
  BY <1>3 DEF GoodRows
<1>6. \A s \in rows' : s.id => Exists(log, s.msg)
  BY <1>2, <1>3 DEF GoodRows
<1>7. \A s \in rows' : s.msg \in Mine => mine[s.msg] # "new"
  BY <1>3 DEF GoodRows
<1>8. \A r \in rows : r.id => r \in rows'
  BY <1>1, <1>2
<1> QED BY <1>3, <1>4, <1>5, <1>6, <1>7, <1>8 DEF GoodRows

\* What the next event does.
LEMMA HandleCases ==
  ASSUME ChatInv, Handle
  PROVE  LET e == inbox[1] IN
         /\ UNCHANGED <<cursor, listed, open, loaded, mine, up, boot, older, feed, sync, log, faults, fresh>>
         /\ up /\ e \in Event /\ GoodEvent(e, log)
         /\ inbox' \in Seq(Event) /\ Len(inbox) \in Nat /\ Len(inbox) > 0 /\ Len(inbox') = Len(inbox) - 1
         /\ \A i \in 1..Len(inbox') : i + 1 \in 1..Len(inbox) /\ inbox'[i] = inbox[i + 1]
         /\ \/ e.kind \in {"new", "changed"} /\ HandleItem(e)
            \/ e.kind = "ack" /\ HandleAck(e.item.row.msg)
            \/ e.kind = "failed" /\ HandleFailed(e.item.row.msg)
<1>1. inbox \in Seq(Event) /\ inbox # <<>>
  BY DEF ChatInv, TypeOK, Handle
<1>2. Head(inbox) = inbox[1] /\ Len(inbox) \in Nat /\ Len(inbox) > 0 /\ inbox[1] \in Event
  BY <1>1
<1>3. Tail(inbox) \in Seq(Event) /\ Len(Tail(inbox)) = Len(inbox) - 1
      /\ \A i \in 1..Len(inbox) - 1 : i + 1 \in 1..Len(inbox) /\ Tail(inbox)[i] = inbox[i + 1]
  BY <1>1, <1>2
<1>4. inbox' = Tail(inbox)
  BY DEF Handle
<1>5. GoodEvent(inbox[1], log)
  BY <1>2 DEF ChatInv, InboxInv
<1> DEFINE e == inbox[1]
<1>6. e.kind \in {"new", "changed", "ack", "failed"}
  BY <1>2 DEF Event
<1>7. \/ e.kind \in {"new", "changed"} /\ HandleItem(e)
      \/ e.kind = "ack" /\ HandleAck(e.item.row.msg)
      \/ e.kind = "failed" /\ HandleFailed(e.item.row.msg)
  <2>1. (CASE e.kind \in {"new", "changed"} -> HandleItem(e)
           [] e.kind = "ack" -> HandleAck(e.item.row.msg)
           [] e.kind = "failed" -> HandleFailed(e.item.row.msg))
    BY <1>2 DEF Handle
  <2> HIDE DEF e
  <2> QED BY <1>6, <2>1
<1>8. UNCHANGED <<cursor, listed, open, loaded, mine, up, boot, older, feed, sync, log, faults, fresh>> /\ up
  BY DEF Handle, viewVars, fetchVars
<1> QED BY <1>2, <1>3, <1>4, <1>5, <1>7, <1>8

\* What an event of a message does.
LEMMA HandleItemIs ==
  ASSUME ChatInv, NEW e, e \in Event, GoodItem(e.item, log), HandleItem(e)
  PROVE  LET m == e.item.row.msg IN
         /\ m \in Msg /\ e.item.deleted \in BOOLEAN
         /\ rows' = ApplyTo(rows, e.item) /\ Badge(e.kind = "new", e.item)
         /\ newest' \in [Msg -> 0..2] /\ raced' \in BOOLEAN /\ missing' \subseteq Msg
         /\ ~ raced' =>
              /\ \A x \in Msg : x # m /\ x \in missing => x \in missing'
              /\ ~ raced /\ ~ (ItemState(e.item) < newest[m])
              /\ newest'[m] = ItemState(e.item)
              /\ \A x \in Msg : x # m => newest'[x] = newest[x]
<1> DEFINE items == <<e.item>>
           m == e.item.row.msg
<1>1. Len(items) = 1 /\ DOMAIN items = 1..1 /\ items[1] = e.item /\ Upserts(items, {})
  BY DEF HandleItem
<1>2. newest \in [Msg -> 0..2] /\ raced \in BOOLEAN /\ missing \subseteq Msg
  BY DEF ChatInv, TypeOK
<1>3. m \in Msg /\ e.item.deleted \in BOOLEAN
  BY ItemIs DEF ChatInv
<1> HIDE DEF items
<1>7. \A i \in 1..Len(items) : items[i].row.msg \in Msg
  BY <1>1, <1>3
<1>4. /\ newest' \in [Msg -> 0..2] /\ raced' \in BOOLEAN /\ missing' \subseteq Msg
      /\ ~ raced' =>
           /\ ~ raced
           /\ \A x : x \in missing /\ (\A i \in 1..1 : items[i].row.msg # x) => x \in missing'
           /\ \A i \in 1..1 : ~ (ItemState(items[i]) < newest[items[i].row.msg])
           /\ \A x \in Msg :
                IF \E i \in 1..1 : items[i].row.msg = x
                THEN \E i \in 1..1 : items[i].row.msg = x /\ newest'[x] = ItemState(items[i])
                ELSE newest'[x] = newest[x]
  <2>1. {} \subseteq 1..Len(items)
    OBVIOUS
  <2>2. /\ newest' \in [Msg -> 0..2] /\ raced' \in BOOLEAN /\ missing' \subseteq Msg
        /\ ~ raced' =>
             /\ ~ raced
             /\ \A x : x \in missing' <=>
                   \/ x \in missing /\ \A i \in 1..Len(items) : items[i].row.msg # x
                   \/ \E i \in {} : items[i].row.msg = x
             /\ \A i \in 1..Len(items) : ~ (ItemState(items[i]) < newest[items[i].row.msg])
             /\ \A x \in Msg :
                  IF \E i \in 1..Len(items) : items[i].row.msg = x
                  THEN \E i \in 1..Len(items) : items[i].row.msg = x /\ newest'[x] = ItemState(items[i])
                  ELSE newest'[x] = newest[x]
    <3>1. Len(items) \in Nat /\ DOMAIN items = 1..Len(items)
      BY <1>1
    <3> QED BY <1>1, <1>2, <1>7, <2>1, <3>1, UpsertsIs, Zenon
  <2> QED BY <1>1, <2>2, Zenon
<1>5. \A i \in 1..1 : i = 1
  OBVIOUS
<1>6. ~ raced' => /\ \A x \in Msg : x # m /\ x \in missing => x \in missing'
                  /\ ~ raced /\ ~ (ItemState(e.item) < newest[m])
                  /\ newest'[m] = ItemState(e.item)
                  /\ \A x \in Msg : x # m => newest'[x] = newest[x]
  BY <1>1, <1>3, <1>4, <1>5
<1> QED BY <1>3, <1>4, <1>6 DEF HandleItem

LEMMA BadgeTypes ==
  ASSUME unread \in Nat, base \in Nat, counted \subseteq Others, NEW inc, NEW item, Badge(inc, item)
  PROVE  unread' \in Nat /\ base' \in Nat /\ counted' \subseteq Others
BY DEF Badge, Counts

LEMMA ChatHandle == ASSUME ChatInv, Handle PROVE ChatInv'
<1> DEFINE e == inbox[1]
<1>1. /\ UNCHANGED <<cursor, listed, open, loaded, mine, up, boot, older, feed, sync, log, faults, fresh>>
      /\ e \in Event /\ GoodEvent(e, log)
      /\ inbox' \in Seq(Event) /\ Len(inbox) \in Nat /\ Len(inbox') = Len(inbox) - 1
      /\ \A i \in 1..Len(inbox') : i + 1 \in 1..Len(inbox) /\ inbox'[i] = inbox[i + 1]
      /\ \/ e.kind \in {"new", "changed"} /\ HandleItem(e)
         \/ e.kind = "ack" /\ HandleAck(e.item.row.msg)
         \/ e.kind = "failed" /\ HandleFailed(e.item.row.msg)
  BY HandleCases
<1> HIDE DEF e
<1>2. /\ rows \subseteq Row /\ GoodRows(rows) /\ LogInv(log) /\ newest \in [Msg -> 0..2]
      /\ raced \in BOOLEAN /\ missing \subseteq Msg /\ unread \in Nat /\ base \in Nat /\ counted \subseteq Others
      /\ \A m \in Mine : mine[m] \in Unstored => ~ Exists(log, m)
  BY DEF ChatInv, TypeOK, RowsInv
<1>3. /\ rows' \subseteq Row /\ GoodRows(rows')
      /\ newest' \in [Msg -> 0..2] /\ raced' \in BOOLEAN /\ missing' \subseteq Msg
      /\ unread' \in Nat /\ base' \in Nat /\ counted' \subseteq Others
  <2>1. CASE e.kind \in {"new", "changed"} /\ HandleItem(e)
    <3>1. GoodItem(e.item, log)
      BY <1>1, <2>1 DEF GoodEvent
    <3>2. rows' \subseteq Row /\ GoodRows(rows')
      BY <1>2, <2>1, <3>1, ApplyGood DEF HandleItem
    <3>3. unread' \in Nat /\ base' \in Nat /\ counted' \subseteq Others
      BY <1>2, <2>1, BadgeTypes DEF HandleItem
    <3>4. newest' \in [Msg -> 0..2] /\ raced' \in BOOLEAN /\ missing' \subseteq Msg
      BY <1>1, <2>1, <3>1, HandleItemIs
    <3> QED BY <1>2, <3>2, <3>3, <3>4
  <2>2. CASE e.kind = "ack" /\ HandleAck(e.item.row.msg)
    <3>1. Exists(log, e.item.row.msg)
      BY <1>1, <2>2 DEF GoodEvent, GoodItem
    <3>2. rows' \subseteq Row /\ GoodRows(rows')
      BY <1>2, <2>2, <3>1, AckGood
    <3> QED BY <1>2, <2>2, <3>2 DEF HandleAck, historyVars
  <2>3. CASE e.kind = "failed" /\ HandleFailed(e.item.row.msg)
    <3>1. rows' \subseteq rows
      BY <2>3 DEF HandleFailed
    <3>2. rows' \subseteq Row /\ GoodRows(rows')
      BY <1>2, <3>1 DEF GoodRows
    <3>3. missing' \subseteq missing \cup {e.item.row.msg} /\ e.item.row.msg \in Msg
      BY <1>1, <2>3 DEF HandleFailed, GoodEvent, Msg
    <3> QED BY <1>2, <2>3, <3>2, <3>3 DEF HandleFailed
  <2> QED BY <1>1, <2>1, <2>2, <2>3
<1>4. TypeOK'
  BY <1>1, <1>3, TypesAre DEF ChatInv, Types
<1>5. LogInv(log)' /\ FeedInv' /\ ListsInv' /\ SyncInv'
  BY <1>1, ListsMove DEF ChatInv, FeedInv, SyncInv, Reach
<1>6. InboxInv'
  BY <1>1 DEF ChatInv, InboxInv
<1>7. RowsInv'
  BY <1>1, <1>3, RowsMove
<1> QED BY <1>4, <1>5, <1>6, <1>7 DEF ChatInv

\* What an entry of the log says, and what the server says of it later.
LEMMA EntryItem ==
  ASSUME NEW l, LogInv(l), Len(l) <= MaxLog, NEW i \in 1..Len(l)
  PROVE  LET item == ServerItem(l, l[i].msg) IN
         /\ GoodItem(item, l) /\ item.row.msg = l[i].msg
         /\ ItemState(item) >= (IF l[i].kind = "create" THEN 1 ELSE 2)
<1>1. l[i] \in Change /\ DOMAIN l = 1..Len(l)
  BY DEF LogInv
<1>2. l[i].msg \in Msg /\ Exists(l, l[i].msg)
  BY <1>1 DEF Change, Exists
<1> DEFINE item == ServerItem(l, l[i].msg)
<1>3. GoodItem(item, l) /\ item.row.msg = l[i].msg /\ ItemState(item) = State(l, l[i].msg)
  BY <1>2, ItemOf
<1>4. l[i].kind # "create" => Deleted(l, l[i].msg)
  BY <1>1 DEF Change, Deleted
<1>5. State(l, l[i].msg) >= (IF l[i].kind = "create" THEN 1 ELSE 2)
  BY <1>2, <1>4, StateIs
<1> QED BY <1>3, <1>5

LEMMA ChatFeedAnswers == ASSUME ChatInv, FeedAnswers PROVE ChatInv'
<1> DEFINE next == IF feed.from + FeedSize < Len(log) THEN feed.from + FeedSize ELSE Len(log)
           items == [i \in 1..next - feed.from |-> ServerItem(log, log[feed.from + i].msg)]
<1>1. /\ UNCHANGED <<rows, unread, cursor, listed, open, loaded, mine, up, inbox, boot, older, sync, log,
                     faults, newest, raced, missing, base, counted, fresh>>
      /\ feed.at = "asked"
      /\ feed' = [at |-> "here", from |-> feed.from, left |-> feed.left, since |-> feed.since,
                  next |-> next, more |-> next < Len(log), items |-> items]
  BY DEF FeedAnswers, viewVars, historyVars
<1>2. /\ LogInv(log) /\ Len(log) \in Nat /\ Len(log) <= MaxLog /\ MaxLog \in Nat /\ FeedSize \in Nat \ {0}
      /\ cursor \in 0..Len(log)
  BY BoundAssumption DEF ChatInv, TypeOK, FeedInv
<1>3. feed.from = cursor /\ feed.since \in BOOLEAN /\ feed.left \in 1..MaxPages /\ feed # None
  BY <1>1 DEF ChatInv, TypeOK, FeedInv, None
<1>4. next \in cursor..Len(log) /\ (next < Len(log) => next > cursor) /\ (next < Len(log)) \in BOOLEAN
  BY <1>2, <1>3
<1> HIDE DEF next
<1>5. ASSUME NEW i \in 1..next - cursor
      PROVE  /\ GoodItem(items[i], log) /\ items[i].row.msg = log[cursor + i].msg
             /\ ItemState(items[i]) >= Reach(cursor + i)
             /\ items[i] = ServerItem(log, log[cursor + i].msg)
  <2>1. cursor + i \in 1..Len(log)
    BY <1>2, <1>4
  <2>2. items[i] = ServerItem(log, log[cursor + i].msg)
    BY <1>3
  <2> QED BY <1>2, <2>1, <2>2, EntryItem DEF Reach
<1>6. items \in Seq(Item) /\ Len(items) = next - cursor
  <2>1. next - cursor \in Nat
    BY <1>2, <1>4
  <2>2. DOMAIN items = 1..next - cursor /\ \A i \in 1..next - cursor : items[i] \in Item
    BY <1>3, <1>5 DEF GoodItem
  <2>3. items \in [1..next - cursor -> Item]
    BY <1>3, <2>2
  <2> HIDE DEF items
  <2> QED BY <2>1, <2>2, <2>3
<1> HIDE DEF items
<1>7. feed' \in FeedType
  <2>1. next \in 0..MaxLog /\ cursor \in 0..MaxLog
    BY <1>2, <1>4
  <2> QED BY <1>1, <1>3, <1>4, <1>6, <2>1 DEF FeedType
<1>8. TypeOK'
  BY <1>1, <1>7, TypesAre DEF ChatInv, Types
<1>9. FeedInv'
  <2>0. cursor' = cursor /\ log' = log
    BY <1>1
  <2>1. feed'.from = cursor /\ feed'.next = next /\ (feed'.more => next < Len(log)) /\ feed'.items = items
    BY <1>1, <1>3
  <2>2. \A i \in 1..Len(items) :
          /\ GoodItem(items[i], log') /\ items[i].row.msg = log'[cursor + i].msg
          /\ ItemState(items[i]) >= (IF log'[cursor + i].kind = "create" THEN 1 ELSE 2)
    BY <1>1, <1>5, <1>6 DEF Reach
  <2>3. \A i, j \in 1..Len(items) : items[i].row.msg = items[j].row.msg => items[i] = items[j]
    <3> SUFFICES ASSUME NEW i \in 1..Len(items), NEW j \in 1..Len(items),
                        items[i].row.msg = items[j].row.msg
                 PROVE  items[i] = items[j]
      OBVIOUS
    <3>1. items[i] = ServerItem(log, log[cursor + i].msg) /\ items[j] = ServerItem(log, log[cursor + j].msg)
          /\ log[cursor + i].msg = log[cursor + j].msg
      BY <1>5, <1>6
    <3> QED BY <3>1, Zenon
  <2>4. cursor' <= Len(log') /\ feed'.from = cursor' /\ feed'.next \in cursor'..Len(log')
        /\ (feed'.more => feed'.next > cursor') /\ Len(feed'.items) = feed'.next - cursor'
    BY <1>2, <1>4, <1>6, <2>0, <2>1
  <2> QED BY <2>0, <2>1, <2>2, <2>3, <2>4 DEF FeedInv, Reach
<1>10. LogInv(log)' /\ InboxInv' /\ ListsInv' /\ SyncInv'
  BY <1>1, ListsMove DEF ChatInv, InboxInv, SyncInv
<1>11. RowsInv'
  BY <1>1, RowsMove DEF ChatInv, RowsInv
<1> QED BY <1>8, <1>9, <1>10, <1>11 DEF ChatInv

\* The items of a page that are older than the oldest row, and not known.
LeftOut == {i \in 1..Len(feed.items) : ~ InScope(Pass(rows, feed.items)[i - 1], feed.items[i])}

\* The next page, if there is one and it may be asked for.
GoesOn(f) ==
  f = IF feed.more /\ feed.left > 1
      THEN [at |-> "asked", from |-> feed.next, left |-> feed.left - 1, since |-> feed.since]
      ELSE None

\* What a page brings: its items are applied, and the cursor stands behind them.
LEMMA FeedAppliesIs ==
  ASSUME ChatInv, FeedApplies
  PROVE  /\ UNCHANGED <<listed, open, loaded, mine, up, inbox, boot, older, sync, log, faults>>
         /\ feed.at = "here" /\ feed.items \in Seq(Item) /\ feed.from = cursor
         /\ feed.since \in BOOLEAN /\ feed.more \in BOOLEAN /\ feed.next \in cursor..Len(log)
         /\ cursor \in Nat /\ Len(log) \in Nat /\ Len(feed.items) = feed.next - cursor
         /\ DOMAIN feed.items = 1..Len(feed.items) /\ Len(feed.items) \in Nat
         /\ \A i \in 1..Len(feed.items) : GoodItem(feed.items[i], log)
         /\ rows' = Pass(rows, feed.items)[Len(feed.items)]
         /\ cursor' = feed.next
         /\ GoesOn(feed') /\ feed.left \in 1..MaxPages
         /\ fresh' = (fresh \/ (feed.since /\ ~ feed.more /\ up))
         /\ Upserts(feed.items, LeftOut)
         /\ \/ open /\ unread' = 0 /\ base' = 0 /\ counted' = {}
            \/ UNCHANGED <<unread, base, counted>>
<1>1. feed.at = "here"
  BY DEF FeedApplies
<1>2. feed \in [at: {"here"}, from: 0..MaxLog, left: 1..MaxPages, since: BOOLEAN, next: 0..MaxLog,
                more: BOOLEAN, items: Seq(Item)]
  BY <1>1 DEF ChatInv, TypeOK, None
<1>3. feed.from = cursor /\ feed.next \in cursor..Len(log) /\ Len(feed.items) = feed.next - cursor
      /\ \A i \in 1..Len(feed.items) : GoodItem(feed.items[i], log)
  BY <1>1 DEF ChatInv, FeedInv, None
<1>4. cursor \in Nat /\ Len(log) \in Nat
  BY BoundAssumption DEF ChatInv, TypeOK
<1>5. feed.items \in Seq(Item) /\ DOMAIN feed.items = 1..Len(feed.items) /\ Len(feed.items) \in Nat
      /\ feed.since \in BOOLEAN /\ feed.more \in BOOLEAN /\ feed.left \in 1..MaxPages
  BY <1>2
<1>6. cursor' = feed.next
  BY <1>3, <1>4 DEF FeedApplies, CursorTo
<1>7. UNCHANGED <<listed, open, loaded, mine, up, inbox, boot, older, sync, log, faults>>
  BY DEF FeedApplies, viewVars
<1>8. /\ rows' = Pass(rows, feed.items)[Len(feed.items)]
      /\ GoesOn(feed')
      /\ fresh' = (fresh \/ (feed.since /\ ~ feed.more /\ up))
      /\ Upserts(feed.items, LeftOut)
  BY DEF FeedApplies, GoesOn, LeftOut
<1>9. \/ open /\ unread' = 0 /\ base' = 0 /\ counted' = {}
      \/ UNCHANGED <<unread, base, counted>>
  BY DEF FeedApplies, MarkRead
<1> QED BY <1>1, <1>3, <1>4, <1>5, <1>6, <1>7, <1>8, <1>9

LEMMA ChatFeedApplies == ASSUME ChatInv, FeedApplies PROVE ChatInv'
<1> DEFINE items == feed.items
<1>1. /\ UNCHANGED <<listed, open, loaded, mine, up, inbox, boot, older, sync, log, faults>>
      /\ feed.since \in BOOLEAN /\ feed.next \in cursor..Len(log) /\ cursor \in Nat /\ Len(log) \in Nat
      /\ DOMAIN items = 1..Len(items) /\ Len(items) \in Nat
      /\ \A i \in 1..Len(items) : GoodItem(items[i], log)
      /\ rows' = Pass(rows, items)[Len(items)]
      /\ cursor' = feed.next /\ Upserts(items, LeftOut) /\ LeftOut \subseteq 1..Len(items)
      /\ GoesOn(feed') /\ feed.left \in 1..MaxPages
      /\ fresh' \in BOOLEAN
      /\ \/ unread' = 0 /\ base' = 0 /\ counted' = {}
         \/ UNCHANGED <<unread, base, counted>>
  <2>1. fresh \in BOOLEAN
    BY DEF ChatInv, TypeOK
  <2>2. LeftOut \subseteq 1..Len(items)
    BY DEF LeftOut
  <2> QED BY <2>1, <2>2, FeedAppliesIs
<1> HIDE DEF items
<1>2. newest' \in [Msg -> 0..2] /\ raced' \in BOOLEAN /\ missing' \subseteq Msg
  <2>1. newest \in [Msg -> 0..2] /\ raced \in BOOLEAN /\ missing \subseteq Msg
    BY DEF ChatInv, TypeOK
  <2>2. \A i \in 1..Len(items) : items[i].row.msg \in Msg
    BY <1>1, ItemIs DEF ChatInv
  <2> QED BY <1>1, <2>1, <2>2, UpsertsIs
<1>3. rows' \subseteq Row /\ GoodRows(rows')
  <2>1. /\ rows \subseteq Row /\ GoodRows(rows) /\ LogInv(log)
        /\ \A m \in Mine : mine[m] \in Unstored => ~ Exists(log, m)
    BY DEF ChatInv, TypeOK, RowsInv
  <2> QED BY <1>1, <2>1, PassGood
<1>4. unread' \in Nat /\ base' \in Nat /\ counted' \subseteq Others
  BY <1>1 DEF ChatInv, TypeOK
<1>5. feed.next \in 0..MaxLog /\ Len(log) <= MaxLog
  BY <1>1, BoundAssumption DEF ChatInv, TypeOK
<1>6. feed' \in FeedType
  <2>1. feed.left > 1 =>
          [at |-> "asked", from |-> feed.next, left |-> feed.left - 1, since |-> feed.since] \in FeedType
    BY <1>1, <1>5, BoundAssumption DEF FeedType
  <2>2. None \in FeedType
    BY DEF FeedType
  <2> HIDE DEF FeedType
  <2> QED BY <1>1, <2>1, <2>2 DEF GoesOn
<1>7. TypeOK'
  BY <1>1, <1>2, <1>3, <1>4, <1>5, <1>6, TypesAre DEF ChatInv, Types
<1>8. FeedInv'
  <2>1. feed'.at # "here" /\ (feed' # None => feed'.from = feed.next)
    BY <1>1 DEF GoesOn, None
  <2> QED BY <1>1, <2>1 DEF FeedInv
<1>9. LogInv(log)' /\ InboxInv' /\ ListsInv' /\ SyncInv'
  BY <1>1, ListsMove DEF ChatInv, InboxInv, SyncInv
<1>10. RowsInv'
  BY <1>1, <1>3, RowsMove
<1> QED BY <1>7, <1>8, <1>9, <1>10 DEF ChatInv

LEMMA ChatStep == ASSUME ChatInv, [Next]_vars PROVE ChatInv'
<1>1. CASE Next
  BY <1>1, ChatSend, ChatServer, ChatOpen, ChatView, ChatBootAnswers, ChatBootEnds, ChatRestart,
     ChatConnect, ChatBreaks, ChatHandle, ChatOlderAnswers, ChatOlderApplies, ChatFeedAnswers,
     ChatFeedFails, ChatFeedApplies, ChatSyncSnapshot, ChatSyncAnswers, ChatSyncFails, ChatSyncEnds
     DEF Next
<1>2. CASE UNCHANGED vars
  <2>1. UNCHANGED <<rows, unread, cursor, listed, open, loaded, mine, up, inbox, boot, older, feed, sync,
                    log, faults, newest, raced, missing, base, counted, fresh>>
    BY <1>2 DEF vars, viewVars, fetchVars, historyVars
  <2>2. Sources' /\ ListsInv'
    BY <2>1, SourcesSame, ListsMove
  <2>3. TypeOK'
    BY <2>1, TypesAre DEF ChatInv, Types
  <2>4. SyncInv'
    BY <2>1 DEF ChatInv, SyncInv
  <2>5. RowsInv'
    BY <2>1, RowsMove DEF ChatInv, RowsInv
  <2> QED BY <2>2, <2>3, <2>4, <2>5 DEF ChatInv, Sources
<1> QED BY <1>1, <1>2

LEMMA ChatInit == ASSUME Init PROVE ChatInv
<1>1. TypeOK
  <2>1. <<>> \in Seq(Change) /\ <<>> \in Seq(Event) /\ Len(<<>>) = 0
    OBVIOUS
  <2>2. 0 \in 0..MaxLog /\ 0 \in 0..MaxFaults /\ 0 <= MaxLog
    BY BoundAssumption
  <2>3. /\ log \in Seq(Change) /\ Len(log) <= MaxLog /\ inbox \in Seq(Event)
        /\ cursor \in 0..MaxLog /\ faults \in 0..MaxFaults
        /\ rows \subseteq Row /\ unread \in Nat /\ base \in Nat /\ counted \subseteq Others
    BY <2>1, <2>2 DEF Init
  <2>4. /\ mine \in [Mine -> {"new", "sending", "queued", "accepted", "stored", "refused", "done"}]
        /\ newest \in [Msg -> 0..2]
        /\ boot \in {None} \cup [at: {"list"}] \cup [at: {"latest"}, unread: Nat]
    BY DEF Init
  <2> QED BY <2>3, <2>4 DEF Init, TypeOK
<1>2. LogInv(log) /\ InboxInv
  BY DEF Init, LogInv, InboxInv
<1>3. FeedInv /\ ListsInv /\ SyncInv
  BY DEF Init, FeedInv, ListsInv, SyncInv, None
<1>4. RowsInv
  BY DEF Init, RowsInv, GoodRows, None, Exists
<1> QED BY <1>1, <1>2, <1>3, <1>4 DEF ChatInv

\* The conversation, what is fetched and what is on its way always have their types.
THEOREM TypeCorrect == Spec => []TypeOK
<1>1. Spec => []ChatInv
  BY ChatInit, ChatStep, PTL DEF Spec
<1>2. ChatInv => TypeOK
  BY DEF ChatInv
<1> QED BY <1>1, <1>2, PTL

\* A message has one row at most, whatever is written in whatever order: optimistic
\* rows, acknowledgements, events, pages of the feed and of history, and the copies
\* the synchronisation of the conversation list writes back.
THEOREM ShownOnce == Spec => []NoDuplicates
<1>1. Spec => []ChatInv
  BY ChatInit, ChatStep, PTL DEF Spec
<1>2. ChatInv => NoDuplicates
  BY DEF ChatInv, RowsInv, GoodRows, NoDuplicates
<1> QED BY <1>1, <1>2, PTL

-----------------------------------------------------------------------------
(* The badge counts each of its messages once. *)

LEMMA CountSame ==
  ASSUME CountInv, UNCHANGED <<unread, base, counted, newest, raced>>,
         \A m \in counted : (\E r \in rows : r.msg = m) => \E r \in rows' : r.msg = m
  PROVE  CountInv'
BY DEF CountInv

LEMMA CountReset == ASSUME counted' = {}, unread' = base', base' \in Nat PROVE CountInv'
<1>1. IsFiniteSet(counted') /\ Cardinality(counted') = 0
  BY FS_EmptySet
<1> QED BY <1>1 DEF CountInv

\* Steps that touch neither the rows nor the badge.
LEMMA CountQuiet ==
  ASSUME ChatInv, CountInv,
         \/ Close \/ BootList \/ BootAnswers \/ BootFails \/ LoadOlder \/ OlderFails \/ OlderAnswers
         \/ FeedAnswers \/ FeedFails \/ Connect \/ Breaks
         \/ SyncSnapshot \/ SyncAnswers \/ SyncFails \/ (\E m \in Msg : Server(m)) \/ UNCHANGED vars
  PROVE  CountInv'
<1>1. UNCHANGED <<rows, unread, base, counted, newest, raced>>
  <2>1. CASE Close
    BY <2>1 DEF Close, historyVars
  <2>6. CASE BootList \/ BootAnswers \/ BootFails
    BY <2>6 DEF BootList, BootAnswers, BootFails, historyVars
  <2>2. CASE LoadOlder \/ OlderFails \/ OlderAnswers
    BY <2>2 DEF LoadOlder, OlderFails, OlderAnswers, historyVars
  <2>3. CASE FeedAnswers \/ FeedFails \/ Connect
    BY <2>3 DEF FeedAnswers, FeedFails, Connect, historyVars
  <2>4. CASE Breaks \/ SyncSnapshot \/ SyncAnswers \/ SyncFails \/ UNCHANGED vars
    BY <2>4 DEF Breaks, SyncSnapshot, SyncAnswers, SyncFails, vars, historyVars
  <2>5. CASE \E m \in Msg : Server(m)
    BY <2>5 DEF Server, historyVars
  <2> QED BY <2>1, <2>2, <2>3, <2>4, <2>5, <2>6
<1> QED BY <1>1, CountSame

LEMMA CountSend ==
  ASSUME ChatInv, CountInv, NEW m \in Mine, SendMessage(m) \/ Uploaded(m) \/ UploadFails(m)
  PROVE  CountInv'
<1>1. UNCHANGED <<unread, base, counted, newest, raced>> /\ \A r \in rows : r.msg # m => r \in rows'
  BY DEF SendMessage, Uploaded, UploadFails, historyVars
<1>2. m \notin counted
  BY MsgAssumption DEF ChatInv, TypeOK
<1> QED BY <1>1, <1>2, CountSame

\* The badge is cleared, or read again.
LEMMA CountCleared ==
  ASSUME ChatInv, CountInv, Open \/ Show \/ Restart \/ BootEnds PROVE CountInv'
<1>1. unread \in Nat /\ (boot.at = "here" => boot.unread \in Nat)
  BY DEF ChatInv, TypeOK, None
<1>2. counted' = {} /\ unread' = base' /\ base' \in Nat
  <2>1. CASE Open \/ Show
    BY <2>1 DEF Open, Show, MarkRead
  <2>2. CASE Restart
    BY <1>1, <2>2 DEF Restart
  <2>3. CASE BootEnds
    BY <1>1, <2>3 DEF BootEnds
  <2> QED BY <2>1, <2>2, <2>3
<1> QED BY <1>2, CountReset

LEMMA CountItem ==
  ASSUME ChatInv, CountInv, NEW e, e \in Event, GoodItem(e.item, log), HandleItem(e)
  PROVE  CountInv'
<1> DEFINE m == e.item.row.msg
<1>1. /\ m \in Msg /\ e.item.deleted \in BOOLEAN
      /\ rows' = ApplyTo(rows, e.item) /\ Badge(e.kind = "new", e.item)
      /\ ~ raced' =>
           /\ ~ raced /\ ~ (ItemState(e.item) < newest[m])
           /\ newest'[m] = ItemState(e.item)
           /\ \A x \in Msg : x # m => newest'[x] = newest[x]
  BY HandleItemIs
<1>2. /\ counted \subseteq Msg /\ newest \in [Msg -> 0..2] /\ IsFiniteSet(counted)
      /\ unread \in Nat /\ base \in Nat
  BY DEF ChatInv, TypeOK, CountInv, Msg
<1>3. Cardinality(counted) \in Nat
  BY <1>2, FS_CardinalityType
<1>4. CASE open
  BY <1>1, <1>4, CountReset DEF Badge
<1>5. ASSUME ~ raced', NEW x \in counted
      PROVE  newest'[x] = 2 \/ (newest'[x] = 1 /\ \E r \in rows' : r.msg = x)
  <2>1. newest[x] = 2 \/ (newest[x] = 1 /\ \E r \in rows : r.msg = x)
    BY <1>1, <1>5 DEF CountInv
  <2>2. CASE x = m
    <3>1. CASE e.item.deleted
      BY <1>1, <1>5, <2>2, <3>1 DEF ItemState
    <3>2. CASE ~ e.item.deleted
      <4>1. e.item.row \in rows'
        BY <1>1, <3>2, ApplyRows
      <4> QED BY <1>1, <1>5, <2>2, <3>2, <4>1 DEF ItemState
    <3> QED BY <3>1, <3>2
  <2>3. CASE x # m
    <3>1. \A r : r.msg = x => (r \in rows' <=> r \in rows)
      BY <1>1, <2>3, ApplyRows
    <3> QED BY <1>1, <1>2, <1>5, <2>1, <2>3, <3>1
  <2> QED BY <2>2, <2>3
<1>6. CASE ~ open /\ e.kind = "new" /\ Counts(e.item)
  <2>1. unread' = unread + 1 /\ counted' = counted \cup {m} /\ base' = base
    BY <1>1, <1>6 DEF Badge
  <2>2. ~ e.item.deleted /\ ~ \E r \in rows : r.msg = m
    BY <1>6 DEF Counts, Same
  <2>3. IsFiniteSet(counted')
    BY <1>2, <2>1, FS_AddElement
  <2>4. ASSUME ~ raced' PROVE unread' <= base' + Cardinality(counted')
    <3>1. m \notin counted
      <4>1. ItemState(e.item) = 1
        BY <2>2 DEF ItemState
      <4>2. newest[m] # 2
        BY <1>1, <2>4, <4>1
      <4> QED BY <1>1, <2>2, <2>4, <4>2 DEF CountInv
    <3>2. Cardinality(counted') = Cardinality(counted) + 1
      BY <1>2, <2>1, <3>1, FS_AddElement
    <3>3. unread <= base + Cardinality(counted)
      BY <1>1, <2>4 DEF CountInv
    <3> QED BY <1>2, <1>3, <2>1, <3>2, <3>3
  <2>5. ASSUME ~ raced' PROVE newest'[m] = 1 /\ \E r \in rows' : r.msg = m
    <3>1. e.item.row \in rows'
      BY <1>1, <2>2, ApplyRows
    <3> QED BY <1>1, <2>2, <2>5, <3>1 DEF ItemState
  <2> QED BY <1>5, <2>1, <2>3, <2>4, <2>5 DEF CountInv
<1>7. CASE ~ open /\ ~ (e.kind = "new" /\ Counts(e.item))
  <2>1. UNCHANGED <<unread, base, counted>>
    BY <1>1, <1>7 DEF Badge
  <2>2. ~ raced' => unread <= base + Cardinality(counted)
    BY <1>1 DEF CountInv
  <2> QED BY <1>2, <1>5, <2>1, <2>2 DEF CountInv
<1> QED BY <1>4, <1>6, <1>7

LEMMA CountHandle == ASSUME ChatInv, CountInv, Handle PROVE CountInv'
<1> DEFINE e == inbox[1]
<1>1. /\ e \in Event /\ GoodEvent(e, log)
      /\ \/ e.kind \in {"new", "changed"} /\ HandleItem(e)
         \/ e.kind = "ack" /\ HandleAck(e.item.row.msg)
         \/ e.kind = "failed" /\ HandleFailed(e.item.row.msg)
  BY HandleCases
<1> HIDE DEF e
<1>2. CASE e.kind \in {"new", "changed"} /\ HandleItem(e)
  BY <1>1, <1>2, CountItem DEF GoodEvent
<1>3. CASE e.kind = "ack" /\ HandleAck(e.item.row.msg)
  <2>1. rows' = {Acked(r, e.item.row.msg) : r \in rows}
    BY <1>3 DEF HandleAck, Acked
  <2>2. \A r \in rows : Acked(r, e.item.row.msg).msg = r.msg
    BY DEF Acked, ChatInv, TypeOK, Row
  <2> QED BY <1>3, <2>1, <2>2, CountSame DEF HandleAck, historyVars
<1>4. CASE e.kind = "failed" /\ HandleFailed(e.item.row.msg)
  <2>1. e.item.row.msg \notin counted
    BY <1>1, <1>4, MsgAssumption DEF GoodEvent, ChatInv, TypeOK
  <2>2. \A r \in rows : r.msg # e.item.row.msg => r \in rows'
    BY <1>4 DEF HandleFailed
  <2> QED BY <1>4, <2>1, <2>2, CountSame DEF HandleFailed
<1> QED BY <1>1, <1>2, <1>3, <1>4

\* A message of the badge is in the list that is written, or deleted, or counted anew,
\* or the list is older than what was shown.
LEMMA CountOverwrites ==
  ASSUME ChatInv, CountInv, NEW rs, NEW n, NEW same \in BOOLEAN, Overwrites(rs, n, same),
         rows' = rs, unread' \in Nat, same => unread' = unread, Recount(unread')
  PROVE  CountInv'
<1> DEFINE l == SubSeq(log, 1, n)
<1>1. /\ raced' \in BOOLEAN
      /\ ~ raced' => /\ ~ raced /\ same
                     /\ \A m \in Msg : newest'[m] = State(l, m) /\ ~ (newest[m] > State(l, m))
                     /\ \A m \in Msg \ missing' : State(l, m) = 1 => ServerRow(l, m) \in rs
  BY OverwritesIs DEF ChatInv, TypeOK
<1> HIDE DEF l
<1>2. CASE counted \cap missing' # {}
  BY <1>2, CountReset DEF Recount
<1>3. CASE counted \cap missing' = {}
  <2>1. UNCHANGED <<base, counted>>
    BY <1>3 DEF Recount
  <2>2. ASSUME ~ raced', NEW m \in counted
        PROVE  newest'[m] = 2 \/ (newest'[m] = 1 /\ \E r \in rows' : r.msg = m)
    <3>1. m \in Msg /\ m \notin missing' /\ newest[m] \in {1, 2}
      BY <1>1, <1>3, <2>2 DEF ChatInv, TypeOK, CountInv, Msg
    <3>2. newest'[m] = State(l, m) /\ State(l, m) \in {0, 1, 2} /\ ~ (newest[m] > State(l, m))
      BY <1>1, <2>2, <3>1 DEF State
    <3>3. State(l, m) = 1 => ServerRow(l, m) \in rows' /\ ServerRow(l, m).msg = m
      BY <1>1, <2>2, <3>1 DEF ServerRow
    <3> QED BY <3>1, <3>2, <3>3
  <2>3. ~ raced' => unread' <= base' + Cardinality(counted')
    BY <1>1, <2>1 DEF CountInv
  <2>4. IsFiniteSet(counted')
    BY <2>1 DEF CountInv
  <2> QED BY <2>1, <2>2, <2>3, <2>4 DEF CountInv
<1> QED BY <1>2, <1>3

LEMMA CountOlder == ASSUME ChatInv, CountInv, OlderApplies PROVE CountInv'
<1>1. /\ unread' = unread /\ rows' = older.rows
      /\ Overwrites(older.rows, older.asof, TRUE) /\ Recount(unread)
  BY DEF OlderApplies
<1>2. unread \in Nat
  BY DEF ChatInv, TypeOK
<1>3. Recount(unread')
  BY <1>1, Zenon
<1> QED BY <1>1, <1>2, <1>3, CountOverwrites

LEMMA CountFeed == ASSUME ChatInv, CountInv, FeedApplies PROVE CountInv'
<1> DEFINE items == feed.items
<1>1. /\ feed.at = "here" /\ DOMAIN items = 1..Len(items) /\ Len(items) \in Nat
      /\ \A i \in 1..Len(items) : GoodItem(items[i], log)
      /\ rows' = Pass(rows, items)[Len(items)] /\ Upserts(items, LeftOut)
      /\ \/ unread' = 0 /\ base' = 0 /\ counted' = {}
         \/ UNCHANGED <<unread, base, counted>>
  BY FeedAppliesIs
<1>2. \A i, j \in 1..Len(items) : items[i].row.msg = items[j].row.msg => items[i] = items[j]
  BY <1>1 DEF ChatInv, FeedInv
<1> HIDE DEF items
<1>3. /\ newest' \in [Msg -> 0..2] /\ raced' \in BOOLEAN
      /\ ~ raced' =>
           /\ ~ raced
           /\ \A i \in 1..Len(items) : ~ (ItemState(items[i]) < newest[items[i].row.msg])
           /\ \A m \in Msg :
                IF \E i \in 1..Len(items) : items[i].row.msg = m
                THEN \E i \in 1..Len(items) : items[i].row.msg = m /\ newest'[m] = ItemState(items[i])
                ELSE newest'[m] = newest[m]
  <2>1. newest \in [Msg -> 0..2] /\ raced \in BOOLEAN /\ missing \subseteq Msg
    BY DEF ChatInv, TypeOK
  <2>2. LeftOut \subseteq 1..Len(items) /\ \A i \in 1..Len(items) : items[i].row.msg \in Msg
    BY <1>1, ItemIs DEF ChatInv, LeftOut, items
  <2> QED BY <1>1, <2>1, <2>2, UpsertsIs
<1>4. CASE unread' = 0 /\ base' = 0 /\ counted' = {}
  BY <1>4, CountReset
<1>5. CASE UNCHANGED <<unread, base, counted>>
  <2>1. \A i \in 1..Len(items) : items[i].deleted \in BOOLEAN
    BY <1>1, ItemIs DEF ChatInv
  <2>2. ASSUME ~ raced', NEW m \in counted
        PROVE  newest'[m] = 2 \/ (newest'[m] = 1 /\ \E r \in rows' : r.msg = m)
    <3>1. m \in Msg /\ (newest[m] = 2 \/ (newest[m] = 1 /\ \E r \in rows : r.msg = m))
      BY <1>3, <2>2 DEF ChatInv, TypeOK, CountInv, Msg
    <3>2. CASE \E i \in 1..Len(items) : items[i].row.msg = m
      <4>1. PICK i \in 1..Len(items) : items[i].row.msg = m /\ newest'[m] = ItemState(items[i])
        BY <1>3, <2>2, <3>1, <3>2
      <4>2. CASE items[i].deleted
        BY <4>1, <4>2 DEF ItemState
      <4>3. CASE ~ items[i].deleted
        <5>1. newest'[m] = 1 /\ newest[m] # 2
          BY <1>3, <2>2, <4>1, <4>3 DEF ItemState
        <5>2. \A j \in 1..Len(items) : items[j].row.msg = m => ~ items[j].deleted
          BY <1>2, <4>1, <4>3
        <5> QED BY <1>1, <2>1, <3>1, <5>1, <5>2, PassHas
      <4> QED BY <4>2, <4>3
    <3>3. CASE ~ \E i \in 1..Len(items) : items[i].row.msg = m
      <4>1. newest'[m] = newest[m]
        BY <1>3, <2>2, <3>1, <3>3
      <4>2. \A i \in 1..Len(items) : items[i].row.msg = m => ~ items[i].deleted
        BY <3>3
      <4>3. ASSUME \E r \in rows : r.msg = m PROVE \E r \in rows' : r.msg = m
        <5>1. Len(items) \in Nat
          BY <1>1
        <5>2. \E r \in Pass(rows, items)[Len(items)] : r.msg = m
          BY <2>1, <4>2, <4>3, <5>1, PassHas
        <5> QED BY <1>1, <5>2
      <4> QED BY <3>1, <4>1, <4>3
    <3> QED BY <3>2, <3>3
  <2> QED BY <1>3, <1>5, <2>2 DEF CountInv
<1> QED BY <1>1, <1>4, <1>5

LEMMA CountSync == ASSUME ChatInv, CountInv, SyncEnds PROVE CountInv'
<1>1. rows' = sync.rows /\ unread' = sync.unread /\ sync.at \in {"latest", "here"}
  BY SyncEndsIs
<1>2. CASE /\ UNCHANGED <<newest, missing, base, counted>>
           /\ raced' = (raced \/ sync.rows # rows \/ sync.unread # unread)
  <2>1. ~ raced' => ~ raced /\ rows' = rows /\ unread' = unread
    BY <1>1, <1>2
  <2> QED BY <1>2, <2>1 DEF CountInv
<1>3. CASE /\ \E same \in BOOLEAN :
                same = (sync.unread = unread) /\ Overwrites(sync.rows, sync.asof, same)
           /\ Recount(sync.unread)
  <2>1. PICK same \in BOOLEAN :
          same = (sync.unread = unread) /\ Overwrites(sync.rows, sync.asof, same)
    BY <1>3
  <2>2. unread' \in Nat /\ (same => unread' = unread)
    BY <1>1, <2>1, SyncIs
  <2>3. Recount(unread')
    BY <1>1, <1>3, Zenon
  <2> QED BY <1>1, <2>1, <2>2, <2>3, CountOverwrites
<1> QED BY <1>2, <1>3, SyncEndsIs

LEMMA CountStep == ASSUME ChatInv, CountInv, [Next]_vars PROVE CountInv'
BY CountQuiet, CountSend, CountCleared, CountHandle, CountOlder, CountFeed, CountSync DEF Next

\* The badge never says more than the messages counted since it was cleared or the
\* application started, however often a message is published, fetched or recovered: a
\* message that was counted has a row, or is deleted and not counted again, until
\* something older is written over it.
THEOREM BadgeCounts == Spec => []CountedOnce
<1>1. Init => CountInv
  <2> SUFFICES ASSUME Init PROVE CountInv
    OBVIOUS
  <2>1. IsFiniteSet(counted) /\ Cardinality(counted) = 0
    BY FS_EmptySet DEF Init
  <2> QED BY <2>1 DEF Init, CountInv
<1>2. Spec => [](ChatInv /\ CountInv)
  BY <1>1, ChatInit, ChatStep, CountStep, PTL DEF Spec
<1>3. CountInv => CountedOnce
  BY DEF CountInv, CountedOnce
<1> QED BY <1>2, <1>3, PTL

-----------------------------------------------------------------------------
(* What was missed is recovered. *)

LEMMA LogOf ==
  ASSUME ChatInv
  PROVE  /\ LogInv(log) /\ Len(log) \in Nat /\ Len(log) <= MaxLog /\ DOMAIN log = 1..Len(log)
         /\ cursor \in 0..Len(log)
         /\ newest \in [Msg -> 0..2]
         /\ \A i \in 1..Len(log) : log[i].msg \in Msg /\ Reach(i) \in {1, 2}
<1>1. LogInv(log) /\ log \in Seq(Change) /\ Len(log) <= MaxLog /\ newest \in [Msg -> 0..2]
  BY DEF ChatInv, TypeOK
<1>2. Len(log) \in Nat /\ DOMAIN log = 1..Len(log) /\ \A i \in 1..Len(log) : log[i] \in Change
  BY <1>1
<1>3. cursor \in 0..MaxLog /\ cursor <= Len(log)
  BY DEF ChatInv, TypeOK, FeedInv
<1>4. cursor \in 0..Len(log)
  BY <1>2, <1>3, BoundAssumption
<1> QED BY <1>1, <1>2, <1>4 DEF Change, Reach

Heard(n) == \A i \in n + 1..Len(log) : Seen(i) \/ Coming(i)
Last == feed.at = "here" /\ feed.since /\ ~ feed.more

\* What is written is never older than what was there, an event is lost with the
\* connection only, and a page that ends a recovery reaches to the end of the log or
\* to what has been published since.
LEMMA ReplayMove ==
  ASSUME ChatInv, ReplayInv, ChatInv', log' = log,
         ~ raced' => ~ raced /\ \A m \in Msg : newest[m] <= newest'[m] /\ newest'[m] <= State(log, m),
         ~ raced' => cursor' = cursor \/ \A i \in 1..cursor' : Seen(i)',
         ~ raced' /\ up /\ up' => \A i \in 1..Len(log) : Coming(i) => Coming(i)' \/ Seen(i)',
         up' /\ fresh' => up /\ (fresh \/ (Last /\ cursor' = feed.next)),
         up' /\ Last' => (up /\ Last /\ feed'.next = feed.next) \/ feed'.next = Len(log)
  PROVE  ReplayInv'
<1> SUFFICES ASSUME ~ raced'
             PROVE  /\ \A m \in Msg : newest'[m] <= State(log', m)
                    /\ \A i \in 1..cursor' : Seen(i)'
                    /\ up' /\ fresh' => Heard(0)'
                    /\ up' /\ Last' => \A i \in feed'.next + 1..Len(log') : (Seen(i) \/ Coming(i))'
  BY DEF ReplayInv, Heard, Last
<1>1. /\ ~ raced /\ Len(log) \in Nat /\ cursor \in 0..Len(log) /\ newest \in [Msg -> 0..2]
      /\ newest' \in [Msg -> 0..2] /\ cursor' \in 0..Len(log)
      /\ \A i \in 1..Len(log) : log[i].msg \in Msg /\ Reach(i) \in {1, 2}
  <2>1. ~ raced /\ Len(log) \in Nat /\ cursor \in 0..Len(log) /\ newest \in [Msg -> 0..2]
        /\ \A i \in 1..Len(log) : log[i].msg \in Msg /\ Reach(i) \in {1, 2}
    BY LogOf
  <2>2. newest' \in [Msg -> 0..2]
    BY TypesAre DEF ChatInv, Types
  <2>3. cursor' \in 0..MaxLog /\ cursor' <= Len(log')
    BY TypesAre DEF ChatInv, Types, FeedInv
  <2> QED BY <2>1, <2>2, <2>3, BoundAssumption
<1>2. ASSUME NEW i \in 1..Len(log), Seen(i) PROVE Seen(i)'
  BY <1>1, <1>2 DEF Seen, Reach
<1>3. \A i \in 1..cursor' : Seen(i)'
  <2>1. CASE cursor' = cursor
    BY <1>1, <1>2, <2>1 DEF ReplayInv
  <2> QED BY <2>1
<1>4. ASSUME up, up', NEW i \in 1..Len(log), Seen(i) \/ Coming(i) PROVE (Seen(i) \/ Coming(i))'
  BY <1>2, <1>4
<1>5. ASSUME up', fresh', NEW i \in 1..Len(log) PROVE (Seen(i) \/ Coming(i))'
  <2>1. CASE fresh
    BY <1>1, <1>4, <1>5, <2>1 DEF ReplayInv
  <2>2. CASE Last /\ cursor' = feed.next
    <3>1. CASE i <= cursor'
      BY <1>1, <1>3, <1>5, <3>1
    <3>2. CASE ~ i <= cursor'
      <4>1. i \in feed.next + 1..Len(log)
        BY <1>1, <2>2, <3>2
      <4>2. Seen(i) \/ Coming(i)
        BY <1>1, <1>5, <2>2, <4>1 DEF ReplayInv, Last
      <4> QED BY <1>4, <1>5, <4>2
    <3> QED BY <3>1, <3>2
  <2> QED BY <1>5, <2>1, <2>2
<1>6. ASSUME up', Last', NEW i \in feed'.next + 1..Len(log) PROVE (Seen(i) \/ Coming(i))'
  <2>1. feed'.next \in Nat
    <3>1. feed'.next \in cursor'..Len(log')
      BY <1>6 DEF Last, ChatInv, FeedInv
    <3> QED BY <1>1, <3>1
  <2>2. i \in 1..Len(log) /\ feed'.next # Len(log)
    BY <1>1, <1>6, <2>1
  <2>3. up /\ Last /\ feed'.next = feed.next
    BY <1>6, <2>2
  <2>4. Seen(i) \/ Coming(i)
    BY <1>1, <1>6, <2>3 DEF ReplayInv, Last
  <2> QED BY <1>4, <1>6, <2>2, <2>3, <2>4
<1> QED BY <1>1, <1>3, <1>5, <1>6 DEF ReplayInv, Heard

\* Steps that write nothing.
LEMMA ReplayQuiet ==
  ASSUME ChatInv, ReplayInv, ChatInv', log' = log, cursor' = cursor,
         ~ raced' => ~ raced /\ newest' = newest,
         up' /\ up => inbox' = inbox,
         up' /\ fresh' => up /\ fresh,
         up' /\ Last' => (up /\ Last /\ feed'.next = feed.next) \/ feed'.next = Len(log)
  PROVE  ReplayInv'
<1>1. ~ raced' => ~ raced /\ \A m \in Msg : newest[m] <= newest'[m] /\ newest'[m] <= State(log, m)
  <2>1. newest \in [Msg -> 0..2]
    BY LogOf
  <2> QED BY <2>1 DEF ReplayInv
<1>2. up' /\ up => \A i \in 1..Len(log) : Coming(i) => Coming(i)'
  BY DEF Coming, Reach
<1> QED BY <1>1, <1>2, ReplayMove

LEMMA ReplayClient ==
  ASSUME ChatInv, ReplayInv, ChatInv',
         \/ \E m \in Mine : SendMessage(m) \/ Uploaded(m) \/ UploadFails(m)
         \/ Open \/ Close \/ Show \/ BootList \/ BootAnswers \/ BootFails \/ Restart \/ Connect \/ Breaks
         \/ LoadOlder \/ OlderAnswers \/ OlderFails \/ FeedAnswers \/ FeedFails
         \/ SyncSnapshot \/ SyncAnswers \/ SyncFails \/ UNCHANGED vars
  PROVE  ReplayInv'
<1>1. log' = log /\ cursor' = cursor
  <2>1. CASE \E m \in Mine : SendMessage(m) \/ Uploaded(m) \/ UploadFails(m)
    BY <2>1 DEF SendMessage, Uploaded, UploadFails
  <2>2. CASE Open \/ Close \/ Show \/ Restart \/ Connect \/ Breaks
    BY <2>2 DEF Open, Close, Show, Restart, Connect, Breaks
  <2>3. CASE LoadOlder \/ OlderAnswers \/ OlderFails \/ FeedAnswers \/ FeedFails
    BY <2>3 DEF LoadOlder, OlderAnswers, OlderFails, FeedAnswers, FeedFails
  <2>4. CASE BootList \/ BootAnswers \/ BootFails \/ SyncSnapshot \/ SyncAnswers \/ SyncFails
    BY <2>4 DEF BootList, BootAnswers, BootFails, SyncSnapshot, SyncAnswers, SyncFails
  <2>5. CASE UNCHANGED vars
    BY <2>5 DEF vars
  <2> QED BY <2>1, <2>2, <2>3, <2>4, <2>5
<1>2. ~ raced' => ~ raced /\ newest' = newest
  <2>1. CASE \E m \in Mine : SendMessage(m) \/ Uploaded(m) \/ UploadFails(m)
    BY <2>1 DEF SendMessage, Uploaded, UploadFails, historyVars
  <2>2. CASE Open \/ Close \/ Show \/ Restart \/ Connect \/ Breaks
    BY <2>2 DEF Open, Close, Show, Restart, Connect, Breaks, historyVars
  <2>3. CASE LoadOlder \/ OlderAnswers \/ OlderFails \/ FeedAnswers \/ FeedFails
    BY <2>3 DEF LoadOlder, OlderAnswers, OlderFails, FeedAnswers, FeedFails, historyVars
  <2>4. CASE BootList \/ BootAnswers \/ BootFails \/ SyncSnapshot \/ SyncAnswers \/ SyncFails
    BY <2>4 DEF BootList, BootAnswers, BootFails, SyncSnapshot, SyncAnswers, SyncFails, historyVars
  <2>5. CASE UNCHANGED vars
    BY <2>5 DEF vars, historyVars
  <2> QED BY <2>1, <2>2, <2>3, <2>4, <2>5
<1>3. CASE FeedAnswers
  <2> DEFINE next == IF feed.from + FeedSize < Len(log) THEN feed.from + FeedSize ELSE Len(log)
  <2>1. feed'.next = next /\ (~ feed'.more => ~ (next < Len(log)))
    BY <1>3 DEF FeedAnswers
  <2>2. ~ (next < Len(log)) => next = Len(log)
    OBVIOUS
  <2>3. Last' => feed'.next = Len(log)
    BY <2>1, <2>2 DEF Last
  <2>4. up' = up /\ inbox' = inbox /\ fresh' = fresh
    BY <1>3 DEF FeedAnswers
  <2> QED BY <1>1, <1>2, <2>3, <2>4, ReplayQuiet
<1>4. CASE Connect
  <2>1. ~ Last'
    <3>1. CASE feed = None
      BY <1>4, <3>1 DEF Connect, Recovering, Last
    <3>2. CASE feed # None
      <4>1. feed' = [feed EXCEPT !.since = FALSE]
        BY <1>4, <3>2 DEF Connect
      <4>2. CASE feed \in [at: {"asked"}, from: 0..MaxLog, left: 1..MaxPages, since: BOOLEAN]
        BY <4>1, <4>2 DEF Last
      <4>3. CASE feed \in [at: {"here"}, from: 0..MaxLog, left: 1..MaxPages, since: BOOLEAN,
                           next: 0..MaxLog, more: BOOLEAN, items: Seq(Item)]
        BY <4>1, <4>3 DEF Last
      <4> QED BY <3>2, <4>2, <4>3 DEF ChatInv, TypeOK
    <3> QED BY <3>1, <3>2
  <2>2. ~ fresh' /\ inbox' = inbox
    BY <1>4 DEF Connect
  <2> QED BY <1>1, <1>2, <2>1, <2>2, ReplayQuiet
<1>5. CASE Restart \/ Breaks
  <2>1. ~ up'
    BY <1>5 DEF Restart, Breaks
  <2> QED BY <1>1, <1>2, <2>1, ReplayQuiet
<1>6. CASE Open
  <2>1. up' = up /\ inbox' = inbox /\ fresh' = fresh /\ (feed' = feed \/ feed'.at = "asked")
    BY <1>6 DEF Open, Recovering
  <2>2. Last' => Last /\ feed'.next = feed.next
    BY <2>1 DEF Last
  <2> QED BY <1>1, <1>2, <2>1, <2>2, ReplayQuiet
<1>7. CASE FeedFails
  <2>1. up' = up /\ inbox' = inbox /\ fresh' = fresh /\ ~ Last'
    BY <1>7 DEF FeedFails, Last, None
  <2> QED BY <1>1, <1>2, <2>1, ReplayQuiet
<1>8. CASE UNCHANGED <<up, inbox, fresh, feed>>
  <2>1. Last' => Last /\ feed'.next = feed.next
    BY <1>8 DEF Last
  <2> QED BY <1>1, <1>2, <1>8, <2>1, ReplayQuiet
<1>9. CASE \E m \in Mine : SendMessage(m) \/ Uploaded(m) \/ UploadFails(m)
  BY <1>8, <1>9 DEF SendMessage, Uploaded, UploadFails, fetchVars
<1>10. CASE Close \/ Show \/ LoadOlder \/ OlderAnswers \/ OlderFails
  BY <1>8, <1>10 DEF Close, Show, LoadOlder, OlderAnswers, OlderFails, fetchVars
<1>11. CASE BootList \/ BootAnswers \/ BootFails
  BY <1>8, <1>11 DEF BootList, BootAnswers, BootFails
<1>12. CASE SyncSnapshot \/ SyncAnswers \/ SyncFails \/ UNCHANGED vars
  BY <1>8, <1>12 DEF SyncSnapshot, SyncAnswers, SyncFails, vars, fetchVars
<1> QED BY <1>3, <1>4, <1>5, <1>6, <1>7, <1>9, <1>10, <1>11, <1>12

\* The server tells those connected of every change.
LEMMA ReplayServer ==
  ASSUME ChatInv, ReplayInv, ChatInv', NEW m \in Msg, Server(m) PROVE ReplayInv'
<1>1. Grown(m) /\ ServerKeeps
  BY ServerMoves
<1>2. UNCHANGED <<cursor, up, feed, fresh, newest, raced>>
  BY DEF Server, fetchVars, historyVars
<1> SUFFICES ASSUME ~ raced
             PROVE  /\ \A x \in Msg : newest[x] <= State(log', x)
                    /\ \A i \in 1..cursor : Seen(i)'
                    /\ up /\ fresh => Heard(0)'
                    /\ up /\ Last => \A i \in feed.next + 1..Len(log') : (Seen(i) \/ Coming(i))'
  BY <1>2 DEF ReplayInv, Heard, Last
<1>3. /\ Len(log) \in Nat /\ cursor \in 0..Len(log) /\ newest \in [Msg -> 0..2] /\ LogInv(log)
      /\ LogInv(log') /\ Len(log') \in Nat /\ Len(log') <= MaxLog /\ DOMAIN log' = 1..Len(log')
      /\ Grows(log, log')
  <2>1. LogInv(log') /\ Len(log') <= MaxLog /\ Grows(log, log')
    BY <1>1 DEF Grown
  <2>2. Len(log') \in Nat /\ DOMAIN log' = 1..Len(log')
    BY <2>1 DEF LogInv
  <2>3. Len(log) \in Nat /\ cursor \in 0..Len(log) /\ newest \in [Msg -> 0..2] /\ LogInv(log)
    BY LogOf
  <2> QED BY <2>1, <2>2, <2>3
<1>4. \A x \in Msg : newest[x] <= State(log', x)
  <2> SUFFICES ASSUME NEW x \in Msg PROVE newest[x] <= State(log', x)
    OBVIOUS
  <2>1. newest[x] <= State(log, x) /\ State(log, x) <= State(log', x)
    BY <1>3, StateGrows DEF ReplayInv
  <2>2. State(log, x) \in {0, 1, 2} /\ State(log', x) \in {0, 1, 2} /\ newest[x] \in 0..2
    BY <1>3, StateIs
  <2> QED BY <2>1, <2>2
<1>5. ASSUME NEW i \in 1..Len(log) PROVE log'[i] = log[i] /\ Reach(i)' = Reach(i) /\ i \in 1..Len(log')
  BY <1>3 DEF Grows, Reach
<1>6. ASSUME NEW i \in 1..Len(log), Seen(i) PROVE Seen(i)'
  BY <1>2, <1>5, <1>6 DEF Seen
<1>7. ASSUME up, NEW i \in 1..Len(log), Coming(i) PROVE Coming(i)'
  BY <1>1, <1>5, <1>7 DEF Coming, ServerKeeps
<1>8. ASSUME up, NEW i \in 1..Len(log'), ~ i \in 1..Len(log) PROVE Coming(i)'
  <2>1. log' # log /\ i = Len(log) + 1
    <3>1. log' # log
      BY <1>8
    <3>2. Len(log') = Len(log) + 1
      BY <1>1, <3>1 DEF Grown
    <3> QED BY <1>3, <1>8, <3>1, <3>2
  <2>2. PICK j \in 1..Len(inbox') :
               inbox'[j] \in {EventOf(log', m, "new"), EventOf(log', m, "changed")}
    BY <1>1, <1>8, <2>1 DEF Grown
  <2>3. log'[i].msg = m
    BY <1>1, <2>1 DEF Grown
  <2>4. inbox'[j].kind \in {"new", "changed"} /\ inbox'[j].item = ServerItem(log', m)
    BY <2>2 DEF EventOf
  <2>5. /\ ServerItem(log', m).row.msg = log'[i].msg
        /\ ItemState(ServerItem(log', m)) >= (IF log'[i].kind = "create" THEN 1 ELSE 2)
    BY <1>3, <2>3, EntryItem
  <2> QED BY <2>4, <2>5 DEF Coming, Reach
<1>9. \A i \in 1..cursor : Seen(i)'
  BY <1>3, <1>6 DEF ReplayInv
<1>10. up /\ fresh => Heard(0)'
  <2> SUFFICES ASSUME up, fresh, NEW i \in 1..Len(log') PROVE (Seen(i) \/ Coming(i))'
    BY <1>3 DEF Heard
  <2>1. CASE i \in 1..Len(log)
    BY <1>6, <1>7, <2>1 DEF ReplayInv
  <2> QED BY <1>8, <2>1
<1>11. ASSUME up, Last, NEW i \in feed.next + 1..Len(log') PROVE (Seen(i) \/ Coming(i))'
  <2>1. feed.next \in Nat
    <3>1. feed.next \in cursor..Len(log)
      BY <1>11 DEF Last, ChatInv, FeedInv
    <3> QED BY <1>3, <3>1
  <2>2. i \in 1..Len(log')
    BY <1>3, <1>11, <2>1
  <2>3. CASE i \in 1..Len(log)
    <3>1. i \in feed.next + 1..Len(log)
      BY <1>11, <2>1, <2>3
    <3>2. Seen(i) \/ Coming(i)
      BY <1>11, <3>1 DEF ReplayInv, Last
    <3> QED BY <1>6, <1>7, <1>11, <2>3, <3>2
  <2> QED BY <1>8, <1>11, <2>2, <2>3
<1> QED BY <1>4, <1>9, <1>10, <1>11

\* A whole list that is written is as new as what was there, or it is a race.
LEMMA ReplayOverwrites ==
  ASSUME ChatInv, NEW list, NEW n, FromServer(list, n), NEW same \in BOOLEAN,
         Overwrites(list, n, same), ~ raced'
  PROVE  ~ raced /\ same /\ \A m \in Msg : newest[m] <= newest'[m] /\ newest'[m] <= State(log, m)
<1> DEFINE l == SubSeq(log, 1, n)
<1>1. /\ LogInv(log) /\ newest \in [Msg -> 0..2] /\ raced \in BOOLEAN /\ n \in 0..Len(log)
  BY LogOf DEF ChatInv, TypeOK, FromServer
<1>2. ~ raced /\ same /\ \A m \in Msg : newest'[m] = State(l, m) /\ ~ (newest[m] > State(l, m))
  BY <1>1, OverwritesIs
<1>3. LogInv(l) /\ Grows(l, log)
  BY <1>1, LogPrefix
<1> HIDE DEF l
<1>4. \A m \in Msg : State(l, m) <= State(log, m) /\ State(l, m) \in {0, 1, 2}
  BY <1>1, <1>3, StateGrows, StateIs
<1> QED BY <1>1, <1>2, <1>4

LEMMA ReplayLists ==
  ASSUME ChatInv, ReplayInv, ChatInv', OlderApplies \/ BootEnds \/ SyncEnds PROVE ReplayInv'
<1>1. UNCHANGED <<log, cursor, up, inbox, fresh, feed>>
  <2>1. CASE OlderApplies \/ BootEnds
    BY <2>1 DEF OlderApplies, BootEnds
  <2>2. CASE SyncEnds
    BY <2>2, SyncEndsIs
  <2> QED BY <2>1, <2>2
<1>2. newest \in [Msg -> 0..2]
  BY LogOf
<1>3. ~ raced' => ~ raced /\ \A m \in Msg : newest[m] <= newest'[m] /\ newest'[m] <= State(log, m)
  <2>1. ASSUME newest' = newest, ~ raced' => ~ raced
        PROVE  ~ raced' => ~ raced /\ \A m \in Msg : newest[m] <= newest'[m] /\ newest'[m] <= State(log, m)
    <3>1. \A m \in Msg : newest[m] \in 0..2
      BY <1>2
    <3>2. \A m \in Msg : newest[m] <= newest[m]
      BY <3>1
    <3> QED BY <2>1, <3>2 DEF ReplayInv
  <2>2. CASE OlderApplies
    <3>1. Overwrites(older.rows, older.asof, TRUE) /\ FromServer(older.rows, older.asof)
      BY <2>2 DEF OlderApplies, ChatInv, ListsInv
    <3> QED BY <3>1, ReplayOverwrites
  <2>3. CASE BootEnds
    <3>1. FromServer(boot.rows, boot.asof)
      BY <2>3, BootEndsIs
    <3>2. CASE newest' = newest /\ raced' = (raced \/ boot.unread # unread)
      BY <2>1, <3>2
    <3>3. CASE \E same \in BOOLEAN : Overwrites(boot.rows, boot.asof, same)
      BY <3>1, <3>3, ReplayOverwrites
    <3> QED BY <2>3, <3>2, <3>3, BootEndsIs
  <2>4. CASE SyncEnds
    <3>1. CASE newest' = newest /\ raced' = (raced \/ sync.rows # rows \/ sync.unread # unread)
      BY <2>1, <3>1
    <3>2. CASE /\ FromServer(sync.rows, sync.asof)
               /\ \E same \in BOOLEAN : Overwrites(sync.rows, sync.asof, same)
      BY <3>2, ReplayOverwrites
    <3> QED BY <2>4, <3>1, <3>2, SyncEndsIs
  <2> QED BY <2>2, <2>3, <2>4
<1>4. \A i \in 1..Len(log) : Coming(i) => Coming(i)'
  BY <1>1 DEF Coming, Reach
<1>5. Last' => Last /\ feed'.next = feed.next
  BY <1>1 DEF Last
<1> QED BY <1>1, <1>3, <1>4, <1>5, ReplayMove

LEMMA ReplayHandle == ASSUME ChatInv, ReplayInv, ChatInv', Handle PROVE ReplayInv'
<1> DEFINE e == inbox[1]
<1>1. /\ UNCHANGED <<cursor, up, feed, log, fresh>> /\ up
      /\ e \in Event /\ GoodEvent(e, log)
      /\ Len(inbox) \in Nat /\ Len(inbox') = Len(inbox) - 1
      /\ \A i \in 1..Len(inbox') : i + 1 \in 1..Len(inbox) /\ inbox'[i] = inbox[i + 1]
      /\ \/ e.kind \in {"new", "changed"} /\ HandleItem(e)
         \/ e.kind = "ack" /\ HandleAck(e.item.row.msg)
         \/ e.kind = "failed" /\ HandleFailed(e.item.row.msg)
  BY HandleCases
<1>2. LogInv(log) /\ newest \in [Msg -> 0..2]
      /\ \A i \in 1..Len(log) : log[i].msg \in Msg /\ Reach(i) \in {1, 2}
  BY LogOf
\* An event behind the first one is still on its way.
<1>3. ASSUME NEW i, NEW j \in 1..Len(inbox), j # 1,
             inbox[j].kind \in {"new", "changed"}, inbox[j].item.row.msg = log[i].msg,
             ItemState(inbox[j].item) >= Reach(i)
      PROVE  Coming(i)'
  <2>1. j - 1 \in 1..Len(inbox') /\ inbox'[j - 1] = inbox[j]
    BY <1>1, <1>3
  <2>2. log' = log /\ Reach(i)' = Reach(i)
    BY <1>1 DEF Reach
  <2> QED BY <1>3, <2>1, <2>2 DEF Coming
<1>4. Last' => Last /\ feed'.next = feed.next
  BY <1>1 DEF Last
<1>5. CASE e.kind \in {"new", "changed"} /\ HandleItem(e)
  <2> DEFINE m == e.item.row.msg
  <2>1. GoodItem(e.item, log)
    BY <1>1, <1>5 DEF GoodEvent
  <2>2. ~ raced' =>
          /\ ~ raced /\ ~ (ItemState(e.item) < newest[m])
          /\ newest'[m] = ItemState(e.item)
          /\ \A x \in Msg : x # m => newest'[x] = newest[x]
    BY <1>1, <1>5, <2>1, HandleItemIs
  <2>3. m \in Msg /\ ItemState(e.item) \in {1, 2} /\ ItemState(e.item) <= State(log, m)
    BY <1>2, <2>1, ItemIs
  <2>4. ASSUME ~ raced'
        PROVE  ~ raced /\ \A x \in Msg : newest[x] <= newest'[x] /\ newest'[x] <= State(log, x)
    <3>1. ~ raced
      BY <2>2, <2>4
    <3>2. ASSUME NEW x \in Msg PROVE newest[x] <= newest'[x] /\ newest'[x] <= State(log, x)
      <4>1. newest[x] \in 0..2 /\ newest[x] <= State(log, x)
        BY <1>2, <3>1 DEF ReplayInv
      <4>2. CASE x = m
        BY <2>2, <2>3, <2>4, <4>1, <4>2
      <4>3. CASE x # m
        <5>1. newest'[x] = newest[x]
          BY <2>2, <2>4, <4>3
        <5> QED BY <4>1, <5>1
      <4> QED BY <4>2, <4>3
    <3> QED BY <3>1, <3>2
  <2>5. ASSUME ~ raced', NEW i \in 1..Len(log), Coming(i) PROVE Coming(i)' \/ Seen(i)'
    <3>1. PICK j \in 1..Len(inbox) :
            /\ inbox[j].kind \in {"new", "changed"} /\ inbox[j].item.row.msg = log[i].msg
            /\ ItemState(inbox[j].item) >= Reach(i)
      BY <2>5 DEF Coming
    <3>2. CASE j = 1
      <4>1. log[i].msg = m /\ ItemState(e.item) >= Reach(i)
        BY <3>1, <3>2
      <4>2. newest'[m] = ItemState(e.item)
        BY <2>2, <2>5
      <4>3. log' = log /\ Reach(i)' = Reach(i)
        BY <1>1 DEF Reach
      <4> HIDE DEF m, e
      <4> QED BY <4>1, <4>2, <4>3 DEF Seen
    <3> QED BY <1>3, <3>1, <3>2
  <2> QED BY <1>1, <1>4, <2>4, <2>5, ReplayMove
<1>6. CASE e.kind \in {"ack", "failed"} /\ (HandleAck(e.item.row.msg) \/ HandleFailed(e.item.row.msg))
  <2>1. newest' = newest /\ raced' = raced
    BY <1>6 DEF HandleAck, HandleFailed, historyVars
  <2>2. ~ raced' => ~ raced /\ \A m \in Msg : newest[m] <= newest'[m] /\ newest'[m] <= State(log, m)
    <3>1. \A m \in Msg : newest[m] \in 0..2
      BY <1>2
    <3>2. \A m \in Msg : newest[m] <= newest[m]
      BY <3>1
    <3> QED BY <2>1, <3>2 DEF ReplayInv
  <2>3. ASSUME NEW i \in 1..Len(log), Coming(i) PROVE Coming(i)'
    <3>1. PICK j \in 1..Len(inbox) :
            /\ inbox[j].kind \in {"new", "changed"} /\ inbox[j].item.row.msg = log[i].msg
            /\ ItemState(inbox[j].item) >= Reach(i)
      BY <2>3 DEF Coming
    <3>2. j # 1
      BY <1>6, <3>1
    <3> QED BY <1>3, <3>1, <3>2
  <2> QED BY <1>1, <1>4, <2>2, <2>3, ReplayMove
<1> QED BY <1>1, <1>5, <1>6

\* What the history says of a page: of the items of a message, which are equal.
LEMMA FeedHistory ==
  ASSUME ChatInv, FeedApplies, ~ raced'
  PROVE  /\ ~ raced
         /\ \A i \in 1..Len(feed.items) :
              /\ feed.items[i].row.msg \in Msg
              /\ newest[feed.items[i].row.msg] <= ItemState(feed.items[i])
              /\ newest'[feed.items[i].row.msg] = ItemState(feed.items[i])
         /\ \A m \in Msg : (\A i \in 1..Len(feed.items) : feed.items[i].row.msg # m) => newest'[m] = newest[m]
         /\ \A i, j \in 1..Len(feed.items) :
              feed.items[i].row.msg = feed.items[j].row.msg => feed.items[i] = feed.items[j]
         /\ \A m \in Msg \ missing' :
              /\ (\A i \in 1..Len(feed.items) : feed.items[i].row.msg # m) => m \notin missing
              /\ \A i \in 1..Len(feed.items) : feed.items[i].row.msg = m => i \notin LeftOut
<1> DEFINE items == feed.items
<1>1. /\ feed.at = "here" /\ DOMAIN items = 1..Len(items) /\ Len(items) \in Nat
      /\ Upserts(items, LeftOut) /\ LeftOut \subseteq 1..Len(items)
      /\ \A i \in 1..Len(items) : GoodItem(items[i], log)
  BY FeedAppliesIs DEF LeftOut
<1>2. \A i, j \in 1..Len(items) : items[i].row.msg = items[j].row.msg => items[i] = items[j]
  BY <1>1 DEF ChatInv, FeedInv
<1> HIDE DEF items
<1>3. /\ ~ raced
      /\ \A i \in 1..Len(items) : ~ (ItemState(items[i]) < newest[items[i].row.msg])
      /\ \A m \in Msg :
           IF \E i \in 1..Len(items) : items[i].row.msg = m
           THEN \E i \in 1..Len(items) : items[i].row.msg = m /\ newest'[m] = ItemState(items[i])
           ELSE newest'[m] = newest[m]
      /\ \A m : m \in missing' <=>
           \/ m \in missing /\ \A i \in 1..Len(items) : items[i].row.msg # m
           \/ \E i \in LeftOut : items[i].row.msg = m
  <2>1. newest \in [Msg -> 0..2] /\ raced \in BOOLEAN /\ missing \subseteq Msg
    BY DEF ChatInv, TypeOK
  <2>2. \A i \in 1..Len(items) : items[i].row.msg \in Msg
    BY <1>1, ItemIs DEF ChatInv
  <2> DEFINE left == LeftOut
  <2>3. Upserts(items, left) /\ left \subseteq 1..Len(items)
    BY <1>1
  <2> HIDE DEF left
  <2>4. Len(items) \in Nat /\ DOMAIN items = 1..Len(items)
    BY <1>1
  <2>5. ~ raced' =>
          /\ ~ raced
          /\ \A m : m \in missing' <=>
                \/ m \in missing /\ \A i \in 1..Len(items) : items[i].row.msg # m
                \/ \E i \in left : items[i].row.msg = m
          /\ \A i \in 1..Len(items) : ~ (ItemState(items[i]) < newest[items[i].row.msg])
          /\ \A m \in Msg :
               IF \E i \in 1..Len(items) : items[i].row.msg = m
               THEN \E i \in 1..Len(items) : items[i].row.msg = m /\ newest'[m] = ItemState(items[i])
               ELSE newest'[m] = newest[m]
    BY <2>1, <2>2, <2>3, <2>4, UpsertsIs, Zenon
  <2> QED BY <2>5 DEF left
<1>6. \A m \in Msg \ missing' :
        /\ (\A i \in 1..Len(items) : items[i].row.msg # m) => m \notin missing
        /\ \A i \in 1..Len(items) : items[i].row.msg = m => i \notin LeftOut
  BY <1>3
<1>4. ASSUME NEW i \in 1..Len(items)
      PROVE  /\ items[i].row.msg \in Msg
             /\ newest[items[i].row.msg] <= ItemState(items[i])
             /\ newest'[items[i].row.msg] = ItemState(items[i])
  <2>1. items[i].row.msg \in Msg /\ ItemState(items[i]) \in {1, 2} /\ newest \in [Msg -> 0..2]
    BY <1>1, LogOf, ItemIs
  <2>2. PICK j \in 1..Len(items) :
          items[j].row.msg = items[i].row.msg /\ newest'[items[i].row.msg] = ItemState(items[j])
    BY <1>3, <2>1
  <2>3. items[j] = items[i]
    BY <1>2, <2>2
  <2>4. newest'[items[i].row.msg] = ItemState(items[i])
    BY <2>2, <2>3
  <2>5. newest[items[i].row.msg] \in 0..2 /\ ~ (ItemState(items[i]) < newest[items[i].row.msg])
    BY <1>3, <2>1
  <2> QED BY <2>1, <2>4, <2>5
<1>5. \A m \in Msg : (\A i \in 1..Len(items) : items[i].row.msg # m) => newest'[m] = newest[m]
  BY <1>3
<1> QED BY <1>2, <1>3, <1>4, <1>5, <1>6 DEF items

LEMMA ReplayFeed == ASSUME ChatInv, ReplayInv, ChatInv', FeedApplies PROVE ReplayInv'
<1> DEFINE items == feed.items
<1>1. /\ UNCHANGED <<up, inbox, log>>
      /\ feed.at = "here" /\ feed.next \in cursor..Len(log) /\ cursor \in Nat /\ Len(log) \in Nat
      /\ Len(items) = feed.next - cursor
      /\ \A i \in 1..Len(items) : GoodItem(items[i], log)
      /\ cursor' = feed.next
      /\ GoesOn(feed')
      /\ fresh' = (fresh \/ (feed.since /\ ~ feed.more /\ up))
  BY FeedAppliesIs
<1>2. \A i \in 1..Len(items) :
        items[i].row.msg = log[cursor + i].msg /\ ItemState(items[i]) >= Reach(cursor + i)
  BY <1>1 DEF ChatInv, FeedInv
<1>3. LogInv(log) /\ newest \in [Msg -> 0..2] /\ newest' \in [Msg -> 0..2]
      /\ \A i \in 1..Len(log) : log[i].msg \in Msg /\ Reach(i) \in {1, 2}
  BY LogOf DEF ChatInv, TypeOK
<1>4. ~ raced' =>
        /\ ~ raced
        /\ \A i \in 1..Len(items) :
             /\ items[i].row.msg \in Msg
             /\ newest[items[i].row.msg] <= ItemState(items[i])
             /\ newest'[items[i].row.msg] = ItemState(items[i])
        /\ \A m \in Msg : (\A i \in 1..Len(items) : items[i].row.msg # m) => newest'[m] = newest[m]
  BY FeedHistory
<1> HIDE DEF items
<1>5. ASSUME ~ raced', NEW m \in Msg PROVE newest[m] <= newest'[m] /\ newest'[m] <= State(log, m)
  <2>1. newest[m] \in 0..2 /\ newest[m] <= State(log, m)
    BY <1>3, <1>4, <1>5 DEF ReplayInv
  <2>2. CASE \E i \in 1..Len(items) : items[i].row.msg = m
    <3>1. PICK i \in 1..Len(items) : items[i].row.msg = m
      BY <2>2
    <3>2. newest[m] <= ItemState(items[i]) /\ newest'[m] = ItemState(items[i])
      BY <1>4, <1>5, <3>1
    <3>3. ItemState(items[i]) <= State(log, m)
      BY <1>1, <1>3, <3>1, ItemIs
    <3> QED BY <3>2, <3>3
  <2>3. CASE \A i \in 1..Len(items) : items[i].row.msg # m
    <3>1. newest'[m] = newest[m]
      BY <1>4, <1>5, <2>3
    <3> QED BY <2>1, <3>1
  <2> QED BY <2>2, <2>3
<1>6. ASSUME ~ raced', NEW i \in 1..cursor' PROVE Seen(i)'
  <2>1. i \in 1..Len(log) /\ log' = log /\ Reach(i)' = Reach(i)
    BY <1>1, <1>6 DEF Reach
  <2>2. newest'[log[i].msg] >= Reach(i)
    <3>1. CASE i <= cursor
      <4>1. newest[log[i].msg] >= Reach(i)
        BY <1>1, <1>4, <1>6, <3>1 DEF ReplayInv, Seen
      <4>2. log[i].msg \in Msg /\ Reach(i) \in {1, 2}
        BY <1>3, <2>1
      <4>3. newest[log[i].msg] <= newest'[log[i].msg]
        BY <1>5, <1>6, <4>2
      <4>4. newest[log[i].msg] \in 0..2 /\ newest'[log[i].msg] \in 0..2
        BY <1>3, <4>2
      <4> QED BY <4>1, <4>2, <4>3, <4>4
    <3>2. CASE ~ i <= cursor
      <4> DEFINE k == i - cursor
      <4>1. k \in 1..Len(items) /\ cursor + k = i
        BY <1>1, <1>6, <3>2
      <4> HIDE DEF k
      <4>2. items[k].row.msg = log[i].msg /\ ItemState(items[k]) >= Reach(i)
        BY <1>2, <4>1
      <4>3. newest'[items[k].row.msg] = ItemState(items[k])
        BY <1>4, <1>6, <4>1
      <4> QED BY <4>2, <4>3
    <3> QED BY <3>1, <3>2
  <2> QED BY <2>1, <2>2 DEF Seen
<1>7. \A i \in 1..Len(log) : Coming(i) => Coming(i)'
  BY <1>1 DEF Coming, Reach
<1>8. up' /\ fresh' => up /\ (fresh \/ (Last /\ cursor' = feed.next))
  BY <1>1 DEF Last
<1>9. ~ Last'
  BY <1>1 DEF Last, GoesOn, None
<1> QED BY <1>1, <1>4, <1>5, <1>6, <1>7, <1>8, <1>9, ReplayMove

LEMMA ReplayStep == ASSUME ChatInv, ReplayInv, [Next]_vars PROVE ReplayInv'
<1>1. ChatInv'
  BY ChatStep
<1> QED BY <1>1, ReplayClient, ReplayServer, ReplayLists, ReplayHandle, ReplayFeed DEF Next

-----------------------------------------------------------------------------
(* What has been written is shown. *)

LEMMA ShownSame ==
  ASSUME ShownInv, log' = log,
         ~ raced' /\ loaded' => /\ ~ raced /\ loaded
                                /\ newest' = newest /\ rows' = rows /\ missing' = missing
  PROVE  ShownInv'
BY DEF ShownInv

LEMMA ShownQuiet ==
  ASSUME ChatInv, ShownInv,
         \/ Open \/ Close \/ Show \/ BootList \/ BootAnswers \/ BootFails \/ BootEnds \/ Restart
         \/ Connect \/ Breaks \/ LoadOlder \/ OlderAnswers \/ OlderFails \/ FeedAnswers \/ FeedFails
         \/ SyncSnapshot \/ SyncAnswers \/ SyncFails \/ UNCHANGED vars
  PROVE  ShownInv'
<1>1. CASE BootEnds \/ Restart
  BY <1>1, ShownSame DEF BootEnds, Restart
<1>2. CASE UNCHANGED <<log, raced, missing, loaded, newest, rows>>
  BY <1>2, ShownSame
<1>3. CASE Open \/ Close \/ Show \/ Connect \/ Breaks
  BY <1>2, <1>3 DEF Open, Close, Show, Connect, Breaks, viewVars, historyVars
<1>4. CASE BootList \/ BootAnswers \/ BootFails
  BY <1>2, <1>4 DEF BootList, BootAnswers, BootFails, viewVars, historyVars
<1>5. CASE LoadOlder \/ OlderAnswers \/ OlderFails
  BY <1>2, <1>5 DEF LoadOlder, OlderAnswers, OlderFails, viewVars, historyVars
<1>6. CASE FeedAnswers \/ FeedFails
  BY <1>2, <1>6 DEF FeedAnswers, FeedFails, viewVars, historyVars
<1>7. CASE SyncSnapshot \/ SyncAnswers \/ SyncFails
  BY <1>2, <1>7 DEF SyncSnapshot, SyncAnswers, SyncFails, viewVars, historyVars
<1>8. CASE UNCHANGED vars
  BY <1>2, <1>8 DEF vars, viewVars, historyVars
<1> QED BY <1>1, <1>3, <1>4, <1>5, <1>6, <1>7, <1>8

\* A row the server knows keeps its place when the user sends, or a sending fails.
LEMMA ShownSend ==
  ASSUME ChatInv, ReplayInv, ShownInv, NEW m \in Mine, SendMessage(m) \/ Uploaded(m) \/ UploadFails(m)
  PROVE  ShownInv'
<1>1. /\ UNCHANGED <<log, raced, missing, loaded, newest>>
      /\ \A r \in rows : r.id => r \in rows'
      /\ \A r \in rows' : r \in rows \/ (r.msg = m /\ mine[m] \in Unstored)
  <2>1. CASE SendMessage(m)
    <3>1. PICK ahead \in 0..MaxSkew : rows' = rows \cup {Optimistic(m, ahead)}
      BY <2>1 DEF SendMessage
    <3>2. Optimistic(m, ahead).msg = m /\ mine[m] \in Unstored
      BY <2>1 DEF SendMessage, Optimistic, Unstored
    <3> QED BY <2>1, <3>1, <3>2 DEF SendMessage, viewVars, historyVars
  <2>2. CASE Uploaded(m)
    BY <2>2 DEF Uploaded, viewVars, historyVars
  <2>3. CASE UploadFails(m)
    BY <2>3 DEF UploadFails, viewVars, historyVars
  <2> QED BY <2>1, <2>2, <2>3
<1> SUFFICES ASSUME ~ raced, loaded, NEW x \in Msg \ missing
             PROVE  /\ newest[x] = 1 => ServerRow(log, x) \in rows'
                    /\ newest[x] = 2 => \A r \in rows' : r.msg # x
  BY <1>1 DEF ShownInv
<1>2. newest[x] = 1 => ServerRow(log, x) \in rows'
  BY <1>1 DEF ShownInv, ServerRow
<1>3. ASSUME newest[x] = 2, NEW r \in rows', r.msg = x PROVE FALSE
  <2>1. r \notin rows
    BY <1>3 DEF ShownInv
  <2>2. x = m /\ mine[m] \in Unstored
    BY <1>1, <1>3, <2>1
  <2>3. ~ Exists(log, x)
    BY <2>2 DEF ChatInv, RowsInv
  <2>4. State(log, x) = 0 /\ newest[x] <= State(log, x)
    BY <2>3, StateIs DEF ChatInv, ReplayInv
  <2> QED BY <1>3, <2>4
<1> QED BY <1>2, <1>3

LEMMA ShownServer ==
  ASSUME ChatInv, ReplayInv, ShownInv, NEW m \in Msg, Server(m) PROVE ShownInv'
<1>1. Grown(m)
  BY ServerMoves
<1>2. UNCHANGED <<rows, loaded, newest, raced, missing>>
  BY DEF Server, viewVars, historyVars
<1> SUFFICES ASSUME ~ raced, loaded, NEW x \in Msg \ missing
             PROVE  /\ newest[x] = 1 => ServerRow(log', x) \in rows
                    /\ newest[x] = 2 => \A r \in rows : r.msg # x
  BY <1>2 DEF ShownInv
<1>3. ASSUME newest[x] = 1 PROVE ServerRow(log', x) = ServerRow(log, x)
  <2>1. LogInv(log) /\ LogInv(log') /\ Grows(log, log')
    BY <1>1 DEF Grown, ChatInv
  <2>2. newest[x] <= State(log, x)
    BY DEF ReplayInv
  <2>3. Exists(log, x)
    BY <1>3, <2>1, <2>2, StateIs
  <2> QED BY <2>1, <2>3, GrowsKeeps
<1> QED BY <1>3 DEF ShownInv

LEMMA ShownHandle == ASSUME ChatInv, ShownInv, Handle PROVE ShownInv'
<1> DEFINE e == inbox[1]
           m == e.item.row.msg
<1>1. /\ UNCHANGED <<log, loaded>> /\ e \in Event /\ GoodEvent(e, log)
      /\ \/ e.kind \in {"new", "changed"} /\ HandleItem(e)
         \/ e.kind = "ack" /\ HandleAck(m)
         \/ e.kind = "failed" /\ HandleFailed(m)
  BY HandleCases
<1>2. CASE e.kind \in {"new", "changed"} /\ HandleItem(e)
  <2>1. GoodItem(e.item, log)
    BY <1>1, <1>2 DEF GoodEvent
  <2>2. /\ m \in Msg /\ e.item.deleted \in BOOLEAN
        /\ rows' = ApplyTo(rows, e.item) /\ missing' \subseteq Msg
        /\ ~ raced' => /\ \A x \in Msg : x # m /\ x \in missing => x \in missing'
                       /\ ~ raced /\ newest'[m] = ItemState(e.item)
                       /\ \A x \in Msg : x # m => newest'[x] = newest[x]
    BY <1>1, <1>2, <2>1, HandleItemIs
  <2>3. e.item.row = ServerRow(log, m)
    BY <2>1 DEF GoodItem
  <2> SUFFICES ASSUME ~ raced', loaded, NEW x \in Msg \ missing'
               PROVE  /\ newest'[x] = 1 => ServerRow(log, x) \in rows'
                      /\ newest'[x] = 2 => \A r \in rows' : r.msg # x
    BY <1>1, <2>2 DEF ShownInv
  <2> HIDE DEF m
  <2>4. CASE x = m
    <3>1. newest'[x] = ItemState(e.item)
      BY <2>2, <2>4
    <3>2. newest'[x] = 1 => ~ e.item.deleted
      BY <3>1 DEF ItemState
    <3>3. newest'[x] = 2 => e.item.deleted
      BY <3>1 DEF ItemState
    <3>4. e.item.row.msg = x
      BY <2>4 DEF m
    <3> QED BY <2>2, <2>3, <2>4, <3>2, <3>3, <3>4, ApplyRows
  <2>5. CASE x # m
    <3>1. newest'[x] = newest[x] /\ ~ raced /\ x \notin missing
      BY <2>2, <2>5
    <3>2. \A r : r.msg = x => (r \in rows' <=> r \in rows)
      BY <2>2, <2>5, ApplyRows DEF m
    <3>3. ServerRow(log, x).msg = x
      BY DEF ServerRow
    <3>4. /\ newest[x] = 1 => ServerRow(log, x) \in rows
          /\ newest[x] = 2 => \A r \in rows : r.msg # x
      BY <3>1 DEF ShownInv
    <3> QED BY <3>1, <3>2, <3>3, <3>4
  <2> QED BY <2>4, <2>5
<1>3. ASSUME newest' = newest, raced' = raced, missing' = missing,
             \A r \in rows : r.id => r \in rows',
             \A s \in rows' : \E r \in rows : r.msg = s.msg
      PROVE  ShownInv'
  <2>1. \A x : ServerRow(log, x).id
    BY DEF ServerRow
  <2> SUFFICES ASSUME ~ raced, loaded, NEW x \in Msg \ missing
               PROVE  /\ newest[x] = 1 => ServerRow(log, x) \in rows'
                      /\ newest[x] = 2 => \A r \in rows' : r.msg # x
    BY <1>1, <1>3 DEF ShownInv
  <2> QED BY <1>3, <2>1 DEF ShownInv
<1>4. CASE e.kind = "ack" /\ HandleAck(m)
  <2>1. Exists(log, m)
    BY <1>1, <1>4 DEF GoodEvent, GoodItem
  <2>2. rows \subseteq Row /\ GoodRows(rows)
    BY DEF ChatInv, TypeOK, RowsInv
  <2> HIDE DEF m
  <2>3. /\ \A r \in rows : r.id => r \in rows'
        /\ \A s \in rows' : \E r \in rows : r.msg = s.msg
    BY <1>4, <2>1, <2>2, AckGood
  <2> QED BY <1>3, <1>4, <2>3 DEF HandleAck, historyVars
<1>5. CASE e.kind = "failed" /\ HandleFailed(m)
  <2>1. newest' = newest /\ raced' = raced
    BY <1>5 DEF HandleFailed
  <2>2. CASE rows' = {r \in rows : r.msg # m \/ r.id} /\ missing' = missing
    BY <1>3, <2>1, <2>2
  <2>3. CASE rows' = {r \in rows : r.msg # m} /\ missing' = IF raced THEN missing ELSE missing \cup {m}
    <3> HIDE DEF m
    <3> SUFFICES ASSUME ~ raced, loaded, NEW x \in Msg \ missing'
                 PROVE  /\ newest[x] = 1 => ServerRow(log, x) \in rows'
                        /\ newest[x] = 2 => \A r \in rows' : r.msg # x
      BY <1>1, <2>1 DEF ShownInv
    <3>1. x # m /\ x \in Msg \ missing
      BY <2>3
    <3>2. ServerRow(log, x).msg = x
      BY DEF ServerRow
    <3>3. /\ newest[x] = 1 => ServerRow(log, x) \in rows
          /\ newest[x] = 2 => \A r \in rows : r.msg # x
      BY <3>1 DEF ShownInv
    <3> QED BY <2>3, <3>1, <3>2, <3>3
  <2> QED BY <1>5, <2>2, <2>3 DEF HandleFailed
<1> QED BY <1>1, <1>2, <1>4, <1>5

\* A list of the server that is written holds what was there, but for what it lacks.
LEMMA ShownOverwrites ==
  ASSUME ChatInv, log' = log, NEW rs, NEW n, FromServer(rs, n), NEW same \in BOOLEAN,
         Overwrites(rs, n, same), rows' = rs
  PROVE  ShownInv'
<1> DEFINE l == SubSeq(log, 1, n)
<1>1. /\ n \in 0..Len(log) /\ rs \subseteq ServerRows(l) /\ LogInv(log)
      /\ Len(log) \in Nat /\ Len(log) <= MaxLog
  BY LogOf DEF FromServer
<1>2. ~ raced' => /\ \A m \in Msg : newest'[m] = State(l, m)
                  /\ \A m \in Msg \ missing' : State(l, m) = 1 => ServerRow(l, m) \in rs
  BY OverwritesIs DEF ChatInv, TypeOK
<1>3. LogInv(l) /\ Grows(l, log) /\ Len(l) <= MaxLog
  BY <1>1, LogPrefix, BoundAssumption
<1> HIDE DEF l
<1> SUFFICES ASSUME ~ raced', NEW m \in Msg \ missing'
             PROVE  /\ newest'[m] = 1 => ServerRow(log, m) \in rs
                    /\ newest'[m] = 2 => \A r \in rs : r.msg # m
  BY DEF ShownInv
<1>4. ASSUME newest'[m] = 1 PROVE ServerRow(log, m) \in rs
  <2>1. State(l, m) = 1 /\ ServerRow(l, m) \in rs
    BY <1>2, <1>4
  <2>2. Exists(l, m)
    BY <1>3, <2>1, StateIs
  <2> QED BY <1>1, <1>3, <2>1, <2>2, GrowsKeeps
<1>5. ASSUME newest'[m] = 2, NEW r \in rs PROVE r.msg # m
  <2>1. State(l, r.msg) = 1
    BY <1>1, <1>3, <1>5, ServerRowsAre
  <2> QED BY <1>2, <1>5, <2>1
<1> QED BY <1>4, <1>5

LEMMA ShownLists == ASSUME ChatInv, ShownInv, OlderApplies \/ SyncEnds PROVE ShownInv'
<1>1. CASE OlderApplies
  <2>1. /\ log' = log /\ rows' = older.rows /\ Overwrites(older.rows, older.asof, TRUE)
        /\ FromServer(older.rows, older.asof)
    BY <1>1 DEF OlderApplies, ChatInv, ListsInv
  <2> QED BY <2>1, ShownOverwrites
<1>2. CASE SyncEnds
  <2>1. log' = log /\ rows' = sync.rows /\ loaded' = sync.loaded
    BY <1>2, SyncEndsIs
  <2>2. CASE /\ sync.at = "latest" /\ UNCHANGED <<newest, missing>>
             /\ raced' = (raced \/ sync.rows # rows \/ sync.unread # unread)
    <3>1. ~ raced' => ~ raced /\ rows' = rows
      BY <2>1, <2>2
    <3>2. sync.loaded => loaded
      BY <2>2 DEF ChatInv, SyncInv
    <3> QED BY <2>1, <2>2, <3>1, <3>2, ShownSame
  <2>3. CASE /\ FromServer(sync.rows, sync.asof)
             /\ \E same \in BOOLEAN : Overwrites(sync.rows, sync.asof, same)
    BY <2>1, <2>3, ShownOverwrites
  <2> QED BY <1>2, <2>2, <2>3, SyncEndsIs
<1> QED BY <1>1, <1>2

LEMMA ShownFeed == ASSUME ChatInv, ShownInv, FeedApplies PROVE ShownInv'
<1> DEFINE items == feed.items
<1>1. /\ UNCHANGED <<log, loaded>> /\ Len(items) \in Nat
      /\ \A i \in 1..Len(items) : GoodItem(items[i], log)
      /\ rows' = Pass(rows, items)[Len(items)]
  BY FeedAppliesIs
<1> SUFFICES ASSUME ~ raced', loaded, NEW m \in Msg \ missing'
             PROVE  /\ newest'[m] = 1 => ServerRow(log, m) \in rows'
                    /\ newest'[m] = 2 => \A r \in rows' : r.msg # m
  BY <1>1 DEF ShownInv
<1>2. /\ ~ raced
      /\ \A i \in 1..Len(items) : newest'[items[i].row.msg] = ItemState(items[i])
      /\ (\A i \in 1..Len(items) : items[i].row.msg # m) => newest'[m] = newest[m] /\ m \notin missing
      /\ \A i, j \in 1..Len(items) : items[i].row.msg = items[j].row.msg => items[i] = items[j]
      /\ \A i \in 1..Len(items) : items[i].row.msg = m => i \notin LeftOut
  BY FeedHistory
<1>3. \A i \in 1..Len(items) : items[i].row.msg = m => InScope(Pass(rows, items)[i - 1], items[i])
  BY <1>2 DEF LeftOut
<1> HIDE DEF items
<1>4. \A i \in 1..Len(items) :
        items[i].deleted \in BOOLEAN /\ items[i].row = ServerRow(log, items[i].row.msg)
  BY <1>1, ItemIs DEF ChatInv, GoodItem
<1>5. /\ (\A i \in 1..Len(items) : items[i].row.msg # m) =>
            \A r : r.msg = m => (r \in rows' <=> r \in rows)
      /\ \A item :
           /\ \E i \in 1..Len(items) : items[i].row.msg = m
           /\ \A i \in 1..Len(items) : items[i].row.msg = m => items[i] = item
           => IF item.deleted THEN \A r \in rows' : r.msg # m ELSE item.row \in rows'
  BY <1>1, <1>3, <1>4, PassAll, ZenonT(40)
<1>6. CASE \E i \in 1..Len(items) : items[i].row.msg = m
  <2>1. PICK i \in 1..Len(items) : items[i].row.msg = m
    BY <1>6
  <2>2. \A j \in 1..Len(items) : items[j].row.msg = m => items[j] = items[i]
    BY <1>2, <2>1
  <2>3. IF items[i].deleted THEN \A r \in rows' : r.msg # m ELSE items[i].row \in rows'
    BY <1>5, <1>6, <2>2
  <2>4. newest'[m] = (IF items[i].deleted THEN 2 ELSE 1) /\ items[i].row = ServerRow(log, m)
    BY <1>2, <1>4, <2>1 DEF ItemState
  <2> QED BY <2>3, <2>4
<1>7. CASE \A i \in 1..Len(items) : items[i].row.msg # m
  <2>1. newest'[m] = newest[m] /\ m \notin missing /\ \A r : r.msg = m => (r \in rows' <=> r \in rows)
    BY <1>2, <1>5, <1>7
  <2>2. /\ newest[m] = 1 => ServerRow(log, m) \in rows
        /\ newest[m] = 2 => \A r \in rows : r.msg # m
    BY <1>2, <2>1 DEF ShownInv
  <2>3. ServerRow(log, m).msg = m
    BY DEF ServerRow
  <2> QED BY <2>1, <2>2, <2>3
<1> QED BY <1>6, <1>7

LEMMA ShownStep == ASSUME ChatInv, ReplayInv, ShownInv, [Next]_vars PROVE ShownInv'
BY ShownQuiet, ShownSend, ShownServer, ShownHandle, ShownLists, ShownFeed DEF Next

\* When nothing is on its way and a recovery has come to its end, everything has been
\* written, and what has been written is what there is.
LEMMA QuietInStep ==
  ASSUME ChatInv, ReplayInv, ShownInv PROVE Converged
<1> SUFFICES ASSUME up, inbox = <<>>, loaded, fresh, ~ raced, NEW m \in Msg \ missing PROVE InStep(m)
  BY DEF Converged, Quiet
<1>1. /\ LogInv(log) /\ Len(log) \in Nat /\ Len(log) <= MaxLog /\ DOMAIN log = 1..Len(log)
      /\ newest \in [Msg -> 0..2] /\ \A i \in 1..Len(log) : log[i].msg \in Msg
  BY LogOf
<1>2. \A i \in 1..Len(log) : Seen(i)
  <2>1. \A i : ~ Coming(i)
    BY DEF Coming
  <2> QED BY <2>1 DEF ReplayInv
<1>3. ASSUME State(log, m) # 0 PROVE newest[m] = State(log, m)
  <2>1. newest[m] <= State(log, m) /\ newest[m] \in 0..2 /\ State(log, m) \in {1, 2}
    BY <1>1, <1>3, StateIs DEF ReplayInv
  <2>2. CASE State(log, m) = 1
    <3>1. Exists(log, m)
      BY <1>1, <2>2, StateIs
    <3>2. PICK i \in 1..Len(log) : log[i] = Create(m)
      BY <1>1, <3>1, CreatedAt
    <3>3. newest[m] >= 1
      BY <1>2, <3>2 DEF Seen, Reach, Create
    <3> QED BY <2>1, <2>2, <3>3
  <2>3. CASE State(log, m) = 2
    <3>1. Deleted(log, m)
      BY <1>1, <2>3, StateIs
    <3>2. PICK i \in 1..Len(log) : log[i] = [msg |-> m, kind |-> "delete"]
      BY <1>1, <3>1 DEF Deleted
    <3>3. newest[m] >= 2
      BY <1>2, <3>2 DEF Seen, Reach
    <3> QED BY <2>1, <2>3, <3>3
  <2> QED BY <2>1, <2>2, <2>3
<1>4. rows \subseteq Row /\ GoodRows(rows)
  BY DEF ChatInv, TypeOK, RowsInv
<1>5. ASSUME NEW r \in rows, r.msg = m, r.id PROVE r \in ServerRows(log)
  <2>1. Exists(log, m)
    BY <1>4, <1>5 DEF GoodRows
  <2>2. State(log, m) \in {1, 2}
    BY <1>1, <2>1, StateIs
  <2>3. newest[m] # 2
    BY <1>5 DEF ShownInv
  <2>4. State(log, m) = 1 /\ newest[m] = 1
    BY <1>3, <2>2, <2>3
  <2>5. ServerRow(log, m) \in rows /\ ServerRow(log, m).msg = m
    BY <2>4 DEF ShownInv, ServerRow
  <2>6. r = ServerRow(log, m)
    BY <1>4, <1>5, <2>5 DEF GoodRows
  <2> QED BY <1>1, <2>4, <2>6, ServerRowsAre
<1>6. ASSUME NEW r \in ServerRows(log), r.msg = m PROVE r \in rows /\ r.id
  <2>1. r.id /\ r = ServerRow(log, m) /\ State(log, m) = 1
    BY <1>1, <1>6, ServerRowsAre
  <2>2. newest[m] = 1
    BY <1>3, <2>1
  <2> QED BY <2>1, <2>2 DEF ShownInv
<1> QED BY <1>5, <1>6 DEF InStep

\* Once history is loaded and a recovery begun after the last connection has come to
\* the end of the feed with nothing on its way, the rows the server knows of a message
\* are those it has, whatever was lost with connections, refused, published twice or
\* overtaken, and whatever part of the conversation the last page held.  That is, but
\* for a message that page lacked, the feed left out or a late message_failed took back,
\* until it comes again; and unless something older was written over something newer.
THEOREM Recovered == Spec => []Converged
<1>1. Init => ReplayInv /\ ShownInv
  <2> SUFFICES ASSUME Init PROVE ReplayInv /\ ShownInv
    OBVIOUS
  <2>1. ~ up /\ ~ loaded /\ cursor = 0 /\ \A m \in Msg : newest[m] = 0
    BY DEF Init
  <2>2. \A m \in Msg : newest[m] <= State(log, m)
    BY <2>1 DEF State
  <2> QED BY <2>1, <2>2 DEF ReplayInv, ShownInv
<1>2. Spec => [](ChatInv /\ ReplayInv /\ ShownInv)
  BY <1>1, ChatInit, ChatStep, ReplayStep, ShownStep, PTL DEF Spec
<1>3. ChatInv /\ ReplayInv /\ ShownInv => Converged
  BY QuietInStep
<1> QED BY <1>2, <1>3, PTL

=============================================================================
