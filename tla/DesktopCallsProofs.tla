-------------------------- MODULE DesktopCallsProofs --------------------------
(***************************************************************************)
(* What holds of DesktopCalls for any calls, streams, candidates, timers   *)
(* and prompts: types, no offer before the other side has accepted, no     *)
(* candidate left waiting beside a description that is set, no caller left *)
(* without an answer, and no media that outlive their call.                *)
(***************************************************************************)
EXTENDS DesktopCalls, TLAPS

\* A call the other side has accepted, once and for all.
Answered == {"accepted", "over"}
Over == {"over", "missed"}
Server == [Call -> {"new", "ringing", "accepted", "over", "missed"}]

\* A connection that is to make an offer belongs to a placed call that was accepted.
GoodPeer(p, s) ==
  /\ p \in Connection
  /\ p.remote => p.queued = 0
  /\ "offer" \in p.doing => p.call \in Placed /\ s[p.call] \in Answered

PeersInv(ps, s) ==
  /\ ps \in Seq(Connection)
  /\ \A n \in 1..Len(ps) : GoodPeer(ps[n], s)

\* An event says what has happened at the server.
GoodEvent(e, s) ==
  /\ e \in Event
  /\ e.kind = "incoming" => e.call \in Received /\ s[e.call] # "new"
  /\ e.kind = "over" => s[e.call] \in Over
  /\ e.kind = "accepted" => e.call \in Placed /\ s[e.call] \in Answered

InboxInv(q, s) ==
  /\ q \in Seq(Event)
  /\ \A i \in 1..Len(q) : GoodEvent(q[i], s)

\* The call of the store.
StoreInv ==
  /\ call \in Call \cup {NoCall}
  /\ phase \in Phase
  /\ (call = NoCall) <=> (phase = "idle")
  /\ phase = "ringing-in" => call \in Received
  /\ tone \in {"none", "incoming", "outgoing"}
  /\ timers \in Seq(Call)

\* A call is placed once: until its one prompt is answered the server knows
\* nothing of it.
PlacedOnce(m, s, k) ==
  \A c \in Placed :
    /\ m[c] \in {0, 1}
    /\ m[c] = 1 => s[c] = "new" /\ c \in k
    /\ c \notin k => m[c] = 0 /\ s[c] = "new"

MediaInv ==
  /\ stream \in Stream \cup {0}
  /\ live \subseteq Stream
  /\ media \in [Call -> Nat]

OfferInv == offered \subseteq Placed /\ \A c \in offered : srv[c] \in Answered

CallInv ==
  /\ StoreInv
  /\ MediaInv
  /\ PlacedOnce(media, srv, known)
  /\ PeersInv(peers, srv)
  /\ peer \in 0..Len(peers)
  /\ InboxInv(inbox, srv)
  /\ srv \in Server
  /\ signals \in [Call -> Signalled]
  /\ OfferInv
  /\ known \subseteq Call
  /\ lost \in BOOLEAN
  /\ raced \in BOOLEAN

-----------------------------------------------------------------------------
(* The server only goes forward. *)

Onward(a, b) ==
  /\ a \in Answered => b \in Answered
  /\ a \in Over => b \in Over
  /\ a # "new" => b # "new"

Forward(s, t) == t \in Server /\ \A c \in Call : Onward(s[c], t[c])

LEMMA GoodPeerForward ==
  ASSUME NEW p, NEW s \in Server, NEW t, Forward(s, t), GoodPeer(p, s) PROVE GoodPeer(p, t)
<1>1. p.call \in Call
  BY DEF GoodPeer, Connection
<1>2. Onward(s[p.call], t[p.call])
  BY <1>1 DEF Forward
<1>3. s[p.call] \in Answered => t[p.call] \in Answered
  BY <1>2 DEF Onward
<1> QED BY <1>3 DEF GoodPeer

LEMMA PeersForward ==
  ASSUME NEW ps, NEW s \in Server, NEW t, Forward(s, t), PeersInv(ps, s) PROVE PeersInv(ps, t)
BY GoodPeerForward DEF PeersInv

LEMMA InboxForward ==
  ASSUME NEW q, NEW s \in Server, NEW t, Forward(s, t), InboxInv(q, s) PROVE InboxInv(q, t)
<1>1. ASSUME NEW i \in 1..Len(q) PROVE GoodEvent(q[i], t)
  <2>1. GoodEvent(q[i], s)
    BY DEF InboxInv
  <2>2. q[i].call \in Call
    BY <2>1 DEF GoodEvent, Event
  <2>3. Onward(s[q[i].call], t[q[i].call])
    BY <2>2 DEF Forward
  <2> QED BY <2>1, <2>3 DEF GoodEvent, Onward
<1> QED BY <1>1 DEF InboxInv

LEMMA OfferForward ==
  ASSUME srv \in Server, OfferInv, Forward(srv, srv'), offered' = offered PROVE OfferInv'
<1>1. \A c \in offered : c \in Call
  BY DEF OfferInv, Call
<1>2. \A c \in offered : Onward(srv[c], srv'[c])
  BY <1>1 DEF Forward
<1> QED BY <1>2 DEF OfferInv, Onward

-----------------------------------------------------------------------------
(* Connections. *)

LEMMA CreatedGood ==
  ASSUME NEW c \in Call, NEW m \in Stream \cup {0}, NEW s
  PROVE  GoodPeer(createPeer(c, m), s)
BY DEF GoodPeer, createPeer, Connection, Step

LEMMA ClosedGood ==
  ASSUME NEW p, NEW s, GoodPeer(p, s) PROVE GoodPeer(Closed(p), s)
BY DEF GoodPeer, Closed, createPeer, Connection, Step

LEMMA ReplaceGood ==
  ASSUME NEW ps, NEW s, NEW n \in 1..Len(ps), NEW p, PeersInv(ps, s), GoodPeer(p, s)
  PROVE  PeersInv([ps EXCEPT ![n] = p], s) /\ Len([ps EXCEPT ![n] = p]) = Len(ps)
<1>1. p \in Connection
  BY DEF GoodPeer
<1>2. [ps EXCEPT ![n] = p] \in Seq(Connection) /\ Len([ps EXCEPT ![n] = p]) = Len(ps)
  BY <1>1 DEF PeersInv
<1>3. \A i \in 1..Len(ps) : [ps EXCEPT ![n] = p][i] = IF i = n THEN p ELSE ps[i]
  BY DEF PeersInv
<1> QED BY <1>2, <1>3 DEF PeersInv

LEMMA WithGoodAt ==
  ASSUME NEW s, NEW p, PeersInv(peers, s), GoodPeer(p, s), NEW n \in 1..Len(peers) + 1
  PROVE  PeersInv(With(n, p), s) /\ n \in 1..Len(With(n, p))
<1>1. Len(peers) \in Nat /\ p \in Connection
  BY DEF PeersInv, GoodPeer
<1>2. CASE n > Len(peers)
  <2>1. n = Len(peers) + 1 /\ With(n, p) = Append(peers, p)
    BY <1>1, <1>2 DEF With
  <2>2. Append(peers, p) \in Seq(Connection) /\ Len(Append(peers, p)) = Len(peers) + 1
    BY <1>1 DEF PeersInv
  <2>3. \A i \in 1..Len(peers) + 1 : Append(peers, p)[i] = IF i = Len(peers) + 1 THEN p ELSE peers[i]
    BY <1>1 DEF PeersInv
  <2> QED BY <2>1, <2>2, <2>3 DEF PeersInv
<1>3. CASE ~ n > Len(peers)
  <2>1. n \in 1..Len(peers) /\ With(n, p) = [peers EXCEPT ![n] = p]
    BY <1>1, <1>3 DEF With
  <2>2. n \in 1..Len(peers)
    BY <2>1
  <2>3. PeersInv([peers EXCEPT ![n] = p], s) /\ Len([peers EXCEPT ![n] = p]) = Len(peers)
    BY <2>2, ReplaceGood
  <2> QED BY <2>1, <2>3
<1> QED BY <1>2, <1>3

\* There is a place for one connection more.
LEMMA PlaceGood == ASSUME Len(peers) \in Nat PROVE Place \in 1..Len(peers) + 1 /\ Idle(Place)
<1>1. \E n \in 1..Len(peers) + 1 : Idle(n)
  BY DEF Idle
<1> QED BY <1>1 DEF Place

LEMMA WithGood ==
  ASSUME NEW s, NEW p, PeersInv(peers, s), GoodPeer(p, s)
  PROVE  PeersInv(With(Place, p), s) /\ Place \in 1..Len(With(Place, p))
<1>1. Place \in 1..Len(peers) + 1
  BY PlaceGood DEF PeersInv
<1> QED BY <1>1, WithGoodAt

-----------------------------------------------------------------------------
(* Events. *)

LEMMA TailGood ==
  ASSUME NEW s, InboxInv(inbox, s), inbox # <<>>
  PROVE  InboxInv(Tail(inbox), s) /\ GoodEvent(Head(inbox), s)
<1>1. inbox \in Seq(Event) /\ Len(inbox) \in Nat /\ Len(inbox) # 0
  BY DEF InboxInv
<1>2. Tail(inbox) \in Seq(Event) /\ Len(Tail(inbox)) = Len(inbox) - 1
  BY <1>1
<1>3. \A i \in 1..Len(Tail(inbox)) : Tail(inbox)[i] = inbox[i + 1] /\ i + 1 \in 1..Len(inbox)
  BY <1>1, <1>2
<1>4. Head(inbox) = inbox[1] /\ 1 \in 1..Len(inbox)
  BY <1>1
<1> QED BY <1>2, <1>3, <1>4 DEF InboxInv

LEMMA AppendGood ==
  ASSUME NEW q, NEW s, InboxInv(q, s), NEW e, GoodEvent(e, s)
  PROVE  InboxInv(Append(q, e), s)
<1>1. q \in Seq(Event) /\ Len(q) \in Nat /\ e \in Event
  BY DEF InboxInv, GoodEvent
<1>2. Append(q, e) \in Seq(Event) /\ Len(Append(q, e)) = Len(q) + 1
  BY <1>1
<1>3. \A i \in 1..Len(q) + 1 : Append(q, e)[i] = IF i = Len(q) + 1 THEN e ELSE q[i]
  BY <1>1
<1> QED BY <1>2, <1>3 DEF InboxInv

-----------------------------------------------------------------------------
(* Ends of calls. *)

\* The server ends a call: it forgets no acceptance, and tells of the end alone.
LEMMA ServerEndsKeeps ==
  ASSUME srv \in Server, signals \in [Call -> Signalled], lost \in BOOLEAN,
         NEW c \in Call, NEW q, InboxInv(q, srv), ServerEnds(c, q)
  PROVE  /\ Forward(srv, srv')
         /\ \A d \in Call : srv[d] = "new" => srv'[d] = "new"
         /\ InboxInv(inbox', srv')
         /\ signals' \in [Call -> Signalled]
         /\ lost' \in BOOLEAN
<1>1. srv' = [srv EXCEPT ![c] = Ended(@)]
  BY DEF ServerEnds
<1>2. Forward(srv, srv') /\ \A d \in Call : srv[d] = "new" => srv'[d] = "new"
  BY <1>1 DEF Forward, Onward, Server, Ended, Answered, Over
<1>3. InboxInv(q, srv')
  BY <1>2, InboxForward
<1>4. ASSUME Going(c) PROVE GoodEvent(Msg("over", c), srv')
  <2>1. srv'[c] \in Over
    BY <1>1, <1>4 DEF Going, Ended, Over, Server
  <2> QED BY <2>1 DEF GoodEvent, Msg, Event
<1>5. InboxInv(inbox', srv')
  BY <1>3, <1>4, AppendGood DEF ServerEnds
<1> QED BY <1>2, <1>5 DEF ServerEnds

\* teardown leaves good connections, and none of them is the current one.
LEMMA TeardownKeeps ==
  ASSUME NEW ps, NEW s, PeersInv(ps, s), peer \in 0..Len(ps), live \subseteq Stream, teardown(ps)
  PROVE  /\ PeersInv(peers', s) /\ peer' \in 0..Len(peers')
         /\ tone' = "none"
         /\ stream' \in Stream \cup {0} /\ live' \subseteq Stream
<1>1. PeersInv(peers', s)
  <2>1. CASE peer = 0
    BY <2>1 DEF teardown
  <2>2. CASE peer # 0
    <3>1. peer \in 1..Len(ps) /\ peers' = [ps EXCEPT ![peer] = Closed(ps[peer])]
      BY <2>2 DEF teardown, PeersInv
    <3>2. GoodPeer(Closed(ps[peer]), s)
      BY <3>1, ClosedGood DEF PeersInv
    <3> QED BY <3>1, <3>2, ReplaceGood
  <2> QED BY <2>1, <2>2
<1>2. peer' \in 0..Len(peers')
  BY <1>1 DEF teardown, PeersInv
<1> QED BY <1>1, <1>2 DEF teardown

\* What the user and the server know of the placed calls is not disturbed.
LEMMA PlacedKeeps ==
  ASSUME NEW m, NEW s, NEW t, NEW k, PlacedOnce(m, s, k),
         \A c \in Call : s[c] = "new" => t[c] = "new"
  PROVE  PlacedOnce(m, t, k)
BY DEF PlacedOnce, Call

\* The invariant but for what the ends of calls leave alone.
LEMMA HangUpKeeps ==
  ASSUME CallInv, NEW ps, PeersInv(ps, srv), Len(ps) = Len(peers), NEW q, InboxInv(q, srv),
         hangUp(ps, q), offered' = offered, known' = known, raced' \in BOOLEAN
  PROVE  CallInv'
<1>1. peer \in 0..Len(ps)
  BY DEF CallInv
<1>2. CASE call = NoCall
  <2>1. UNCHANGED <<call, phase, tone, timers, stream, live, media, peer, srv, signals, lost>>
        /\ peers' = ps /\ inbox' = q
    BY <1>2 DEF hangUp, mediaVars, serverVars
  <2>2. StoreInv' /\ MediaInv' /\ OfferInv'
    BY <2>1 DEF CallInv, StoreInv, MediaInv, OfferInv
  <2> QED BY <1>1, <2>1, <2>2 DEF CallInv
<1>3. CASE call # NoCall
  <2>1. teardown(ps) /\ EndCall /\ ServerEnds(call, q)
    BY <1>3 DEF hangUp
  <2>2. call \in Call
    BY <1>3 DEF CallInv, StoreInv
  <2>3. /\ Forward(srv, srv')
        /\ \A d \in Call : srv[d] = "new" => srv'[d] = "new"
        /\ InboxInv(inbox', srv')
        /\ signals' \in [Call -> Signalled]
        /\ lost' \in BOOLEAN
    BY <2>1, <2>2, ServerEndsKeeps DEF CallInv
  <2>4. /\ PeersInv(peers', srv) /\ peer' \in 0..Len(peers')
        /\ tone' = "none"
        /\ stream' \in Stream \cup {0} /\ live' \subseteq Stream
    BY <1>1, <2>1, TeardownKeeps DEF CallInv, MediaInv
  <2>5. PeersInv(peers', srv')
    BY <2>3, <2>4, PeersForward DEF CallInv
  <2>6. StoreInv'
    BY <2>1, <2>2, <2>4, <1>3 DEF EndCall, CallInv, StoreInv, Phase
  <2>7. MediaInv' /\ media' = media
    BY <2>1, <2>4 DEF EndCall, CallInv, MediaInv
  <2>8. PlacedOnce(media', srv', known')
    BY <2>3, <2>7, PlacedKeeps DEF CallInv
  <2>9. OfferInv'
    BY <2>3, OfferForward DEF CallInv
  <2> QED BY <2>3, <2>4, <2>5, <2>6, <2>7, <2>8, <2>9 DEF CallInv, Forward
<1> QED BY <1>2, <1>3

\* reject, of whatever call is there, with one prompt fewer.
LEMMA RejectKeeps ==
  ASSUME CallInv, reject, timers' = timers, media' \in [Call -> Nat],
         PlacedOnce(media', srv, known),
         offered' = offered, known' = known, raced' \in BOOLEAN
  PROVE  CallInv'
<1>1. CASE call = NoCall
  <2>1. UNCHANGED <<call, phase, tone, stream, live, peers, peer, inbox, srv, signals, lost>>
    BY <1>1 DEF reject, peerVars, serverVars
  <2>2. StoreInv' /\ MediaInv' /\ OfferInv'
    BY <2>1 DEF CallInv, StoreInv, MediaInv, OfferInv
  <2> QED BY <2>1, <2>2 DEF CallInv
<1>2. CASE call # NoCall
  <2>1. ServerEnds(call, inbox) /\ teardown(peers) /\ call' = NoCall /\ phase' = "idle"
    BY <1>2 DEF reject
  <2>2. call \in Call
    BY <1>2 DEF CallInv, StoreInv
  <2>3. /\ Forward(srv, srv')
        /\ \A d \in Call : srv[d] = "new" => srv'[d] = "new"
        /\ InboxInv(inbox', srv')
        /\ signals' \in [Call -> Signalled]
        /\ lost' \in BOOLEAN
    BY <2>1, <2>2, ServerEndsKeeps DEF CallInv
  <2>4. /\ PeersInv(peers', srv) /\ peer' \in 0..Len(peers')
        /\ tone' = "none"
        /\ stream' \in Stream \cup {0} /\ live' \subseteq Stream
    BY <2>1, TeardownKeeps DEF CallInv, MediaInv
  <2>5. PeersInv(peers', srv')
    BY <2>3, <2>4, PeersForward DEF CallInv
  <2>6. StoreInv' /\ MediaInv'
    BY <2>1, <2>4 DEF CallInv, StoreInv, MediaInv, Phase
  <2>7. PlacedOnce(media', srv', known')
    BY <2>3, PlacedKeeps
  <2>8. OfferInv'
    BY <2>3, OfferForward DEF CallInv
  <2> QED BY <2>3, <2>4, <2>5, <2>6, <2>7, <2>8 DEF CallInv, Forward
<1> QED BY <1>1, <1>2

-----------------------------------------------------------------------------
(* The user, and the prompts. *)

LEMMA CallInit == Init => CallInv
<1> SUFFICES ASSUME Init PROVE CallInv
  OBVIOUS
<1>1. StoreInv /\ MediaInv /\ OfferInv /\ PlacedOnce(media, srv, known)
  BY DEF Init, StoreInv, MediaInv, OfferInv, PlacedOnce, Phase, Call
<1>2. PeersInv(peers, srv) /\ InboxInv(inbox, srv) /\ peer \in 0..Len(peers)
  BY DEF Init, PeersInv, InboxInv
<1>3. signals \in [Call -> Signalled]
  BY BoundAssumption DEF Init, Signalled
<1> QED BY <1>1, <1>2, <1>3 DEF Init, CallInv, Server

LEMMA StartKeeps == ASSUME CallInv, NEW c \in Call, Start(c) PROVE CallInv'
<1>1. UNCHANGED <<tone, stream, live, peers, peer, timers, inbox, srv, signals, lost, offered, raced>>
  BY DEF Start, peerVars, serverVars
<1>2. StoreInv'
  BY <1>1, CallAssumption DEF Start, CallInv, StoreInv, Phase
<1>3. MediaInv' /\ OfferInv'
  BY <1>1 DEF Start, CallInv, MediaInv, OfferInv
<1>4. PlacedOnce(media', srv', known')
  BY <1>1 DEF Start, CallInv, MediaInv, PlacedOnce
<1> QED BY <1>1, <1>2, <1>3, <1>4 DEF CallInv, Start

LEMMA AcceptKeeps == ASSUME CallInv, Accept PROVE CallInv'
<1>1. UNCHANGED <<call, phase, stream, live, peers, peer, timers, inbox, srv, signals, lost,
                  offered, known, raced>>
  BY DEF Accept, peerVars, serverVars
<1>2. call \in Received
  BY DEF Accept, CallInv, StoreInv
<1>3. StoreInv' /\ MediaInv' /\ OfferInv'
  BY <1>1 DEF Accept, CallInv, StoreInv, MediaInv, OfferInv
<1>4. PlacedOnce(media', srv', known')
  BY <1>1, <1>2, CallAssumption DEF Accept, CallInv, PlacedOnce
<1> QED BY <1>1, <1>3, <1>4 DEF CallInv

LEMMA OpenMediaStream ==
  ASSUME CallInv, NEW c \in Call, OpenMedia(c)
  PROVE  /\ NewStream \in Stream
         /\ MediaInv'
         /\ media[c] > 0 /\ media' = [media EXCEPT ![c] = @ - 1]
         /\ raced' \in BOOLEAN
<1>1. NewStream \in Stream
  BY DEF OpenMedia, NewStream, Unused
<1>2. MediaInv'
  BY <1>1 DEF OpenMedia, CallInv, MediaInv
<1> QED BY <1>1, <1>2 DEF OpenMedia

\* The server is told of a placed call once, and has not heard of it before.
LEMMA InviteKeeps ==
  ASSUME CallInv, NEW c \in Call, NEW reached \in BOOLEAN, Invite(c, reached) PROVE CallInv'
<1>1. UNCHANGED <<call, phase, peers, peer, timers, signals, lost, offered, known>>
  BY DEF Invite, peerVars
<1>2. /\ MediaInv'
      /\ media[c] > 0 /\ media' = [media EXCEPT ![c] = @ - 1]
      /\ raced' \in BOOLEAN
  BY OpenMediaStream DEF Invite
<1>3. media[c] = 1 /\ srv[c] = "new" /\ c \in known /\ c \in Placed
  BY <1>2 DEF Invite, CallInv, PlacedOnce
<1>4. Forward(srv, srv')
  BY <1>3 DEF Invite, Forward, Onward, CallInv, Server, Answered, Over
<1>5. PlacedOnce(media', srv', known')
  BY <1>1, <1>2, <1>3 DEF Invite, CallInv, PlacedOnce, Server, MediaInv, Call
<1>6. StoreInv'
  BY <1>1 DEF Invite, CallInv, StoreInv
<1>7. InboxInv(inbox', srv')
  <2>1. InboxInv(inbox, srv')
    BY <1>4, InboxForward DEF CallInv
  <2>2. GoodEvent(Msg("offline", c), srv')
    BY DEF GoodEvent, Msg, Event
  <2> QED BY <2>1, <2>2, AppendGood DEF Invite
<1>8. PeersInv(peers', srv') /\ OfferInv'
  BY <1>1, <1>4, PeersForward, OfferForward DEF CallInv
<1> QED BY <1>1, <1>2, <1>4, <1>5, <1>6, <1>7, <1>8 DEF CallInv, Forward

LEMMA StartDeniedKeeps == ASSUME CallInv, NEW c \in Call, StartDenied(c) PROVE CallInv'
<1>1. UNCHANGED <<tone, stream, live, peers, peer, timers, inbox, srv, signals, lost, offered, known>>
  BY DEF StartDenied, peerVars, serverVars
<1>2. StoreInv'
  BY <1>1 DEF StartDenied, CallInv, StoreInv, Phase
<1>3. MediaInv' /\ OfferInv'
  BY <1>1 DEF StartDenied, CallInv, MediaInv, OfferInv
<1>4. PlacedOnce(media', srv', known')
  BY <1>1 DEF StartDenied, CallInv, MediaInv, PlacedOnce, Call
<1> QED BY <1>1, <1>2, <1>3, <1>4 DEF CallInv, StartDenied

LEMMA AcceptGrantedKeeps == ASSUME CallInv, NEW c \in Call, AcceptGranted(c) PROVE CallInv'
<1>1. UNCHANGED <<call, tone, timers, inbox, signals, lost, offered, known>>
  BY DEF AcceptGranted
<1>2. /\ NewStream \in Stream
      /\ MediaInv'
      /\ media[c] > 0 /\ media' = [media EXCEPT ![c] = @ - 1]
      /\ raced' \in BOOLEAN
  BY OpenMediaStream DEF AcceptGranted
<1>3. c \in Received /\ Forward(srv, srv')
  BY DEF AcceptGranted, Forward, Onward, CallInv, Server, Answered, Over
<1>4. PlacedOnce(media', srv', known')
  BY <1>1, <1>2, <1>3, CallAssumption DEF AcceptGranted, CallInv, PlacedOnce
<1>5. PeersInv(peers', srv') /\ peer' \in 0..Len(peers')
  <2>1. GoodPeer(createPeer(c, NewStream), srv)
    BY <1>2, CreatedGood
  <2>2. PeersInv(peers', srv) /\ peer' \in 1..Len(peers')
    BY <2>1, WithGood DEF AcceptGranted, CallInv
  <2> QED BY <1>3, <2>2, PeersForward DEF CallInv, PeersInv
<1>6. StoreInv'
  BY <1>1 DEF AcceptGranted, CallInv, StoreInv, Phase
<1>7. InboxInv(inbox', srv') /\ OfferInv'
  BY <1>1, <1>3, InboxForward, OfferForward DEF CallInv
<1> QED BY <1>1, <1>2, <1>3, <1>4, <1>5, <1>6, <1>7 DEF CallInv, Forward

LEMMA DeclineKeeps == ASSUME CallInv, Decline PROVE CallInv'
<1>1. reject /\ UNCHANGED <<media, timers, offered, known, raced>>
  BY DEF Decline
<1> QED BY <1>1, RejectKeeps DEF CallInv, MediaInv

LEMMA AcceptDeniedKeeps == ASSUME CallInv, NEW c \in Call, AcceptDenied(c) PROVE CallInv'
<1>1. reject /\ UNCHANGED <<timers, offered, known>> /\ raced' \in BOOLEAN
  BY DEF AcceptDenied, CallInv
<1>2. media' \in [Call -> Nat] /\ PlacedOnce(media', srv, known)
  BY CallAssumption DEF AcceptDenied, CallInv, MediaInv, PlacedOnce
<1> QED BY <1>1, <1>2, RejectKeeps

LEMMA HangUpActionKeeps == ASSUME CallInv, HangUp PROVE CallInv'
BY HangUpKeeps DEF HangUp, CallInv

LEMMA ClearTimerKeeps == ASSUME CallInv, ClearTimer PROVE CallInv'
<1>1. UNCHANGED <<tone, stream, live, media, peers, peer, inbox, srv, signals, lost, offered, known>>
  BY DEF ClearTimer, mediaVars, peerVars, serverVars
<1>2. StoreInv'
  BY <1>1 DEF ClearTimer, CallInv, StoreInv, Phase
<1>3. MediaInv' /\ OfferInv' /\ raced' \in BOOLEAN
  BY <1>1 DEF ClearTimer, CallInv, MediaInv, OfferInv
<1> QED BY <1>1, <1>2, <1>3 DEF CallInv

-----------------------------------------------------------------------------
(* Events. *)

\* The event a handler takes from the inbox.
LEMMA HandledEvent ==
  ASSUME CallInv, NEW c \in Call, NEW k, Handles(k, c)
  PROVE  InboxInv(Tail(inbox), srv) /\ GoodEvent(Msg(k, c), srv)
BY TailGood DEF Handles, CallInv

LEMMA IncomingCallKeeps == ASSUME CallInv, NEW c \in Call, IncomingCall(c) PROVE CallInv'
<1>1. InboxInv(Tail(inbox), srv) /\ GoodEvent(Msg("incoming", c), srv)
  BY HandledEvent DEF IncomingCall
<1>2. c \in Received
  BY <1>1 DEF GoodEvent, Msg
<1>3. UNCHANGED <<stream, live, media, peers, peer, timers, offered, raced>> /\ known' = known \cup {c}
  BY DEF IncomingCall, mediaVars, peerVars
<1>4. /\ Forward(srv, srv')
      /\ \A d \in Call : srv[d] = "new" => srv'[d] = "new"
      /\ InboxInv(inbox', srv')
      /\ signals' \in [Call -> Signalled]
      /\ lost' \in BOOLEAN
  <2>1. CASE call # NoCall
    <3>1. ServerEnds(c, Tail(inbox))
      BY <2>1 DEF IncomingCall
    <3> QED BY <1>1, <3>1, ServerEndsKeeps DEF CallInv
  <2>2. CASE call = NoCall
    BY <1>1, <2>2 DEF IncomingCall, serverVars, CallInv, Forward, Onward
  <2> QED BY <2>1, <2>2
<1>5. StoreInv'
  BY <1>2, <1>3, CallAssumption DEF IncomingCall, CallInv, StoreInv, Phase, Call
<1>6. MediaInv'
  BY <1>3 DEF CallInv, MediaInv
<1>7. PlacedOnce(media', srv', known')
  BY <1>2, <1>3, <1>4, CallAssumption DEF CallInv, PlacedOnce, Call
<1>8. PeersInv(peers', srv') /\ OfferInv'
  BY <1>3, <1>4, PeersForward, OfferForward DEF CallInv
<1> QED BY <1>3, <1>4, <1>5, <1>6, <1>7, <1>8 DEF CallInv, Forward

LEMMA InviteUnreachedKeeps == ASSUME CallInv, NEW c \in Call, InviteUnreached(c) PROVE CallInv'
<1>1. InboxInv(Tail(inbox), srv)
  BY HandledEvent DEF InviteUnreached
<1>2. hangUp(peers, Tail(inbox)) /\ UNCHANGED <<offered, known>> /\ raced' \in BOOLEAN
  BY DEF InviteUnreached, CallInv
<1> QED BY <1>1, <1>2, HangUpKeeps DEF CallInv

LEMMA CallAcceptedKeeps == ASSUME CallInv, NEW c \in Call, CallAccepted(c) PROVE CallInv'
<1>1. InboxInv(Tail(inbox), srv) /\ GoodEvent(Msg("accepted", c), srv)
  BY HandledEvent DEF CallAccepted
<1>2. UNCHANGED <<call, stream, live, media, timers, srv, signals, lost, offered, known>>
      /\ inbox' = Tail(inbox)
  BY DEF CallAccepted, mediaVars, serverVars
<1>3. raced' \in BOOLEAN
  BY DEF CallAccepted, CallInv
<1>4. MediaInv' /\ OfferInv'
  BY <1>2 DEF CallInv, MediaInv, OfferInv
<1>5. CASE ~ (call = c /\ c \in Placed)
  <2>1. UNCHANGED <<tone, phase, peers, peer>>
    BY <1>5 DEF CallAccepted, peerVars
  <2>2. StoreInv'
    BY <1>2, <2>1 DEF CallInv, StoreInv
  <2> QED BY <1>1, <1>2, <1>3, <1>4, <2>1, <2>2 DEF CallInv
<1>6. CASE call = c /\ c \in Placed
  <2> DEFINE p == [createPeer(c, stream) EXCEPT !.doing = {"offer"}]
  <2>1. GoodPeer(p, srv)
    <3>1. srv[c] \in Answered
      BY <1>1 DEF GoodEvent, Msg
    <3> QED BY <1>6, <3>1 DEF GoodPeer, createPeer, Connection, Step, CallInv, MediaInv
  <2>2. peers' = With(Place, p) /\ peer' = Place /\ tone' = "none" /\ phase' = "connecting"
    BY <1>6 DEF CallAccepted
  <2> HIDE DEF p
  <2>3. PeersInv(peers', srv) /\ peer' \in 1..Len(peers')
    BY <2>1, <2>2, WithGood DEF CallInv
  <2>4. peer' \in 0..Len(peers')
    BY <2>3
  <2>5. StoreInv'
    BY <1>2, <1>6, <2>2, CallAssumption DEF CallInv, StoreInv, Phase
  <2> QED BY <1>1, <1>2, <1>3, <1>4, <2>3, <2>4, <2>5 DEF CallInv
<1> QED BY <1>5, <1>6

LEMMA FinishKeeps == ASSUME CallInv, NEW c \in Call, Finish(c) PROVE CallInv'
<1>1. InboxInv(Tail(inbox), srv)
  BY HandledEvent DEF Finish
<1>2. UNCHANGED <<srv, signals, lost, offered, known, raced>> /\ inbox' = Tail(inbox)
  BY DEF Finish, serverVars
<1>3. OfferInv'
  BY <1>2 DEF CallInv, OfferInv
<1>4. CASE call # c
  <2>1. UNCHANGED <<call, phase, tone, stream, live, media, peers, peer, timers>>
    BY <1>4 DEF Finish, mediaVars, peerVars
  <2>2. StoreInv' /\ MediaInv'
    BY <2>1 DEF CallInv, StoreInv, MediaInv
  <2> QED BY <1>1, <1>2, <1>3, <2>1, <2>2 DEF CallInv
<1>5. CASE call = c
  <2>1. teardown(peers) /\ EndCall
    BY <1>5 DEF Finish
  <2>2. /\ PeersInv(peers', srv) /\ peer' \in 0..Len(peers')
        /\ tone' = "none"
        /\ stream' \in Stream \cup {0} /\ live' \subseteq Stream
    BY <2>1, TeardownKeeps DEF CallInv, MediaInv
  <2>3. StoreInv'
    BY <1>5, <2>1, <2>2, CallAssumption DEF EndCall, CallInv, StoreInv, Phase
  <2>4. MediaInv' /\ media' = media
    BY <2>1, <2>2 DEF EndCall, CallInv, MediaInv
  <2> QED BY <1>1, <1>2, <1>3, <2>2, <2>3, <2>4 DEF CallInv
<1> QED BY <1>4, <1>5

\* A signal leaves its connection good: a candidate waits only where no
\* description is set.
LEMMA SignallingGood ==
  ASSUME NEW p, NEW s, NEW k \in {"offer", "answer", "ice"}, GoodPeer(p, s)
  PROVE  GoodPeer(Signalling(p, k), s)
<1>1. p \in Connection
  BY DEF GoodPeer
<1>2. CASE k = "ice"
  BY <1>1, <1>2 DEF GoodPeer, Signalling, addIceCandidate, Connection
<1>3. CASE k = "offer"
  BY <1>1, <1>3 DEF GoodPeer, Signalling, Connection, Step
<1>4. CASE k = "answer"
  BY <1>1, <1>4 DEF GoodPeer, Signalling, Connection, Step
<1> QED BY <1>2, <1>3, <1>4

LEMMA CallSignalKeeps ==
  ASSUME CallInv, NEW c \in Call, NEW k \in {"offer", "answer", "ice"}, CallSignal(c, k)
  PROVE  CallInv'
<1>1. InboxInv(Tail(inbox), srv)
  BY HandledEvent DEF CallSignal
<1>2. UNCHANGED <<call, phase, tone, stream, live, media, timers, srv, signals, lost, offered, known>>
      /\ inbox' = Tail(inbox)
  BY DEF CallSignal, mediaVars, serverVars
<1>3. StoreInv' /\ MediaInv' /\ OfferInv' /\ raced' \in BOOLEAN
  BY <1>2 DEF CallSignal, CallInv, StoreInv, MediaInv, OfferInv
<1>4. PeersInv(peers', srv) /\ peer' \in 0..Len(peers')
  <2>1. CASE call # c
    BY <2>1 DEF CallSignal, peerVars, CallInv
  <2>2. CASE call = c /\ peer = 0
    <3>1. GoodPeer(Signalling(createPeer(c, stream), k), srv)
      BY CreatedGood, SignallingGood DEF CallInv, MediaInv
    <3>2. PeersInv(peers', srv) /\ peer' \in 1..Len(peers')
      BY <2>2, <3>1, WithGood DEF CallSignal, CallInv
    <3> QED BY <3>2
  <2>3. CASE call = c /\ peer # 0
    <3>1. peer \in 1..Len(peers) /\ Len(peers) \in Nat
      BY <2>3 DEF CallInv, PeersInv
    <3>2. GoodPeer(Signalling(peers[peer], k), srv)
      BY <3>1, SignallingGood DEF CallInv, PeersInv
    <3>3. peer \in 1..Len(peers) + 1
      BY <3>1
    <3>4. PeersInv(peers', srv) /\ peer' \in 1..Len(peers')
      BY <2>3, <3>2, <3>3, WithGoodAt DEF CallSignal, CallInv
    <3> QED BY <3>4
  <2> QED BY <2>1, <2>2, <2>3
<1> QED BY <1>1, <1>2, <1>3, <1>4 DEF CallInv

LEMMA LoseKeeps == ASSUME CallInv, Lose PROVE CallInv'
<1>1. InboxInv(inbox', srv)
  BY TailGood DEF Lose, CallInv
<1>2. UNCHANGED <<call, phase, tone, stream, live, media, peers, peer, timers, srv, signals,
                  offered, known, raced>> /\ lost' \in BOOLEAN
  BY DEF Lose, mediaVars, peerVars
<1>3. StoreInv' /\ MediaInv' /\ OfferInv'
  BY <1>2 DEF CallInv, StoreInv, MediaInv, OfferInv
<1> QED BY <1>1, <1>2, <1>3 DEF CallInv

-----------------------------------------------------------------------------
(* Connections, and the other side. *)

\* Most steps of a connection change that connection and at most phase and tone.
LEMMA OnePeerKeeps ==
  ASSUME CallInv, NEW ps, PeersInv(ps, srv), Len(ps) = Len(peers), peers' = ps,
         UNCHANGED <<call, phase, tone, mediaVars, peer, timers, inbox, serverVars, known, raced>>,
         OfferInv'
  PROVE  CallInv'
<1>1. PeersInv(peers', srv) /\ Len(peers') = Len(peers)
  OBVIOUS
<1>2. UNCHANGED <<call, phase, tone, stream, live, media, peer, timers, inbox, srv, signals, lost,
                  known, raced>>
  BY DEF mediaVars, serverVars
<1>3. StoreInv' /\ MediaInv'
  BY <1>2 DEF CallInv, StoreInv, MediaInv
<1> QED BY <1>1, <1>2, <1>3 DEF CallInv

\* The offer is sent in a placed call the other side has accepted.
LEMMA OfferCreatedKeeps ==
  ASSUME CallInv, NEW n \in 1..Len(peers), OfferCreated(n) PROVE CallInv'
<1> DEFINE p == [peers[n] EXCEPT !.doing = @ \ {"offer"}]
           ps == [peers EXCEPT ![n] = p]
<1>1. GoodPeer(peers[n], srv) /\ "offer" \in peers[n].doing
  BY DEF OfferCreated, Awaits, CallInv, PeersInv
<1>2. GoodPeer(p, srv)
  BY <1>1 DEF GoodPeer, Connection
<1>3. peers' = ps
  BY DEF OfferCreated
<1> HIDE DEF p
<1>5. PeersInv(ps, srv) /\ Len(ps) = Len(peers)
  BY <1>2, ReplaceGood DEF CallInv
<1> HIDE DEF ps
<1>4. OfferInv'
  BY <1>1 DEF OfferCreated, serverVars, GoodPeer, CallInv, OfferInv
<1> QED BY <1>3, <1>4, <1>5, OnePeerKeeps DEF OfferCreated

LEMMA OfferSame ==
  ASSUME CallInv, UNCHANGED <<serverVars, offered>> PROVE OfferInv'
BY DEF CallInv, OfferInv, serverVars

\* What has waited is drained when the description is set.
LEMMA RemoteSetKeeps ==
  ASSUME CallInv, NEW n \in 1..Len(peers), NEW s \in {"setOffer", "setAnswer"}, RemoteSet(n, s)
  PROVE  CallInv'
<1> DEFINE p == [peers[n] EXCEPT !.remote = TRUE, !.queued = 0,
                                 !.doing = (@ \ {s}) \cup (IF s = "setOffer" THEN {"answer"} ELSE {})]
           ps == [peers EXCEPT ![n] = p]
<1>1. GoodPeer(peers[n], srv)
  BY DEF CallInv, PeersInv
<1>2. GoodPeer(p, srv)
  BY <1>1 DEF GoodPeer, Connection, Step
<1>3. peers' = ps
  BY DEF RemoteSet, CallInv, PeersInv
<1> HIDE DEF p
<1>5. PeersInv(ps, srv) /\ Len(ps) = Len(peers)
  BY <1>2, ReplaceGood DEF CallInv
<1> HIDE DEF ps
<1>4. OfferInv'
  BY OfferSame DEF RemoteSet
<1> QED BY <1>3, <1>4, <1>5, OnePeerKeeps DEF RemoteSet

LEMMA AnswerSentKeeps ==
  ASSUME CallInv, NEW n \in 1..Len(peers), AnswerSent(n) PROVE CallInv'
<1> DEFINE p == [peers[n] EXCEPT !.doing = @ \ {"answer"}]
           ps == [peers EXCEPT ![n] = p]
<1>1. GoodPeer(peers[n], srv)
  BY DEF CallInv, PeersInv
<1>2. GoodPeer(p, srv)
  BY <1>1 DEF GoodPeer, Connection
<1>3. peers' = ps
  BY DEF AnswerSent
<1> HIDE DEF p
<1>5. PeersInv(ps, srv) /\ Len(ps) = Len(peers)
  BY <1>2, ReplaceGood DEF CallInv
<1> HIDE DEF ps
<1>4. OfferInv'
  BY OfferSame DEF AnswerSent
<1> QED BY <1>3, <1>4, <1>5, OnePeerKeeps DEF AnswerSent

LEMMA NegotiationFailsKeeps ==
  ASSUME CallInv, NEW n \in 1..Len(peers), NEW s, NegotiationFails(n, s) PROVE CallInv'
<1> DEFINE p == [peers[n] EXCEPT !.doing = @ \ {s}]
           ps == [peers EXCEPT ![n] = p]
<1>1. GoodPeer(peers[n], srv)
  BY DEF CallInv, PeersInv
<1>2. GoodPeer(p, srv)
  BY <1>1 DEF GoodPeer, Connection
<1>3. hangUp(ps, inbox) /\ UNCHANGED <<offered, known>> /\ raced' \in BOOLEAN
  BY DEF NegotiationFails, CallInv
<1> HIDE DEF p
<1>4. PeersInv(ps, srv) /\ Len(ps) = Len(peers)
  BY <1>2, ReplaceGood DEF CallInv
<1> HIDE DEF ps
<1> QED BY <1>3, <1>4, HangUpKeeps DEF CallInv

LEMMA ConnectionFailsKeeps ==
  ASSUME CallInv, NEW n \in 1..Len(peers), ConnectionFails(n) PROVE CallInv'
<1> DEFINE p == [peers[n] EXCEPT !.failed = TRUE]
           ps == [peers EXCEPT ![n] = p]
<1>1. GoodPeer(peers[n], srv)
  BY DEF CallInv, PeersInv
<1>2. GoodPeer(p, srv)
  BY <1>1 DEF GoodPeer, Connection
<1>3. hangUp(ps, inbox) /\ UNCHANGED <<offered, known>> /\ raced' \in BOOLEAN
  BY DEF ConnectionFails, CallInv
<1> HIDE DEF p
<1>4. PeersInv(ps, srv) /\ Len(ps) = Len(peers)
  BY <1>2, ReplaceGood DEF CallInv
<1> HIDE DEF ps
<1> QED BY <1>3, <1>4, HangUpKeeps DEF CallInv

LEMMA RemoteStreamKeeps ==
  ASSUME CallInv, NEW n \in 1..Len(peers), RemoteStream(n) PROVE CallInv'
<1>1. UNCHANGED <<call, stream, live, media, peers, peer, timers, inbox, srv, signals, lost,
                  offered, known, raced>>
  BY DEF RemoteStream, mediaVars, peerVars, serverVars
<1>2. StoreInv'
  BY <1>1 DEF RemoteStream, CallInv, StoreInv, Phase
<1>3. MediaInv' /\ OfferInv'
  BY <1>1 DEF CallInv, MediaInv, OfferInv
<1> QED BY <1>1, <1>2, <1>3 DEF CallInv

\* What the other side does moves the server forward.
LEMMA OtherKeeps == ASSUME CallInv, NEW c \in Call, Other(c) PROVE CallInv'
<1>1. UNCHANGED <<call, phase, tone, stream, live, media, peers, peer, timers, offered, known, raced>>
  BY DEF Other, mediaVars, peerVars
<1>2. StoreInv' /\ MediaInv'
  BY <1>1 DEF CallInv, StoreInv, MediaInv
<1> DEFINE Moved ==
      /\ Forward(srv, srv')
      /\ \A d \in Placed : srv[d] = "new" => srv'[d] = "new"
      /\ InboxInv(inbox', srv')
      /\ signals' \in [Call -> Signalled]
      /\ lost' \in BOOLEAN
<1>3. ASSUME Rings(c) PROVE Moved
  <2>1. Forward(srv, srv') /\ \A d \in Placed : srv[d] = "new" => srv'[d] = "new"
    BY <1>3, CallAssumption DEF Rings, Forward, Onward, CallInv, Server, Answered, Over, Call
  <2>2. GoodEvent(Msg("incoming", c), srv')
    BY <1>3 DEF Rings, GoodEvent, Msg, Event, CallInv, Server
  <2>3. InboxInv(inbox', srv')
    BY <1>3, <2>1, <2>2, InboxForward, AppendGood DEF Rings, CallInv
  <2> QED BY <1>3, <2>1, <2>3 DEF Rings, CallInv
<1>4. ASSUME Answers(c) PROVE Moved
  <2>1. Forward(srv, srv') /\ \A d \in Placed : srv[d] = "new" => srv'[d] = "new"
    BY <1>4 DEF Answers, Forward, Onward, CallInv, Server, Answered, Over, Call
  <2>2. GoodEvent(Msg("accepted", c), srv')
    BY <1>4 DEF Answers, GoodEvent, Msg, Event, Answered, CallInv, Server
  <2>3. InboxInv(inbox', srv')
    BY <1>4, <2>1, <2>2, InboxForward, AppendGood DEF Answers, CallInv
  <2> QED BY <1>4, <2>1, <2>3 DEF Answers, CallInv
<1>5. ASSUME Leaves(c) PROVE Moved
  BY <1>5, ServerEndsKeeps DEF Leaves, CallInv, Call
<1>6. ASSUME NEW k \in {"offer", "answer", "ice"}, Signals(c, k) PROVE Moved
  <2>1. srv' = srv /\ lost' = lost /\ inbox' = Append(inbox, Msg(k, c))
    BY <1>6 DEF Signals
  <2>2. signals' \in [Call -> Signalled]
    <3>1. signals[c] \in Signalled
      BY DEF CallInv
    <3>2. CASE k = "ice"
      <4>1. signals' = [signals EXCEPT ![c].ice = @ + 1] /\ signals[c].ice < MaxIce
        BY <1>6, <3>2 DEF Signals
      <4>2. signals[c].ice + 1 \in 0..MaxIce
        BY <3>1, <4>1, BoundAssumption DEF Signalled
      <4> QED BY <3>1, <4>1, <4>2 DEF CallInv, Signalled
    <3>3. CASE k # "ice"
      BY <1>6, <3>1, <3>3 DEF Signals, Signalled, CallInv
    <3> QED BY <3>2, <3>3
  <2>3. GoodEvent(Msg(k, c), srv')
    BY <1>6 DEF GoodEvent, Msg, Event
  <2> QED BY <2>1, <2>2, <2>3, AppendGood DEF CallInv, Forward, Onward
<1>7. Moved
  BY <1>3, <1>4, <1>5, <1>6 DEF Other
<1>8. PlacedOnce(media', srv', known')
  BY <1>1, <1>7 DEF CallInv, PlacedOnce
<1>9. PeersInv(peers', srv') /\ OfferInv'
  BY <1>1, <1>7, PeersForward, OfferForward DEF CallInv
<1> QED BY <1>1, <1>2, <1>7, <1>8, <1>9 DEF CallInv, Forward

-----------------------------------------------------------------------------
(* The invariant, and what follows from it. *)

LEMMA CallStep == CallInv /\ [Next]_vars => CallInv'
<1> SUFFICES ASSUME CallInv, [Next]_vars PROVE CallInv'
  OBVIOUS
<1>1. CASE UNCHANGED vars
  <2>1. UNCHANGED <<call, phase, tone, stream, live, media, peers, peer, timers, inbox, srv, signals,
                    lost, offered, known, raced>>
    BY <1>1 DEF vars, mediaVars, peerVars, serverVars
  <2>2. StoreInv' /\ MediaInv' /\ OfferInv'
    BY <2>1 DEF CallInv, StoreInv, MediaInv, OfferInv
  <2> QED BY <2>1, <2>2 DEF CallInv
<1>2. ASSUME NEW c \in Call, Start(c) \/ Media(c) \/ Handle(c) \/ Other(c) PROVE CallInv'
  <2>1. CASE Start(c)
    BY <2>1, StartKeeps
  <2>2. CASE Media(c)
    BY <2>2, InviteKeeps, StartDeniedKeeps, AcceptGrantedKeeps, AcceptDeniedKeeps DEF Media
  <2>3. CASE Handle(c)
    BY <2>3, IncomingCallKeeps, InviteUnreachedKeeps, CallAcceptedKeeps, FinishKeeps, CallSignalKeeps
       DEF Handle
  <2>4. CASE Other(c)
    BY <2>4, OtherKeeps
  <2> QED BY <1>2, <2>1, <2>2, <2>3, <2>4
<1>3. ASSUME NEW n \in 1..Len(peers), Connects(n) PROVE CallInv'
  BY <1>3, OfferCreatedKeeps, RemoteSetKeeps, AnswerSentKeeps, NegotiationFailsKeeps, RemoteStreamKeeps,
     ConnectionFailsKeeps DEF Connects
<1>4. CASE Accept \/ Decline \/ HangUp \/ ClearTimer \/ Lose
  BY <1>4, AcceptKeeps, DeclineKeeps, HangUpActionKeeps, ClearTimerKeeps, LoseKeeps
<1> QED BY <1>1, <1>2, <1>3, <1>4 DEF Next

\* The inductive invariant of the call engine: the store, the prompts, the
\* connections and the events on their way agree with the server.
THEOREM CallCorrect == Spec => []CallInv
<1>1. Init => CallInv
  BY CallInit
<1>2. CallInv /\ [Next]_vars => CallInv'
  BY CallStep
<1> QED BY <1>1, <1>2, PTL DEF Spec

\* The engine's variables have their types, for any number of calls, streams,
\* prompts and timers: the phase is idle exactly when there is no call.
THEOREM CallTypes == Spec => []TypeOK
<1>1. CallInv => TypeOK
  BY DEF CallInv, StoreInv, MediaInv, PeersInv, InboxInv, OfferInv, Server, TypeOK
<1> QED BY <1>1, CallCorrect, PTL

\* "The caller only offers once the callee has picked up" (desktop/README.md),
\* however calls, prompts and events overlap.
THEOREM OfferCorrect == Spec => []OfferAfterAccept
<1>1. CallInv => OfferAfterAccept
  BY DEF CallInv, OfferInv, OfferAfterAccept, Answered
<1> QED BY <1>1, CallCorrect, PTL

\* Every candidate is added: none waits on a connection whose remote description
\* is set, in whatever order signals and answers of the connection come.
THEOREM CandidatesCorrect == Spec => []CandidatesDrained
<1>1. CallInv => CandidatesDrained
  BY DEF CallInv, PeersInv, GoodPeer, CandidatesDrained
<1> QED BY <1>1, CallCorrect, PTL

-----------------------------------------------------------------------------
(* Invitations. *)

TimersOver(ts, s) == \A i \in 1..Len(ts) : ts[i] \in Received => s[ts[i]] \in Over

\* A received call is known once the server knows it, and only a timer of the
\* call that is there may take it away.
InviteInv ==
  /\ \A c \in known \cap Received : srv[c] # "new"
  /\ call \in Received => call \in known
  /\ TimersOver(timers, srv)
  /\ InviteKept

LEMMA TimersForward ==
  ASSUME CallInv, NEW ts \in Seq(Call), TimersOver(ts, srv), Forward(srv, srv')
  PROVE  TimersOver(ts, srv')
<1>1. \A i \in 1..Len(ts) : ts[i] \in Call /\ Onward(srv[ts[i]], srv'[ts[i]])
  BY DEF Forward
<1> QED BY <1>1 DEF TimersOver, Onward

\* All steps but that of an incoming call: none makes a known call ring, and
\* one that takes away the call leaves no other ringing.
LEMMA InviteHeld ==
  ASSUME CallInv, InviteInv, Forward(srv, srv'), TimersOver(timers', srv'),
         known' \cap Received = known \cap Received,
         call' = call \/ call' \notin Received,
         raced => raced',
         \A c \in known \cap Received : srv'[c] = "ringing" =>
            srv[c] = "ringing" /\ (raced' \/ call' = call \/ call # c)
  PROVE  InviteInv'
<1>1. \A c \in known \cap Received : Onward(srv[c], srv'[c])
  BY DEF Forward, Call
<1>2. \A c \in known' \cap Received : srv'[c] # "new"
  BY <1>1 DEF InviteInv, Onward
<1>3. call' \in Received => call' \in known'
  BY DEF InviteInv
<1>4. InviteKept'
  BY DEF InviteInv, InviteKept
<1> QED BY <1>2, <1>3, <1>4 DEF InviteInv

\* Steps that leave the call, its timers and the known calls alone.
LEMMA InviteCalm ==
  ASSUME CallInv, InviteInv, Forward(srv, srv'), UNCHANGED <<call, timers, known>>, raced => raced',
         \A c \in known \cap Received : srv'[c] = "ringing" => srv[c] = "ringing"
  PROVE  InviteInv'
<1>1. TimersOver(timers', srv')
  BY TimersForward DEF CallInv, StoreInv, InviteInv
<1> QED BY <1>1, InviteHeld

LEMMA InviteSame ==
  ASSUME CallInv, InviteInv, srv' = srv, UNCHANGED <<call, timers, known>>, raced => raced'
  PROVE  InviteInv'
<1>1. Forward(srv, srv')
  BY DEF Forward, Onward, CallInv
<1> QED BY <1>1, InviteCalm

\* A call the server ends rings no more, and no other rings for it.
LEMMA EndsRing ==
  ASSUME CallInv, NEW c \in Call, NEW q, ServerEnds(c, q)
  PROVE  /\ Forward(srv, srv')
         /\ srv[c] # "new" => srv'[c] \in Over
         /\ srv'[c] # "ringing"
         /\ \A d \in Call : d # c => srv'[d] = srv[d]
<1>1. srv' = [srv EXCEPT ![c] = Ended(@)] /\ srv \in Server
  BY DEF ServerEnds, CallInv
<1> QED BY <1>1 DEF Forward, Onward, Server, Ended, Answered, Over

\* The timer that is set is that of a call which is over.
LEMMA TimerSet ==
  ASSUME CallInv, InviteInv, EndCall, call # NoCall, Forward(srv, srv'),
         call \in Received => srv'[call] \in Over
  PROVE  TimersOver(timers', srv')
<1>1. timers \in Seq(Call) /\ call \in Call /\ timers' = Append(timers, call)
  BY DEF CallInv, StoreInv, EndCall
<1>2. TimersOver(timers, srv')
  BY <1>1, TimersForward DEF InviteInv
<1>3. Len(timers) \in Nat /\ Len(timers') = Len(timers) + 1
      /\ \A i \in 1..Len(timers) + 1 : timers'[i] = IF i = Len(timers) + 1 THEN call ELSE timers[i]
  BY <1>1
<1> QED BY <1>2, <1>3 DEF TimersOver

LEMMA InviteHangUp ==
  ASSUME CallInv, InviteInv, NEW ps, NEW q, hangUp(ps, q), known' = known, raced => raced'
  PROVE  InviteInv'
<1>1. CASE call = NoCall
  BY <1>1, InviteSame DEF hangUp, serverVars
<1>2. CASE call # NoCall
  <2>1. EndCall /\ ServerEnds(call, q) /\ call' = call
    BY <1>2 DEF hangUp, EndCall
  <2>2. call \in Call
    BY <1>2 DEF CallInv, StoreInv
  <2>3. /\ Forward(srv, srv')
        /\ srv[call] # "new" => srv'[call] \in Over
        /\ srv'[call] # "ringing"
        /\ \A d \in Call : d # call => srv'[d] = srv[d]
    BY <2>1, <2>2, EndsRing
  <2>4. call \in Received => srv'[call] \in Over
    BY <2>3 DEF InviteInv
  <2>5. TimersOver(timers', srv')
    BY <1>2, <2>1, <2>3, <2>4, TimerSet
  <2>6. \A c \in known \cap Received : srv'[c] = "ringing" => srv[c] = "ringing"
    BY <2>3 DEF Call
  <2> QED BY <2>1, <2>3, <2>5, <2>6, InviteHeld
<1> QED BY <1>1, <1>2

LEMMA InviteReject ==
  ASSUME CallInv, InviteInv, reject, known' = known, timers' = timers, raced => raced'
  PROVE  InviteInv'
<1>1. CASE call = NoCall
  BY <1>1, InviteSame DEF reject, serverVars
<1>2. CASE call # NoCall
  <2>1. ServerEnds(call, inbox) /\ call' = NoCall
    BY <1>2 DEF reject
  <2>2. call \in Call
    BY <1>2 DEF CallInv, StoreInv
  <2>3. /\ Forward(srv, srv')
        /\ srv'[call] # "ringing"
        /\ \A d \in Call : d # call => srv'[d] = srv[d]
    BY <2>1, <2>2, EndsRing
  <2>4. TimersOver(timers', srv')
    BY <2>3, TimersForward DEF CallInv, StoreInv, InviteInv
  <2>5. \A c \in known \cap Received : srv'[c] = "ringing" => srv[c] = "ringing" /\ call # c
    BY <2>3 DEF Call
  <2>6. call' \notin Received
    BY <2>1, CallAssumption DEF Call
  <2> QED BY <2>3, <2>4, <2>5, <2>6, InviteHeld
<1> QED BY <1>1, <1>2

LEMMA InviteStart == ASSUME CallInv, InviteInv, NEW c \in Call, Start(c) PROVE InviteInv'
<1>1. c \in Placed /\ c \notin Received /\ call = NoCall /\ call' = c
  BY CallAssumption DEF Start
<1>2. srv' = srv /\ timers' = timers /\ raced' = raced /\ known' \cap Received = known \cap Received
  BY <1>1 DEF Start, serverVars
<1>3. Forward(srv, srv')
  BY <1>2 DEF Forward, Onward, CallInv
<1>4. TimersOver(timers', srv')
  BY <1>2 DEF InviteInv
<1>5. \A d \in known \cap Received : call # d
  BY <1>1, CallAssumption DEF Call
<1> QED BY <1>1, <1>2, <1>3, <1>4, <1>5, InviteHeld

LEMMA InviteMedia == ASSUME CallInv, InviteInv, NEW c \in Call, Media(c) PROVE InviteInv'
<1>1. ASSUME NEW reached \in BOOLEAN, Invite(c, reached) PROVE InviteInv'
  <2>1. c \in Placed /\ UNCHANGED <<call, timers, known>> /\ (raced => raced')
    BY <1>1 DEF Invite, OpenMedia
  <2>2. Forward(srv, srv')
    <3>1. media[c] > 0 /\ media[c] \in {0, 1}
      BY <1>1, <2>1 DEF Invite, OpenMedia, CallInv, PlacedOnce
    <3>2. srv[c] = "new"
      BY <2>1, <3>1 DEF CallInv, PlacedOnce
    <3> QED BY <1>1, <3>2 DEF Invite, Forward, Onward, CallInv, Server, Answered, Over
  <2>3. \A d \in known \cap Received : srv'[d] = "ringing" => srv[d] = "ringing"
    BY <1>1, <2>1, CallAssumption DEF Invite, CallInv, Server, Call
  <2> QED BY <2>1, <2>2, <2>3, InviteCalm
<1>2. CASE StartDenied(c)
  <2>1. c \in Placed /\ c \notin Received /\ call' = NoCall /\ raced' = (raced \/ Overtaken(c))
    BY <1>2, CallAssumption DEF StartDenied
  <2>2. srv' = srv /\ timers' = timers /\ known' = known
    BY <1>2 DEF StartDenied, serverVars
  <2>3. Forward(srv, srv')
    BY <2>2 DEF Forward, Onward, CallInv
  <2>4. TimersOver(timers', srv')
    BY <2>2 DEF InviteInv
  <2>5. \A d \in known \cap Received : raced' \/ call # d
    BY <2>1 DEF Overtaken
  <2>6. call' \notin Received
    BY <2>1, CallAssumption DEF Call
  <2> QED BY <2>1, <2>2, <2>3, <2>4, <2>5, <2>6, InviteHeld
<1>3. CASE AcceptGranted(c)
  <2>1. UNCHANGED <<call, timers, known>> /\ (raced => raced')
    BY <1>3 DEF AcceptGranted, OpenMedia
  <2>2. Forward(srv, srv')
    BY <1>3 DEF AcceptGranted, Forward, Onward, CallInv, Server, Answered, Over
  <2>3. \A d \in known \cap Received : srv'[d] = "ringing" => srv[d] = "ringing"
    BY <1>3 DEF AcceptGranted, CallInv, Server, Call
  <2> QED BY <2>1, <2>2, <2>3, InviteCalm
<1>4. CASE AcceptDenied(c)
  BY <1>4, InviteReject DEF AcceptDenied
<1> QED BY <1>1, <1>2, <1>3, <1>4 DEF Media

LEMMA InviteTimer == ASSUME CallInv, InviteInv, ClearTimer PROVE InviteInv'
<1>1. /\ timers # <<>> /\ timers' = Tail(timers) /\ call' = NoCall
      /\ srv' = srv /\ known' = known /\ raced' = (raced \/ call \notin {NoCall, Head(timers)})
  BY DEF ClearTimer, serverVars
<1>2. timers \in Seq(Call) /\ Len(timers) \in Nat /\ Len(timers) # 0
  BY <1>1 DEF CallInv, StoreInv
<1>3. Len(timers') = Len(timers) - 1 /\ \A i \in 1..Len(timers') : timers'[i] = timers[i + 1]
  BY <1>1, <1>2
<1>4. TimersOver(timers', srv')
  BY <1>1, <1>2, <1>3 DEF InviteInv, TimersOver
<1>5. Head(timers) \in Received => srv[Head(timers)] \in Over
  <2>1. Head(timers) = timers[1] /\ 1 \in 1..Len(timers)
    BY <1>2
  <2> QED BY <2>1 DEF InviteInv, TimersOver
<1>6. \A d \in known \cap Received : srv[d] = "ringing" => raced' \/ call # d
  <2>1. "ringing" \notin Over
    BY DEF Over
  <2>2. NoCall \notin Received
    BY CallAssumption DEF Call
  <2> QED BY <1>1, <1>5, <2>1, <2>2
<1>7. Forward(srv, srv')
  BY <1>1 DEF Forward, Onward, CallInv
<1>8. call' \notin Received
  BY <1>1, CallAssumption DEF Call
<1> QED BY <1>1, <1>4, <1>6, <1>7, <1>8, InviteHeld

\* A busy client ends the call at the server; a free one shows it.
LEMMA InviteIncoming == ASSUME CallInv, InviteInv, NEW c \in Call, IncomingCall(c) PROVE InviteInv'
<1>1. c \in Received /\ srv[c] # "new"
  <2>1. GoodEvent(Msg("incoming", c), srv)
    BY HandledEvent DEF IncomingCall
  <2> QED BY <2>1 DEF GoodEvent, Msg
<1>2. known' = known \cup {c} /\ timers' = timers /\ raced' = raced
  BY DEF IncomingCall
<1>3. CASE call = NoCall
  <2>1. call' = c /\ srv' = srv
    BY <1>3 DEF IncomingCall, serverVars
  <2>2. ~ raced => \A d \in known \cap Received : srv[d] # "ringing"
    BY <1>3, CallAssumption DEF InviteInv, InviteKept, Call
  <2>3. InviteKept'
    BY <1>2, <2>1, <2>2 DEF InviteKept
  <2>4. \A d \in known' \cap Received : srv'[d] # "new"
    BY <1>1, <1>2, <2>1 DEF InviteInv
  <2> QED BY <1>2, <2>1, <2>3, <2>4 DEF InviteInv
<1>4. CASE call # NoCall
  <2>1. ServerEnds(c, Tail(inbox)) /\ call' = call
    BY <1>4 DEF IncomingCall
  <2>2. /\ Forward(srv, srv')
        /\ srv'[c] \in Over
        /\ srv'[c] # "ringing"
        /\ \A d \in Call : d # c => srv'[d] = srv[d]
    BY <1>1, <2>1, EndsRing
  <2>3. \A d \in known' \cap Received : srv'[d] # "new"
    BY <1>1, <1>2, <2>2 DEF InviteInv, Over, Call
  <2>4. TimersOver(timers', srv')
    BY <1>2, <2>2, TimersForward DEF CallInv, StoreInv, InviteInv
  <2>5. InviteKept'
    BY <1>2, <2>1, <2>2 DEF InviteInv, InviteKept, Call
  <2> QED BY <1>2, <2>1, <2>3, <2>4, <2>5 DEF InviteInv
<1> QED BY <1>3, <1>4

LEMMA InviteFinish == ASSUME CallInv, InviteInv, NEW c \in Call, Finish(c) PROVE InviteInv'
<1>1. srv' = srv /\ known' = known /\ raced' = raced
  BY DEF Finish, serverVars
<1>2. CASE call # c
  BY <1>1, <1>2, InviteSame DEF Finish
<1>3. CASE call = c
  <2>1. EndCall /\ call' = call
    BY <1>3 DEF Finish, EndCall
  <2>2. srv[c] \in Over
    <3>1. GoodEvent(Msg("over", c), srv)
      BY HandledEvent DEF Finish
    <3> QED BY <3>1 DEF GoodEvent, Msg
  <2>3. Forward(srv, srv')
    BY <1>1 DEF Forward, Onward, CallInv
  <2>4. call # NoCall
    BY <1>3, CallAssumption
  <2>5. TimersOver(timers', srv')
    BY <1>1, <1>3, <2>1, <2>2, <2>3, <2>4, TimerSet
  <2> QED BY <1>1, <2>1, <2>3, <2>5, InviteHeld
<1> QED BY <1>2, <1>3

LEMMA InviteHandle == ASSUME CallInv, InviteInv, NEW c \in Call, Handle(c) PROVE InviteInv'
<1>1. CASE InviteUnreached(c)
  BY <1>1, InviteHangUp DEF InviteUnreached
<1>2. CASE CallAccepted(c)
  BY <1>2, InviteSame DEF CallAccepted, serverVars
<1>3. ASSUME NEW k \in {"offer", "answer", "ice"}, CallSignal(c, k) PROVE InviteInv'
  BY <1>3, InviteSame DEF CallSignal, serverVars
<1> QED BY <1>1, <1>2, <1>3, InviteIncoming, InviteFinish DEF Handle

LEMMA InviteConnects ==
  ASSUME CallInv, InviteInv, NEW n \in 1..Len(peers), Connects(n) PROVE InviteInv'
<1>1. CASE OfferCreated(n) \/ AnswerSent(n) \/ RemoteStream(n)
           \/ \E s \in {"setOffer", "setAnswer"} : RemoteSet(n, s)
  BY <1>1, InviteSame DEF OfferCreated, AnswerSent, RemoteStream, RemoteSet, serverVars
<1>2. ASSUME NEW s \in {"offer", "setOffer", "answer", "setAnswer"}, NegotiationFails(n, s)
      PROVE InviteInv'
  BY <1>2, InviteHangUp DEF NegotiationFails
<1>3. CASE ConnectionFails(n)
  BY <1>3, InviteHangUp DEF ConnectionFails
<1> QED BY <1>1, <1>2, <1>3 DEF Connects

\* A call that begins to ring is new, so this client does not know it yet.
LEMMA InviteOther == ASSUME CallInv, InviteInv, NEW c \in Call, Other(c) PROVE InviteInv'
<1>1. UNCHANGED <<call, timers, known, raced>>
  BY DEF Other
<1>2. CASE Rings(c)
  <2>1. Forward(srv, srv')
    BY <1>2 DEF Rings, Forward, Onward, CallInv, Server, Answered, Over
  <2>2. c \notin known
    BY <1>2 DEF Rings, InviteInv
  <2>3. \A d \in known \cap Received : srv'[d] = "ringing" => srv[d] = "ringing"
    BY <1>2, <2>2 DEF Rings, CallInv, Server, Call
  <2> QED BY <1>1, <2>1, <2>3, InviteCalm
<1>3. CASE Answers(c)
  <2>1. Forward(srv, srv')
    BY <1>3 DEF Answers, Forward, Onward, CallInv, Server, Answered, Over
  <2>2. \A d \in known \cap Received : srv'[d] = "ringing" => srv[d] = "ringing"
    BY <1>3 DEF Answers, CallInv, Server, Call
  <2> QED BY <1>1, <2>1, <2>2, InviteCalm
<1>4. CASE Leaves(c)
  <2>1. /\ Forward(srv, srv')
        /\ srv'[c] # "ringing"
        /\ \A d \in Call : d # c => srv'[d] = srv[d]
    BY <1>4, EndsRing DEF Leaves
  <2>2. \A d \in known \cap Received : srv'[d] = "ringing" => srv[d] = "ringing"
    BY <2>1 DEF Call
  <2> QED BY <1>1, <2>1, <2>2, InviteCalm
<1>5. ASSUME NEW k \in {"offer", "answer", "ice"}, Signals(c, k) PROVE InviteInv'
  BY <1>1, <1>5, InviteSame DEF Signals
<1> QED BY <1>2, <1>3, <1>4, <1>5 DEF Other

LEMMA InviteStep == CallInv /\ InviteInv /\ [Next]_vars => InviteInv'
<1> SUFFICES ASSUME CallInv, InviteInv, [Next]_vars PROVE InviteInv'
  OBVIOUS
<1>1. CASE UNCHANGED vars
  BY <1>1, InviteSame DEF vars, serverVars
<1>2. ASSUME NEW c \in Call, Start(c) \/ Media(c) \/ Handle(c) \/ Other(c) PROVE InviteInv'
  BY <1>2, InviteStart, InviteMedia, InviteHandle, InviteOther
<1>3. ASSUME NEW n \in 1..Len(peers), Connects(n) PROVE InviteInv'
  BY <1>3, InviteConnects
<1>4. CASE Accept
  BY <1>4, InviteSame DEF Accept, serverVars
<1>5. CASE Decline
  BY <1>5, InviteReject DEF Decline
<1>6. CASE HangUp
  BY <1>6, InviteHangUp DEF HangUp
<1>7. CASE Lose
  BY <1>7, InviteSame DEF Lose
<1> QED BY <1>1, <1>2, <1>3, <1>4, <1>5, <1>6, <1>7, InviteTimer DEF Next

\* Whoever calls this client finds it ringing or is told that it is busy, for
\* any number of calls, prompts and timers, while nothing outlives its call.
THEOREM InviteCorrect == Spec => []InviteKept
<1>1. Init => InviteInv
  BY CallAssumption DEF Init, InviteInv, InviteKept, TimersOver, Call
<1>2. CallInv /\ InviteInv /\ [Next]_vars => InviteInv'
  BY InviteStep
<1>3. InviteInv => InviteKept
  BY DEF InviteInv
<1> QED BY <1>1, <1>2, <1>3, CallCorrect, PTL DEF Spec

-----------------------------------------------------------------------------
(* Signals, and who knows of a call. *)

Signal == {"offer", "answer", "ice"}

\* The events of a call come in the order in which the server sent them: it is
\* announced once, before it is known here, and accepted before it is signalled in.
Queue(q, s, k) ==
  /\ \A i \in 1..Len(q) :
       /\ q[i].kind \in Signal => s[q[i].call] \in Answered
       /\ q[i].kind = "incoming" => q[i].call \notin k
  /\ \A i, j \in 1..Len(q) :
       /\ q[i].call = q[j].call
       /\ \/ q[i].kind = "incoming" /\ q[j].kind = "incoming"
          \/ q[i].kind = "accepted" /\ q[j].kind \in Signal \cup {"accepted"}
       => i <= j

\* The calls that have an open connection.
Opened(ps) == {ps[n].call : n \in {i \in 1..Len(ps) : ps[i].open}}

\* A placed call has one only after its acceptance has been handled.
OpenedInv ==
  /\ \A c \in Opened(peers) \cap Placed : srv[c] \in Answered
  /\ \A i \in 1..Len(inbox) : inbox[i].kind = "accepted" => inbox[i].call \notin Opened(peers)

KnownInv ==
  /\ \A c \in Received \ known : media[c] = 0 /\ srv[c] \notin Answered
  /\ call # NoCall => call \in known
  /\ \A i \in 1..Len(timers) : timers[i] \in known
  /\ phase = "ringing-out" => call \in Placed

SignalInv == Queue(inbox, srv, known) /\ OpenedInv /\ KnownInv

LEMMA QueueForward ==
  ASSUME NEW q, NEW s \in Server, NEW t, NEW k, InboxInv(q, s), Queue(q, s, k), Forward(s, t)
  PROVE  Queue(q, t, k)
<1>1. \A i \in 1..Len(q) : q[i].call \in Call
  BY DEF InboxInv, GoodEvent, Event
<1>2. \A i \in 1..Len(q) : Onward(s[q[i].call], t[q[i].call])
  BY <1>1 DEF Forward
<1> QED BY <1>2 DEF Queue, Onward

LEMMA QueueTail ==
  ASSUME NEW s, NEW k, InboxInv(inbox, s), Queue(inbox, s, k), inbox # <<>>
  PROVE  /\ Queue(Tail(inbox), s, k)
         /\ Head(inbox).kind = "incoming" => Queue(Tail(inbox), s, k \cup {Head(inbox).call})
         /\ \A i \in 1..Len(Tail(inbox)) :
              /\ Tail(inbox)[i].kind = "accepted" => \E j \in 1..Len(inbox) : inbox[j] = Tail(inbox)[i]
              /\ Head(inbox).kind \in Signal \cup {"accepted"} /\ Tail(inbox)[i].kind = "accepted"
                   => Tail(inbox)[i].call # Head(inbox).call
<1>1. inbox \in Seq(Event) /\ Len(inbox) \in Nat /\ Len(inbox) # 0
  BY DEF InboxInv
<1>2. Len(Tail(inbox)) = Len(inbox) - 1
  BY <1>1
<1>3. \A i \in 1..Len(Tail(inbox)) : Tail(inbox)[i] = inbox[i + 1] /\ i + 1 \in 1..Len(inbox)
  BY <1>1, <1>2
<1>4. Head(inbox) = inbox[1] /\ 1 \in 1..Len(inbox)
  BY <1>1
<1>5. Queue(Tail(inbox), s, k)
  BY <1>1, <1>2, <1>3 DEF Queue
<1>6. ASSUME NEW i \in 1..Len(Tail(inbox))
      PROVE  /\ inbox[1].call = inbox[i + 1].call =>
                  /\ ~ (inbox[1].kind = "incoming" /\ inbox[i + 1].kind = "incoming")
                  /\ ~ (inbox[i + 1].kind = "accepted" /\ inbox[1].kind \in Signal \cup {"accepted"})
  BY <1>1, <1>2, <1>3, <1>4, ~ (i + 1 <= 1) DEF Queue
<1>7. inbox[1].kind = "incoming" => Queue(Tail(inbox), s, k \cup {inbox[1].call})
  BY <1>3, <1>5, <1>6 DEF Queue
<1> QED BY <1>3, <1>4, <1>5, <1>6, <1>7

LEMMA QueueAppend ==
  ASSUME NEW q, NEW s, NEW k, q \in Seq(Event), Queue(q, s, k), NEW e \in Event,
         e.kind \in Signal => s[e.call] \in Answered,
         e.kind = "incoming" =>
            e.call \notin k /\ \A i \in 1..Len(q) : q[i].kind = "incoming" => q[i].call # e.call,
         e.kind = "accepted" =>
            \A i \in 1..Len(q) : q[i].kind \in Signal \cup {"accepted"} => q[i].call # e.call
  PROVE  Queue(Append(q, e), s, k)
<1>1. Len(q) \in Nat /\ Len(Append(q, e)) = Len(q) + 1
  OBVIOUS
<1>2. \A i \in 1..Len(q) + 1 : Append(q, e)[i] = IF i = Len(q) + 1 THEN e ELSE q[i]
  BY <1>1
<1> DEFINE r == Append(q, e)
<1>3. \A i \in 1..Len(r) :
        /\ r[i].kind \in Signal => s[r[i].call] \in Answered
        /\ r[i].kind = "incoming" => r[i].call \notin k
  BY <1>1, <1>2 DEF Queue
<1>4. ASSUME NEW i \in 1..Len(r), NEW j \in 1..Len(r),
             r[i].call = r[j].call,
             \/ r[i].kind = "incoming" /\ r[j].kind = "incoming"
             \/ r[i].kind = "accepted" /\ r[j].kind \in Signal \cup {"accepted"}
      PROVE  i <= j
  <2>1. CASE j = Len(q) + 1
    BY <1>1, <2>1
  <2>2. CASE j # Len(q) + 1
    <3>1. j \in 1..Len(q) /\ r[j] = q[j]
      BY <1>1, <1>2, <2>2
    <3>2. i # Len(q) + 1
      BY <1>1, <1>2, <1>4, <3>1
    <3>3. i \in 1..Len(q) /\ r[i] = q[i]
      BY <1>1, <1>2, <3>2
    <3> QED BY <1>4, <3>1, <3>3 DEF Queue
  <2> QED BY <2>1, <2>2
<1> HIDE DEF r
<1>5. Queue(r, s, k)
  BY <1>3, <1>4 DEF Queue
<1> QED BY <1>5 DEF r

\* No connection is opened in another call.
LEMMA OpenedWith ==
  ASSUME NEW s, NEW p, PeersInv(peers, s), GoodPeer(p, s), NEW n \in 1..Len(peers) + 1
  PROVE  Opened(With(n, p)) \subseteq Opened(peers) \cup {p.call}
<1>1. Len(peers) \in Nat /\ peers \in Seq(Connection)
  BY DEF PeersInv
<1>2. CASE n > Len(peers)
  <2>1. With(n, p) = Append(peers, p) /\ Len(Append(peers, p)) = Len(peers) + 1
    BY <1>1, <1>2 DEF With
  <2>2. \A i \in 1..Len(peers) + 1 : Append(peers, p)[i] = IF i = Len(peers) + 1 THEN p ELSE peers[i]
    BY <1>1
  <2> QED BY <1>1, <2>1, <2>2 DEF Opened
<1>3. CASE ~ n > Len(peers)
  <2>1. With(n, p) = [peers EXCEPT ![n] = p] /\ Len([peers EXCEPT ![n] = p]) = Len(peers)
    BY <1>1, <1>3 DEF With
  <2>2. \A i \in 1..Len(peers) : [peers EXCEPT ![n] = p][i] = IF i = n THEN p ELSE peers[i]
    BY <1>1
  <2> QED BY <1>1, <2>1, <2>2 DEF Opened
<1> QED BY <1>2, <1>3

LEMMA OpenedReplace ==
  ASSUME NEW ps \in Seq(Connection), NEW n \in 1..Len(ps), NEW p,
         p.open => ps[n].open /\ p.call = ps[n].call
  PROVE  Opened([ps EXCEPT ![n] = p]) \subseteq Opened(ps)
<1>1. Len([ps EXCEPT ![n] = p]) = Len(ps)
  OBVIOUS
<1>2. \A i \in 1..Len(ps) : [ps EXCEPT ![n] = p][i] = IF i = n THEN p ELSE ps[i]
  OBVIOUS
<1> QED BY <1>1, <1>2 DEF Opened

LEMMA OpenedTeardown ==
  ASSUME NEW ps \in Seq(Connection), peer \in 0..Len(ps), teardown(ps)
  PROVE  Opened(peers') \subseteq Opened(ps)
<1>1. CASE peer = 0
  BY <1>1 DEF teardown
<1>2. CASE peer # 0
  <2>1. peer \in 1..Len(ps) /\ peers' = [ps EXCEPT ![peer] = Closed(ps[peer])]
    BY <1>2 DEF teardown
  <2>2. ~ Closed(ps[peer]).open
    BY DEF Closed, createPeer
  <2> QED BY <2>1, <2>2, OpenedReplace
<1> QED BY <1>1, <1>2

\* No new acceptance, and no acceptance of a call that is being connected.
LEMMA OpenedHeld ==
  ASSUME CallInv, OpenedInv, Forward(srv, srv'), Opened(peers') \subseteq Opened(peers),
         \A i \in 1..Len(inbox') : inbox'[i].kind = "accepted" =>
            \/ \E j \in 1..Len(inbox) : inbox[j] = inbox'[i]
            \/ inbox'[i].call \notin Opened(peers)
  PROVE  OpenedInv'
<1>1. \A c \in Opened(peers') \cap Placed : srv[c] \in Answered /\ Onward(srv[c], srv'[c])
  BY DEF OpenedInv, Forward, Call
<1>2. \A c \in Opened(peers') \cap Placed : srv'[c] \in Answered
  BY <1>1 DEF Onward
<1> QED BY <1>2 DEF OpenedInv

LEMMA KnownHeld ==
  ASSUME KnownInv, known' = known, call' \in {call, NoCall},
         \A c \in Received \ known : media'[c] = media[c] /\ (srv'[c] \in Answered => srv[c] \in Answered),
         \A i \in 1..Len(timers') : timers'[i] \in known,
         phase' = "ringing-out" => phase = "ringing-out" /\ call' = call
  PROVE  KnownInv'
BY DEF KnownInv

\* The server ends a call: it tells of the end alone.
LEMMA EndsQueue ==
  ASSUME CallInv, NEW c \in Call, NEW q, NEW k, InboxInv(q, srv), Queue(q, srv, k), ServerEnds(c, q)
  PROVE  /\ Queue(inbox', srv', k)
         /\ \A i \in 1..Len(inbox') : inbox'[i].kind = "accepted" => \E j \in 1..Len(q) : q[j] = inbox'[i]
         /\ \A d \in Call : srv'[d] \in Answered => srv[d] \in Answered
<1>1. srv' = [srv EXCEPT ![c] = Ended(@)]
  BY DEF ServerEnds
<1>2. \A d \in Call : srv'[d] \in Answered => srv[d] \in Answered
  BY <1>1 DEF CallInv, Server, Ended, Answered
<1>3. Queue(q, srv', k)
  <2>1. Forward(srv, srv')
    BY <1>1 DEF Forward, Onward, CallInv, Server, Ended, Answered, Over
  <2> QED BY <2>1, QueueForward DEF CallInv
<1> DEFINE e == Msg("over", c)
<1>4. e \in Event /\ e.kind = "over"
  BY DEF Event, Msg
<1>5. inbox' = q \/ inbox' = Append(q, e)
  BY DEF ServerEnds
<1> HIDE DEF e
<1>6. q \in Seq(Event)
  BY DEF InboxInv
<1>7. Queue(Append(q, e), srv', k)
  BY <1>3, <1>4, <1>6, QueueAppend DEF Signal
<1>8. Len(q) \in Nat /\ Len(Append(q, e)) = Len(q) + 1
      /\ \A i \in 1..Len(q) + 1 : Append(q, e)[i] = IF i = Len(q) + 1 THEN e ELSE q[i]
  BY <1>6
<1>9. \A i \in 1..Len(inbox') : inbox'[i].kind = "accepted" => \E j \in 1..Len(q) : q[j] = inbox'[i]
  BY <1>4, <1>5, <1>8
<1> QED BY <1>2, <1>3, <1>5, <1>7, <1>9

\* The timer that is set is that of a known call.
LEMMA EndKnown ==
  ASSUME CallInv, KnownInv, EndCall, call # NoCall
  PROVE  \A i \in 1..Len(timers') : timers'[i] \in known
<1>1. timers \in Seq(Call) /\ call \in Call /\ timers' = Append(timers, call)
  BY DEF CallInv, StoreInv, EndCall
<1>2. Len(timers) \in Nat /\ Len(timers') = Len(timers) + 1
      /\ \A i \in 1..Len(timers) + 1 : timers'[i] = IF i = Len(timers) + 1 THEN call ELSE timers[i]
  BY <1>1
<1> QED BY <1>2 DEF KnownInv

\* hangUp, with what a failed connection leaves behind.
LEMMA SignalHangUp ==
  ASSUME CallInv, SignalInv, NEW ps \in Seq(Connection), Len(ps) = Len(peers),
         Opened(ps) \subseteq Opened(peers),
         NEW q, InboxInv(q, srv), Queue(q, srv, known),
         \A i \in 1..Len(q) : q[i].kind = "accepted" => \E j \in 1..Len(inbox) : inbox[j] = q[i],
         hangUp(ps, q), known' = known
  PROVE  SignalInv'
<1>1. OpenedInv /\ KnownInv
  BY DEF SignalInv
<1>2. CASE call = NoCall
  <2>1. UNCHANGED <<call, phase, timers, media, srv>> /\ peers' = ps /\ inbox' = q
    BY <1>2 DEF hangUp, mediaVars, serverVars
  <2>2. Forward(srv, srv')
    BY <2>1 DEF Forward, Onward, CallInv
  <2>3. OpenedInv'
    BY <1>1, <2>1, <2>2, OpenedHeld
  <2>4. KnownInv'
    BY <1>1, <2>1 DEF KnownInv
  <2> QED BY <2>1, <2>3, <2>4 DEF SignalInv
<1>3. CASE call # NoCall
  <2>1. teardown(ps) /\ EndCall /\ ServerEnds(call, q)
    BY <1>3 DEF hangUp
  <2>2. call \in Call /\ peer \in 0..Len(ps)
    BY <1>3 DEF CallInv, StoreInv
  <2>3. Forward(srv, srv')
    BY <2>1, <2>2, ServerEndsKeeps DEF CallInv
  <2>4. /\ Queue(inbox', srv', known)
        /\ \A i \in 1..Len(inbox') : inbox'[i].kind = "accepted" => \E j \in 1..Len(q) : q[j] = inbox'[i]
        /\ \A d \in Call : srv'[d] \in Answered => srv[d] \in Answered
    BY <2>1, <2>2, EndsQueue
  <2>5. Opened(peers') \subseteq Opened(peers)
    BY <2>1, <2>2, OpenedTeardown
  <2>6. \A i \in 1..Len(inbox') : inbox'[i].kind = "accepted" => \E j \in 1..Len(inbox) : inbox[j] = inbox'[i]
    <3> SUFFICES ASSUME NEW i \in 1..Len(inbox'), inbox'[i].kind = "accepted"
                 PROVE  \E j \in 1..Len(inbox) : inbox[j] = inbox'[i]
      OBVIOUS
    <3>1. PICK j \in 1..Len(q) : q[j] = inbox'[i]
      BY <2>4
    <3>2. q[j].kind = "accepted"
      BY <3>1
    <3> QED BY <3>1, <3>2
  <2>7. OpenedInv'
    BY <1>1, <2>3, <2>5, <2>6, OpenedHeld
  <2>8. \A i \in 1..Len(timers') : timers'[i] \in known
    BY <1>1, <1>3, <2>1, EndKnown
  <2>9. KnownInv'
    BY <1>1, <2>1, <2>4, <2>8, KnownHeld DEF EndCall, Call
  <2> QED BY <2>4, <2>7, <2>9 DEF SignalInv
<1> QED BY <1>2, <1>3

LEMMA SignalReject ==
  ASSUME CallInv, SignalInv, reject, known' = known, timers' = timers,
         \A c \in Received \ known : media'[c] = media[c]
  PROVE  SignalInv'
<1>1. OpenedInv /\ KnownInv
  BY DEF SignalInv
<1>2. CASE call = NoCall
  <2>1. UNCHANGED <<call, phase, peers, inbox, srv>>
    BY <1>2 DEF reject, peerVars, serverVars
  <2> QED BY <1>1, <2>1 DEF SignalInv, OpenedInv, KnownInv
<1>3. CASE call # NoCall
  <2>1. ServerEnds(call, inbox) /\ teardown(peers) /\ call' = NoCall /\ phase' = "idle"
    BY <1>3 DEF reject
  <2>2. call \in Call /\ peer \in 0..Len(peers) /\ peers \in Seq(Connection)
    BY <1>3 DEF CallInv, StoreInv, PeersInv
  <2>3. Forward(srv, srv')
    BY <2>1, <2>2, ServerEndsKeeps DEF CallInv
  <2>4. /\ Queue(inbox', srv', known)
        /\ \A i \in 1..Len(inbox') :
             inbox'[i].kind = "accepted" => \E j \in 1..Len(inbox) : inbox[j] = inbox'[i]
        /\ \A d \in Call : srv'[d] \in Answered => srv[d] \in Answered
    BY <2>1, <2>2, EndsQueue DEF CallInv, SignalInv
  <2>5. Opened(peers') \subseteq Opened(peers)
    BY <2>1, <2>2, OpenedTeardown
  <2>6. OpenedInv'
    BY <1>1, <2>3, <2>4, <2>5, OpenedHeld
  <2>7. KnownInv'
    BY <1>1, <2>1, <2>4, KnownHeld DEF KnownInv, Call
  <2> QED BY <2>4, <2>6, <2>7 DEF SignalInv
<1> QED BY <1>2, <1>3

\* Steps that leave the connections, the events and the server alone.
LEMMA SignalSame ==
  ASSUME CallInv, SignalInv, UNCHANGED <<inbox, srv>>, Opened(peers') \subseteq Opened(peers),
         known' = known, KnownInv'
  PROVE  SignalInv'
<1>1. Forward(srv, srv')
  BY DEF Forward, Onward, CallInv
<1>2. OpenedInv'
  BY <1>1, OpenedHeld DEF SignalInv
<1> QED BY <1>2 DEF SignalInv

\* Steps that handle an event, and change nothing at the server.
LEMMA SignalTail ==
  ASSUME CallInv, SignalInv, inbox # <<>>, inbox' = Tail(inbox), srv' = srv, known' = known,
         Opened(peers') \subseteq Opened(peers), KnownInv'
  PROVE  SignalInv'
<1>1. Forward(srv, srv')
  BY DEF Forward, Onward, CallInv
<1>2. /\ Queue(Tail(inbox), srv, known)
      /\ \A i \in 1..Len(Tail(inbox)) :
           Tail(inbox)[i].kind = "accepted" => \E j \in 1..Len(inbox) : inbox[j] = Tail(inbox)[i]
  BY QueueTail DEF CallInv, SignalInv
<1>3. OpenedInv'
  BY <1>1, <1>2, OpenedHeld DEF SignalInv
<1> QED BY <1>2, <1>3 DEF SignalInv

LEMMA SignalStart == ASSUME CallInv, SignalInv, NEW c \in Call, Start(c) PROVE SignalInv'
<1>1. c \in Placed \ known /\ known' = known \cup {c}
      /\ UNCHANGED <<timers, inbox, peers, srv>> /\ call' = c
  BY DEF Start, peerVars, serverVars
<1>2. \A i \in 1..Len(inbox) : inbox[i].kind = "incoming" => inbox[i].call # c
  BY <1>1, CallAssumption DEF CallInv, InboxInv, GoodEvent
<1>3. Queue(inbox', srv', known')
  BY <1>1, <1>2 DEF SignalInv, Queue
<1>4. KnownInv'
  BY <1>1, CallAssumption DEF Start, SignalInv, KnownInv, CallInv, MediaInv
<1> QED BY <1>1, <1>3, <1>4 DEF SignalInv, OpenedInv

LEMMA SignalAccept == ASSUME CallInv, SignalInv, Accept PROVE SignalInv'
<1>1. UNCHANGED <<call, phase, peers, timers, inbox, srv, known>>
  BY DEF Accept, peerVars, serverVars
<1>2. call \in Received /\ call \in known
  BY CallAssumption DEF Accept, CallInv, StoreInv, SignalInv, KnownInv, Call
<1>3. KnownInv'
  BY <1>1, <1>2 DEF Accept, SignalInv, KnownInv, CallInv, MediaInv, Call
<1> QED BY <1>1, <1>3, SignalSame

LEMMA SignalTimer == ASSUME CallInv, SignalInv, ClearTimer PROVE SignalInv'
<1>1. timers # <<>> /\ timers' = Tail(timers) /\ call' = NoCall /\ phase' = "idle"
      /\ UNCHANGED <<media, peers, inbox, srv, known>>
  BY DEF ClearTimer, mediaVars, peerVars, serverVars
<1>2. timers \in Seq(Call) /\ Len(timers) \in Nat /\ Len(timers) # 0
  BY <1>1 DEF CallInv, StoreInv
<1>3. Len(timers') = Len(timers) - 1
      /\ \A i \in 1..Len(timers') : timers'[i] = timers[i + 1] /\ i + 1 \in 1..Len(timers)
  BY <1>1, <1>2
<1>4. KnownInv'
  BY <1>1, <1>3 DEF SignalInv, KnownInv
<1> QED BY <1>1, <1>4, SignalSame

LEMMA SignalInvite ==
  ASSUME CallInv, SignalInv, NEW c \in Call, NEW reached \in BOOLEAN, Invite(c, reached) PROVE SignalInv'
<1>1. c \in Placed /\ media' = [media EXCEPT ![c] = @ - 1]
      /\ UNCHANGED <<call, phase, peers, timers, known>>
  BY DEF Invite, OpenMedia, peerVars
<1>2. Forward(srv, srv')
  <2>1. media[c] > 0 /\ media[c] \in {0, 1}
    BY <1>1 DEF Invite, OpenMedia, CallInv, PlacedOnce
  <2>2. srv[c] = "new"
    BY <1>1, <2>1 DEF CallInv, PlacedOnce
  <2> QED BY <2>2 DEF Invite, Forward, Onward, CallInv, Server, Answered, Over
<1>3. Queue(inbox, srv', known)
  BY <1>2, QueueForward DEF CallInv, SignalInv
<1> DEFINE e == Msg("offline", c)
<1>4. inbox' \in {inbox, Append(inbox, e)} /\ e \in Event /\ e.kind = "offline"
  BY DEF Invite, Msg, Event
<1>5. inbox \in Seq(Event)
  BY DEF CallInv, InboxInv
<1> HIDE DEF e
<1>6. Queue(Append(inbox, e), srv', known)
  BY <1>3, <1>4, <1>5, QueueAppend DEF Signal
<1>7. Len(inbox) \in Nat /\ Len(Append(inbox, e)) = Len(inbox) + 1
      /\ \A i \in 1..Len(inbox) + 1 : Append(inbox, e)[i] = IF i = Len(inbox) + 1 THEN e ELSE inbox[i]
  BY <1>5
<1>8. \A i \in 1..Len(inbox') : inbox'[i].kind = "accepted" => \E j \in 1..Len(inbox) : inbox[j] = inbox'[i]
  BY <1>4, <1>7
<1>9. OpenedInv'
  BY <1>1, <1>2, <1>8, OpenedHeld DEF SignalInv
<1>10. KnownInv'
  BY <1>1, CallAssumption DEF Invite, SignalInv, KnownInv, CallInv, MediaInv, Server, Call
<1> QED BY <1>1, <1>3, <1>4, <1>6, <1>9, <1>10 DEF SignalInv

LEMMA SignalStartDenied == ASSUME CallInv, SignalInv, NEW c \in Call, StartDenied(c) PROVE SignalInv'
<1>1. UNCHANGED <<peers, timers, inbox, srv, known>> /\ call' = NoCall /\ phase' = "idle"
  BY DEF StartDenied, peerVars, serverVars
<1>2. KnownInv'
  BY <1>1, CallAssumption DEF StartDenied, SignalInv, KnownInv, CallInv, MediaInv, Call
<1> QED BY <1>1, <1>2, SignalSame

\* The call whose prompt is answered is a known one.
LEMMA SignalAcceptGranted == ASSUME CallInv, SignalInv, NEW c \in Call, AcceptGranted(c) PROVE SignalInv'
<1>1. /\ c \in Received /\ UNCHANGED <<call, timers, inbox, known>>
      /\ media[c] > 0 /\ media' = [media EXCEPT ![c] = @ - 1]
      /\ srv' = [srv EXCEPT ![c] = IF @ = "ringing" THEN "accepted" ELSE @]
      /\ peers' = With(Place, createPeer(c, NewStream))
  BY DEF AcceptGranted, OpenMedia
<1>2. c \in known
  BY <1>1 DEF SignalInv, KnownInv
<1>3. Forward(srv, srv')
  BY <1>1 DEF Forward, Onward, CallInv, Server, Answered, Over
<1>4. Queue(inbox', srv', known')
  BY <1>1, <1>3, QueueForward DEF CallInv, SignalInv
<1>5. Opened(peers') \subseteq Opened(peers) \cup {c}
  <2>1. NewStream \in Stream
    BY OpenMediaStream DEF AcceptGranted
  <2>2. GoodPeer(createPeer(c, NewStream), srv)
    BY <2>1, CreatedGood
  <2>3. createPeer(c, NewStream).call = c
    BY DEF createPeer
  <2>4. Place \in 1..Len(peers) + 1
    BY PlaceGood DEF CallInv, PeersInv
  <2> QED BY <1>1, <2>2, <2>3, <2>4, OpenedWith DEF CallInv
<1>6. \A i \in 1..Len(inbox) : inbox[i].kind = "accepted" => inbox[i].call # c
  BY <1>1, CallAssumption DEF CallInv, InboxInv, GoodEvent
<1>7. OpenedInv'
  <2>1. \A d \in Opened(peers') \cap Placed : srv[d] \in Answered /\ Onward(srv[d], srv'[d])
    BY <1>1, <1>3, <1>5, CallAssumption DEF SignalInv, OpenedInv, Forward, Call
  <2> QED BY <1>1, <1>5, <1>6, <2>1 DEF SignalInv, OpenedInv, Onward
<1>8. KnownInv'
  BY <1>1, <1>2, CallAssumption DEF AcceptGranted, SignalInv, KnownInv, CallInv, StoreInv, MediaInv,
       Server, Call
<1> QED BY <1>4, <1>7, <1>8 DEF SignalInv

LEMMA SignalDecline == ASSUME CallInv, SignalInv, Decline PROVE SignalInv'
BY SignalReject DEF Decline

LEMMA SignalAcceptDenied == ASSUME CallInv, SignalInv, NEW c \in Call, AcceptDenied(c) PROVE SignalInv'
<1>1. /\ c \in Received /\ UNCHANGED <<timers, known>> /\ reject
      /\ media[c] > 0 /\ media' = [media EXCEPT ![c] = @ - 1]
  BY DEF AcceptDenied
<1>2. c \in known
  BY <1>1 DEF SignalInv, KnownInv
<1>3. \A d \in Received \ known : media'[d] = media[d]
  BY <1>1, <1>2 DEF CallInv, MediaInv, Call
<1> QED BY <1>1, <1>3, SignalReject

LEMMA SignalHangUpAction == ASSUME CallInv, SignalInv, HangUp PROVE SignalInv'
BY SignalHangUp DEF HangUp, CallInv, PeersInv, SignalInv

\* A call is announced once: it becomes known as its event leaves the queue.
LEMMA SignalIncoming == ASSUME CallInv, SignalInv, NEW c \in Call, IncomingCall(c) PROVE SignalInv'
<1>1. /\ inbox # <<>> /\ Head(inbox) = Msg("incoming", c) /\ known' = known \cup {c}
      /\ UNCHANGED <<media, peers, timers>>
  BY DEF IncomingCall, Handles, mediaVars, peerVars
<1>2. Head(inbox).kind = "incoming" /\ Head(inbox).call = c
  BY <1>1 DEF Msg
<1>3. /\ Queue(Tail(inbox), srv, known')
      /\ \A i \in 1..Len(Tail(inbox)) :
           Tail(inbox)[i].kind = "accepted" => \E j \in 1..Len(inbox) : inbox[j] = Tail(inbox)[i]
  BY <1>1, <1>2, QueueTail DEF CallInv, SignalInv
<1>4. InboxInv(Tail(inbox), srv)
  BY <1>1, TailGood DEF CallInv
<1>5. CASE call # NoCall
  <2>1. ServerEnds(c, Tail(inbox)) /\ UNCHANGED <<call, phase>>
    BY <1>5 DEF IncomingCall
  <2>2. /\ Queue(inbox', srv', known')
        /\ \A i \in 1..Len(inbox') :
             inbox'[i].kind = "accepted" => \E j \in 1..Len(Tail(inbox)) : Tail(inbox)[j] = inbox'[i]
        /\ \A d \in Call : srv'[d] \in Answered => srv[d] \in Answered
    BY <1>3, <1>4, <2>1, EndsQueue
  <2>3. \A i \in 1..Len(inbox') : inbox'[i].kind = "accepted" => \E j \in 1..Len(inbox) : inbox[j] = inbox'[i]
    <3> SUFFICES ASSUME NEW i \in 1..Len(inbox'), inbox'[i].kind = "accepted"
                 PROVE  \E j \in 1..Len(inbox) : inbox[j] = inbox'[i]
      OBVIOUS
    <3>1. PICK j \in 1..Len(Tail(inbox)) : Tail(inbox)[j] = inbox'[i]
      BY <2>2
    <3>2. Tail(inbox)[j].kind = "accepted"
      BY <3>1
    <3> QED BY <1>3, <3>1, <3>2
  <2>4. Forward(srv, srv')
    BY <1>4, <2>1, ServerEndsKeeps DEF CallInv
  <2>5. OpenedInv'
    BY <1>1, <2>3, <2>4, OpenedHeld DEF SignalInv
  <2>6. KnownInv'
    BY <1>1, <2>1, <2>2 DEF SignalInv, KnownInv, Call
  <2> QED BY <2>2, <2>5, <2>6 DEF SignalInv
<1>6. CASE call = NoCall
  <2>1. inbox' = Tail(inbox) /\ call' = c /\ phase' = "ringing-in" /\ srv' = srv
    BY <1>6 DEF IncomingCall, serverVars
  <2>2. Forward(srv, srv')
    BY <2>1 DEF Forward, Onward, CallInv
  <2>3. OpenedInv'
    BY <1>1, <1>3, <2>1, <2>2, OpenedHeld DEF SignalInv
  <2>4. KnownInv'
    BY <1>1, <2>1 DEF SignalInv, KnownInv
  <2> QED BY <1>3, <2>1, <2>3, <2>4 DEF SignalInv
<1> QED BY <1>5, <1>6

LEMMA SignalUnreached == ASSUME CallInv, SignalInv, NEW c \in Call, InviteUnreached(c) PROVE SignalInv'
<1>1. inbox # <<>> /\ hangUp(peers, Tail(inbox)) /\ known' = known
  BY DEF InviteUnreached, Handles
<1>2. /\ Queue(Tail(inbox), srv, known)
      /\ \A i \in 1..Len(Tail(inbox)) :
           Tail(inbox)[i].kind = "accepted" => \E j \in 1..Len(inbox) : inbox[j] = Tail(inbox)[i]
  BY <1>1, QueueTail DEF CallInv, SignalInv
<1>3. InboxInv(Tail(inbox), srv) /\ peers \in Seq(Connection)
  BY <1>1, TailGood DEF CallInv, PeersInv
<1> QED BY <1>1, <1>2, <1>3, SignalHangUp

\* A connection in a call whose acceptance, or a signal of which, has been handled.
LEMMA SignalConnected ==
  ASSUME CallInv, SignalInv, NEW c \in Call, inbox # <<>>, inbox' = Tail(inbox),
         Head(inbox).call = c, Head(inbox).kind \in Signal \cup {"accepted"},
         srv[c] \in Answered, Opened(peers') \subseteq Opened(peers) \cup {c},
         UNCHANGED <<srv, call, known, media, timers>>,
         phase' = phase \/ phase' = "connecting"
  PROVE  SignalInv'
<1>1. /\ Queue(Tail(inbox), srv, known)
      /\ \A i \in 1..Len(Tail(inbox)) :
           /\ Tail(inbox)[i].kind = "accepted" => \E j \in 1..Len(inbox) : inbox[j] = Tail(inbox)[i]
           /\ Tail(inbox)[i].kind = "accepted" => Tail(inbox)[i].call # c
  BY QueueTail DEF CallInv, SignalInv
<1>2. OpenedInv'
  BY <1>1 DEF SignalInv, OpenedInv
<1>3. KnownInv'
  BY DEF SignalInv, KnownInv
<1> QED BY <1>1, <1>2, <1>3 DEF SignalInv

LEMMA SignalAccepted == ASSUME CallInv, SignalInv, NEW c \in Call, CallAccepted(c) PROVE SignalInv'
<1>1. /\ inbox # <<>> /\ Head(inbox) = Msg("accepted", c) /\ inbox' = Tail(inbox)
      /\ UNCHANGED <<srv, call, known, media, timers>>
  BY DEF CallAccepted, Handles, mediaVars, serverVars
<1>2. Head(inbox).kind = "accepted" /\ Head(inbox).call = c
  BY <1>1 DEF Msg
<1>3. srv[c] \in Answered
  BY <1>1, <1>2, TailGood DEF CallInv, GoodEvent
<1>4. Opened(peers') \subseteq Opened(peers) \cup {c} /\ (phase' = phase \/ phase' = "connecting")
  <2>1. CASE call = c /\ c \in Placed
    <3> DEFINE p == [createPeer(c, stream) EXCEPT !.doing = {"offer"}]
    <3>1. peers' = With(Place, p) /\ phase' = "connecting"
      BY <2>1 DEF CallAccepted
    <3>2. p.call = c /\ GoodPeer(p, srv)
      BY <1>3, <2>1 DEF createPeer, GoodPeer, Connection, Step, CallInv, MediaInv
    <3>3. Place \in 1..Len(peers) + 1
      BY PlaceGood DEF CallInv, PeersInv
    <3> HIDE DEF p
    <3> QED BY <3>1, <3>2, <3>3, OpenedWith DEF CallInv
  <2>2. CASE ~ (call = c /\ c \in Placed)
    BY <2>2 DEF CallAccepted, peerVars
  <2> QED BY <2>1, <2>2
<1> QED BY <1>1, <1>2, <1>3, <1>4, SignalConnected

LEMMA SignalFinish == ASSUME CallInv, SignalInv, NEW c \in Call, Finish(c) PROVE SignalInv'
<1>1. inbox # <<>> /\ inbox' = Tail(inbox) /\ UNCHANGED <<srv, known>>
  BY DEF Finish, Handles, serverVars
<1>2. CASE call = c
  <2>1. teardown(peers) /\ EndCall /\ call # NoCall
    BY <1>2, CallAssumption DEF Finish
  <2>2. peers \in Seq(Connection) /\ peer \in 0..Len(peers)
    BY DEF CallInv, PeersInv
  <2>3. Opened(peers') \subseteq Opened(peers)
    BY <2>1, <2>2, OpenedTeardown
  <2>4. \A i \in 1..Len(timers') : timers'[i] \in known
    BY <2>1, EndKnown DEF SignalInv
  <2>5. KnownInv'
    BY <1>1, <2>1, <2>4, KnownHeld DEF SignalInv, EndCall
  <2> QED BY <1>1, <2>3, <2>5, SignalTail
<1>3. CASE call # c
  <2>1. UNCHANGED <<call, phase, media, peers, timers>>
    BY <1>3 DEF Finish, mediaVars, peerVars
  <2>2. KnownInv'
    BY <1>1, <2>1 DEF SignalInv, KnownInv
  <2> QED BY <1>1, <2>1, <2>2, SignalTail
<1> QED BY <1>2, <1>3

LEMMA SignalSignal ==
  ASSUME CallInv, SignalInv, NEW c \in Call, NEW k, CallSignal(c, k) PROVE SignalInv'
<1>1. /\ k \in Signal /\ inbox # <<>> /\ Head(inbox) = Msg(k, c) /\ inbox' = Tail(inbox)
      /\ UNCHANGED <<srv, call, phase, known, media, timers>>
  BY DEF CallSignal, Handles, mediaVars, serverVars, Signal
<1>2. Head(inbox).kind = k /\ Head(inbox).call = c
  BY <1>1 DEF Msg
<1>3. srv[c] \in Answered
  <2>1. Head(inbox) = inbox[1] /\ 1 \in 1..Len(inbox)
    BY <1>1 DEF CallInv, InboxInv
  <2> QED BY <1>1, <1>2, <2>1 DEF SignalInv, Queue
<1>4. Opened(peers') \subseteq Opened(peers) \cup {c}
  <2>1. CASE call # c
    BY <2>1 DEF CallSignal, peerVars
  <2>2. CASE call = c /\ peer = 0
    <3>1. peers' = With(Place, Signalling(createPeer(c, stream), k))
      BY <2>2 DEF CallSignal
    <3>2. GoodPeer(createPeer(c, stream), srv) /\ createPeer(c, stream).call = c
      BY CreatedGood DEF CallInv, MediaInv, createPeer
    <3>3. GoodPeer(Signalling(createPeer(c, stream), k), srv)
      BY <1>1, <3>2, SignallingGood DEF Signal
    <3>4. Signalling(createPeer(c, stream), k).call = c
      BY <1>1 DEF Signalling, addIceCandidate, createPeer, Signal
    <3>5. Place \in 1..Len(peers) + 1
      BY PlaceGood DEF CallInv, PeersInv
    <3> QED BY <3>1, <3>3, <3>4, <3>5, OpenedWith DEF CallInv
  <2>3. CASE call = c /\ peer # 0
    <3>1. peers' = With(peer, Signalling(peers[peer], k)) /\ peer \in 1..Len(peers)
      BY <2>3 DEF CallSignal, CallInv, PeersInv
    <3>2. peers' = [peers EXCEPT ![peer] = Signalling(peers[peer], k)] /\ peers \in Seq(Connection)
      BY <3>1 DEF With, CallInv, PeersInv
    <3>3. /\ Signalling(peers[peer], k).open = peers[peer].open
          /\ Signalling(peers[peer], k).call = peers[peer].call
      <4>1. peers[peer] \in Connection
        BY <3>1, <3>2
      <4> QED BY <1>1, <4>1 DEF Signalling, addIceCandidate, Signal, Connection
    <3> QED BY <3>1, <3>2, <3>3, OpenedReplace
  <2> QED BY <2>1, <2>2, <2>3
<1> QED BY <1>1, <1>2, <1>3, <1>4, SignalConnected

LEMMA SignalHandle == ASSUME CallInv, SignalInv, NEW c \in Call, Handle(c) PROVE SignalInv'
<1>1. \A k : CallSignal(c, k) => SignalInv'
  BY SignalSignal
<1> QED BY <1>1, SignalIncoming, SignalUnreached, SignalAccepted, SignalFinish DEF Handle

LEMMA SignalLose == ASSUME CallInv, SignalInv, Lose PROVE SignalInv'
<1>1. inbox # <<>> /\ inbox' = Tail(inbox) /\ UNCHANGED <<srv, known, call, phase, media, peers, timers>>
  BY DEF Lose, mediaVars, peerVars
<1>2. KnownInv'
  BY <1>1 DEF SignalInv, KnownInv
<1> QED BY <1>1, <1>2, SignalTail

\* What a connection's awaits do to it opens nothing.
LEMMA SignalReplace ==
  ASSUME CallInv, NEW n \in 1..Len(peers), NEW p, p.open => peers[n].open, p.call = peers[n].call
  PROVE  /\ Opened([peers EXCEPT ![n] = p]) \subseteq Opened(peers)
         /\ Len([peers EXCEPT ![n] = p]) = Len(peers)
BY OpenedReplace DEF CallInv, PeersInv

LEMMA SignalConnects ==
  ASSUME CallInv, SignalInv, NEW n \in 1..Len(peers), Connects(n) PROVE SignalInv'
<1>1. peers[n] \in Connection /\ peers \in Seq(Connection)
  BY DEF CallInv, PeersInv
<1>2. CASE OfferCreated(n) \/ RemoteStream(n) \/ AnswerSent(n) \/ \E s \in {"setOffer", "setAnswer"} : RemoteSet(n, s)
  <2>1. UNCHANGED <<inbox, srv, known, media, call, timers>> /\ phase' \in {phase, "active"}
    BY <1>2 DEF OfferCreated, RemoteSet, AnswerSent, RemoteStream, mediaVars, serverVars
  <2>2. Opened(peers') \subseteq Opened(peers)
    <3>1. CASE RemoteStream(n)
      BY <3>1 DEF RemoteStream, peerVars
    <3>2. CASE OfferCreated(n)
      <4> DEFINE p == [peers[n] EXCEPT !.doing = @ \ {"offer"}]
      <4>1. peers' = [peers EXCEPT ![n] = p] /\ p.open = peers[n].open /\ p.call = peers[n].call
        BY <1>1, <3>2 DEF OfferCreated, Connection
      <4> HIDE DEF p
      <4> QED BY <4>1, SignalReplace
    <3>3. CASE AnswerSent(n)
      <4> DEFINE p == [peers[n] EXCEPT !.doing = @ \ {"answer"}]
      <4>1. peers' = [peers EXCEPT ![n] = p] /\ p.open = peers[n].open /\ p.call = peers[n].call
        BY <1>1, <3>3 DEF AnswerSent, Connection
      <4> HIDE DEF p
      <4> QED BY <4>1, SignalReplace
    <3>4. ASSUME NEW s \in {"setOffer", "setAnswer"}, RemoteSet(n, s) PROVE Opened(peers') \subseteq Opened(peers)
      <4> DEFINE p == [peers[n] EXCEPT !.remote = TRUE, !.queued = 0,
                   !.doing = (@ \ {s}) \cup (IF s = "setOffer" THEN {"answer"} ELSE {})]
      <4>1. peers' = [peers EXCEPT ![n] = p] /\ p.open = peers[n].open /\ p.call = peers[n].call
        BY <1>1, <3>4 DEF RemoteSet, Connection
      <4> HIDE DEF p
      <4> QED BY <4>1, SignalReplace
    <3> QED BY <1>2, <3>1, <3>2, <3>3, <3>4
  <2>3. KnownInv'
    BY <2>1 DEF SignalInv, KnownInv
  <2> QED BY <2>1, <2>2, <2>3, SignalSame
<1>3. ASSUME NEW s, NegotiationFails(n, s) PROVE SignalInv'
  <2> DEFINE p == [peers[n] EXCEPT !.doing = @ \ {s}]
             ps == [peers EXCEPT ![n] = p]
  <2>1. p \in Connection /\ p.open = peers[n].open /\ p.call = peers[n].call
    BY <1>1 DEF Connection
  <2>2. hangUp(ps, inbox) /\ known' = known
    BY <1>3 DEF NegotiationFails
  <2> HIDE DEF p
  <2>3. ps \in Seq(Connection) /\ Opened(ps) \subseteq Opened(peers) /\ Len(ps) = Len(peers)
    BY <1>1, <2>1, SignalReplace
  <2> HIDE DEF ps
  <2> QED BY <2>2, <2>3, SignalHangUp DEF CallInv, SignalInv
<1>4. CASE ConnectionFails(n)
  <2> DEFINE p == [peers[n] EXCEPT !.failed = TRUE]
             ps == [peers EXCEPT ![n] = p]
  <2>1. p \in Connection /\ p.open = peers[n].open /\ p.call = peers[n].call
    BY <1>1 DEF Connection
  <2>2. hangUp(ps, inbox) /\ known' = known
    BY <1>4 DEF ConnectionFails
  <2> HIDE DEF p
  <2>3. ps \in Seq(Connection) /\ Opened(ps) \subseteq Opened(peers) /\ Len(ps) = Len(peers)
    BY <1>1, <2>1, SignalReplace
  <2> HIDE DEF ps
  <2> QED BY <2>2, <2>3, SignalHangUp DEF CallInv, SignalInv
<1> QED BY <1>2, <1>3, <1>4 DEF Connects

\* The other side rings, answers, leaves and signals in this order.
LEMMA SignalOther == ASSUME CallInv, SignalInv, NEW c \in Call, Other(c), InviteInv PROVE SignalInv'
<1>1. UNCHANGED <<call, phase, media, peers, timers, known>>
  BY DEF Other, mediaVars, peerVars
<1>2. inbox \in Seq(Event) /\ \A i \in 1..Len(inbox) : GoodEvent(inbox[i], srv)
  BY DEF CallInv, InboxInv
<1>3. \A e \in Event : /\ Len(Append(inbox, e)) = Len(inbox) + 1 /\ Len(inbox) \in Nat
                       /\ \A i \in 1..Len(inbox) + 1 :
                            Append(inbox, e)[i] = IF i = Len(inbox) + 1 THEN e ELSE inbox[i]
  BY <1>2
<1>4. Opened(peers') \subseteq Opened(peers)
  BY <1>1
<1>5. CASE Rings(c)
  <2> DEFINE e == Msg("incoming", c)
  <2>1. /\ e \in Event /\ e.kind = "incoming" /\ e.call = c /\ inbox' = Append(inbox, e)
        /\ c \in Received /\ srv[c] = "new" /\ srv' = [srv EXCEPT ![c] = "ringing"]
    BY <1>5 DEF Rings, Event, Msg
  <2> HIDE DEF e
  <2>2. Forward(srv, srv')
    BY <2>1 DEF Forward, Onward, CallInv, Server, Answered, Over
  <2>3. c \notin known
    BY <2>1 DEF InviteInv
  <2>4. \A i \in 1..Len(inbox) : inbox[i].kind = "incoming" => inbox[i].call # c
    BY <1>2, <2>1 DEF GoodEvent
  <2>5. Queue(inbox, srv', known)
    BY <1>2, <2>2, QueueForward DEF CallInv, SignalInv
  <2>6. Queue(inbox', srv', known)
    BY <1>2, <2>1, <2>3, <2>4, <2>5, QueueAppend DEF Signal
  <2>7. OpenedInv'
    BY <1>3, <1>4, <2>1, <2>2, OpenedHeld DEF SignalInv
  <2>8. KnownInv'
    BY <1>1, <2>1 DEF SignalInv, KnownInv, CallInv, Server, Answered, Call
  <2> QED BY <1>1, <2>6, <2>7, <2>8 DEF SignalInv
<1>6. CASE Answers(c)
  <2> DEFINE e == Msg("accepted", c)
  <2>1. /\ e \in Event /\ e.kind = "accepted" /\ e.call = c /\ inbox' = Append(inbox, e)
        /\ c \in Placed /\ srv[c] = "ringing" /\ srv' = [srv EXCEPT ![c] = "accepted"]
    BY <1>6 DEF Answers, Event, Msg
  <2> HIDE DEF e
  <2>2. Forward(srv, srv')
    BY <2>1 DEF Forward, Onward, CallInv, Server, Answered, Over
  <2>3. \A i \in 1..Len(inbox) : inbox[i].kind \in Signal \cup {"accepted"} => inbox[i].call # c
    BY <1>2, <2>1 DEF GoodEvent, SignalInv, Queue, Answered
  <2>4. c \notin Opened(peers)
    BY <2>1 DEF SignalInv, OpenedInv, Answered
  <2>5. Queue(inbox, srv', known)
    BY <1>2, <2>2, QueueForward DEF CallInv, SignalInv
  <2>6. Queue(inbox', srv', known)
    BY <1>2, <2>1, <2>3, <2>5, QueueAppend DEF Signal
  <2>7. OpenedInv'
    BY <1>3, <1>4, <2>1, <2>2, <2>4, OpenedHeld DEF SignalInv
  <2>8. KnownInv'
    BY <1>1, <2>1, CallAssumption DEF SignalInv, KnownInv, CallInv, Server, Call
  <2> QED BY <1>1, <2>6, <2>7, <2>8 DEF SignalInv
<1>7. CASE Leaves(c)
  <2>1. ServerEnds(c, inbox)
    BY <1>7 DEF Leaves
  <2>2. /\ Queue(inbox', srv', known)
        /\ \A i \in 1..Len(inbox') :
             inbox'[i].kind = "accepted" => \E j \in 1..Len(inbox) : inbox[j] = inbox'[i]
        /\ \A d \in Call : srv'[d] \in Answered => srv[d] \in Answered
    BY <2>1, EndsQueue DEF CallInv, SignalInv
  <2>3. Forward(srv, srv')
    BY <2>1, ServerEndsKeeps DEF CallInv
  <2>4. OpenedInv'
    BY <1>4, <2>2, <2>3, OpenedHeld DEF SignalInv
  <2>5. KnownInv'
    BY <1>1, <2>2 DEF SignalInv, KnownInv, Call
  <2> QED BY <1>1, <2>2, <2>4, <2>5 DEF SignalInv
<1>8. ASSUME NEW k \in Signal, Signals(c, k) PROVE SignalInv'
  <2> DEFINE e == Msg(k, c)
  <2>1. /\ e \in Event /\ e.kind = k /\ e.call = c /\ inbox' = Append(inbox, e)
        /\ srv[c] = "accepted" /\ srv' = srv
    BY <1>8 DEF Signals, Event, Msg, Signal
  <2> HIDE DEF e
  <2>2. Queue(inbox', srv', known)
    BY <1>2, <1>8, <2>1, QueueAppend DEF Signal, SignalInv, Answered
  <2>3. Forward(srv, srv')
    BY <2>1 DEF Forward, Onward, CallInv
  <2>4. OpenedInv'
    BY <1>3, <1>4, <1>8, <2>1, <2>3, OpenedHeld DEF SignalInv, Signal
  <2>5. KnownInv'
    BY <1>1, <2>1 DEF SignalInv, KnownInv
  <2> QED BY <1>1, <2>2, <2>4, <2>5 DEF SignalInv
<1> QED BY <1>5, <1>6, <1>7, <1>8 DEF Other, Signal

LEMMA SignalStep == CallInv /\ InviteInv /\ SignalInv /\ [Next]_vars => SignalInv'
<1> SUFFICES ASSUME CallInv, InviteInv, SignalInv, [Next]_vars PROVE SignalInv'
  OBVIOUS
<1>1. CASE UNCHANGED vars
  <2>1. UNCHANGED <<inbox, srv, peers, known, media, call, timers, phase>>
    BY <1>1 DEF vars, mediaVars, peerVars, serverVars
  <2> QED BY <2>1 DEF SignalInv, OpenedInv, KnownInv
<1>2. ASSUME NEW c \in Call, Start(c) \/ Media(c) \/ Handle(c) \/ Other(c) PROVE SignalInv'
  <2>1. CASE Media(c)
    <3>1. \A r \in BOOLEAN : Invite(c, r) => SignalInv'
      BY SignalInvite
    <3> QED BY <2>1, <3>1, SignalStartDenied, SignalAcceptGranted, SignalAcceptDenied DEF Media
  <2> QED BY <1>2, <2>1, SignalStart, SignalHandle, SignalOther
<1>3. ASSUME NEW n \in 1..Len(peers), Connects(n) PROVE SignalInv'
  BY <1>3, SignalConnects
<1> QED BY <1>1, <1>2, <1>3, SignalAccept, SignalDecline, SignalHangUpAction, SignalTimer, SignalLose DEF Next

-----------------------------------------------------------------------------
(* The media and the tones of the call, while nothing outlives its call. *)

Unopened(ps) == \A n \in 1..Len(ps) : ~ ps[n].open

\* MediaFollowsCall, and what it takes for a step to preserve it: a prompt of a
\* placed call is answered while that call rings out, with nothing captured; a
\* received call that is connected has its stream and rings no more; and a timer
\* is pending for the call of the store only once that call has ended.
Follows ==
  /\ phase \in {"idle", "ringing-in", "ended"} => live = {} /\ Unopened(peers)
  /\ live \subseteq {stream}
  /\ \A n \in 1..Len(peers) : peers[n].open => n = peer /\ peers[n].call = call
  /\ tone = "incoming" => phase = "ringing-in"
  /\ tone = "outgoing" => phase = "ringing-out"
  /\ call \in Placed /\ media[call] > 0 =>
       phase \in {"ringing-out", "ended"} /\ live = {} /\ tone = "none"
  /\ call \in Received /\ media[call] > 0 => tone # "incoming"
  /\ call \in Received /\ phase # "ended" /\ (srv[call] \in Answered \/ ~ Unopened(peers)) =>
       stream # 0 /\ phase # "ringing-in"
  /\ \A i \in 1..Len(timers) : timers[i] = call => phase = "ended"

CalmInv == ~ raced => Follows

LEMMA FollowsRest ==
  ASSUME (call' = NoCall /\ phase' = "idle") \/ phase' = "ended", tone' = "none", live' = {},
         Unopened(peers'), timers' \in Seq(Call)
  PROVE  Follows'
<1>1. \A i \in 1..Len(timers') : timers'[i] \in Call
  OBVIOUS
<1> QED BY <1>1, CallAssumption DEF Follows, Unopened, Call

LEMMA TeardownRest ==
  ASSUME CallInv, Follows, NEW ps \in Seq(Connection), Len(ps) = Len(peers), teardown(ps),
         \A n \in 1..Len(ps) : ps[n].open => peers[n].open
  PROVE  tone' = "none" /\ live' = {} /\ Unopened(peers')
<1>1. CASE peer = 0
  <2>1. peers' = ps
    BY <1>1 DEF teardown
  <2>2. Unopened(ps)
    BY <1>1 DEF Follows, Unopened
  <2> QED BY <2>1, <2>2 DEF teardown, Follows
<1>2. CASE peer # 0
  <2>1. peer \in 1..Len(ps) /\ peers' = [ps EXCEPT ![peer] = Closed(ps[peer])]
    BY <1>2 DEF teardown, CallInv
  <2>2. ~ Closed(ps[peer]).open
    BY DEF Closed, createPeer
  <2>3. /\ Len(peers') = Len(ps)
        /\ \A n \in 1..Len(ps) : peers'[n] = IF n = peer THEN Closed(ps[peer]) ELSE ps[n]
    BY <2>1
  <2>4. Unopened(peers')
    BY <2>2, <2>3 DEF Follows, Unopened
  <2> QED BY <2>4 DEF teardown, Follows
<1> QED BY <1>1, <1>2

LEMMA FollowsHangUp ==
  ASSUME CallInv, Follows, call # NoCall, NEW ps \in Seq(Connection), Len(ps) = Len(peers),
         \A n \in 1..Len(ps) : ps[n].open => peers[n].open,
         NEW q, hangUp(ps, q)
  PROVE  Follows'
<1>1. teardown(ps) /\ EndCall
  BY DEF hangUp
<1>2. call \in Call /\ timers \in Seq(Call) /\ timers' = Append(timers, call) /\ phase' = "ended"
  BY <1>1 DEF CallInv, StoreInv, EndCall
<1> QED BY <1>1, <1>2, TeardownRest, FollowsRest

LEMMA FollowsReject ==
  ASSUME CallInv, Follows, call # NoCall, reject, timers' = timers
  PROVE  Follows'
<1>1. teardown(peers) /\ call' = NoCall /\ phase' = "idle"
  BY DEF reject
<1> QED BY <1>1, TeardownRest, FollowsRest DEF CallInv, StoreInv, PeersInv

\* Steps that leave the client alone.
LEMMA FollowsServer ==
  ASSUME Follows, UNCHANGED <<call, phase, tone, stream, live, media, peers, peer, timers>>,
         \A c \in Received : srv'[c] \in Answered => srv[c] \in Answered
  PROVE  Follows'
BY DEF Follows, Unopened

\* Nothing is open for a placed call whose prompt is still to be answered.
LEMMA PlacedAlone ==
  ASSUME CallInv, SignalInv, Follows, call \in Placed, media[call] > 0
  PROVE  Unopened(peers) /\ srv[call] = "new" /\ media[call] = 1
<1>1. srv[call] = "new" /\ media[call] = 1
  BY DEF CallInv, PlacedOnce
<1>2. ASSUME NEW n \in 1..Len(peers), peers[n].open PROVE FALSE
  <2>1. call \in Opened(peers)
    BY <1>2 DEF Opened, Follows
  <2> QED BY <1>1, <2>1 DEF SignalInv, OpenedInv, Answered
<1> QED BY <1>1, <1>2 DEF Unopened

\* The connections after one is put in its place.
LEMMA WithOpen ==
  ASSUME NEW p, peers \in Seq(Connection), NEW m \in 1..Len(peers) + 1
  PROVE  /\ m \in 1..Len(With(m, p)) /\ With(m, p)[m] = p
         /\ \A n \in 1..Len(With(m, p)) :
              n = m \/ (n \in 1..Len(peers) /\ With(m, p)[n] = peers[n])
<1>1. Len(peers) \in Nat
  OBVIOUS
<1>2. CASE m > Len(peers)
  <2>1. m = Len(peers) + 1 /\ With(m, p) = Append(peers, p) /\ Len(Append(peers, p)) = Len(peers) + 1
    BY <1>1, <1>2 DEF With
  <2>2. \A n \in 1..Len(peers) + 1 : Append(peers, p)[n] = IF n = Len(peers) + 1 THEN p ELSE peers[n]
    BY <1>1
  <2> QED BY <1>1, <2>1, <2>2
<1>3. CASE ~ m > Len(peers)
  <2>1. /\ m \in 1..Len(peers) /\ With(m, p) = [peers EXCEPT ![m] = p]
        /\ Len([peers EXCEPT ![m] = p]) = Len(peers)
    BY <1>1, <1>3 DEF With
  <2>2. \A n \in 1..Len(peers) : [peers EXCEPT ![m] = p][n] = IF n = m THEN p ELSE peers[n]
    BY <1>1
  <2> QED BY <1>1, <2>1, <2>2
<1> QED BY <1>2, <1>3

LEMMA CalmStart == ASSUME CallInv, SignalInv, CalmInv, NEW c \in Call, Start(c) PROVE CalmInv'
<1> SUFFICES ASSUME ~ raced' PROVE Follows'
  BY DEF CalmInv
<1>1. /\ c \in Placed \ known /\ call = NoCall /\ call' = c /\ phase' = "ringing-out"
      /\ UNCHANGED <<tone, stream, live, peers, peer, timers, raced>>
  BY DEF Start, peerVars
<1>2. phase = "idle" /\ Follows /\ tone \in {"none", "incoming", "outgoing"}
  BY <1>1 DEF CallInv, StoreInv, CalmInv
<1>3. \A i \in 1..Len(timers) : timers[i] # c
  BY <1>1 DEF SignalInv, KnownInv
<1>4. c \notin Received
  BY <1>1, CallAssumption
<1> QED BY <1>1, <1>2, <1>3, <1>4 DEF Follows, Unopened

LEMMA CalmAccept == ASSUME CallInv, CalmInv, Accept PROVE CalmInv'
<1> SUFFICES ASSUME ~ raced' PROVE Follows'
  BY DEF CalmInv
<1>1. phase = "ringing-in" /\ tone' = "none"
      /\ UNCHANGED <<call, phase, stream, live, peers, peer, timers, srv, raced>>
  BY DEF Accept, peerVars, serverVars
<1>2. Follows /\ call \in Received /\ call \notin Placed
  BY <1>1, CallAssumption DEF CallInv, StoreInv, CalmInv
<1> QED BY <1>1, <1>2 DEF Follows, Unopened

LEMMA CalmInvite ==
  ASSUME CallInv, SignalInv, CalmInv, NEW c \in Call, NEW reached \in BOOLEAN, Invite(c, reached)
  PROVE  CalmInv'
<1> SUFFICES ASSUME ~ raced' PROVE Follows'
  BY DEF CalmInv
<1>1. /\ ~ raced /\ c \in Placed /\ call = c /\ phase # "ended" /\ stream = 0 /\ media[c] > 0
      /\ media' = [media EXCEPT ![c] = @ - 1]
      /\ stream' = NewStream /\ live' = live \cup {NewStream} /\ tone' = "outgoing"
      /\ UNCHANGED <<call, phase, peers, peer, timers>>
  BY DEF Invite, OpenMedia, Overtaken, peerVars
<1>2. Follows /\ c \notin Received
  BY <1>1, CallAssumption DEF CalmInv
<1>3. Unopened(peers) /\ media[c] = 1
  BY <1>1, <1>2, PlacedAlone
<1>4. phase = "ringing-out" /\ live = {}
  BY <1>1, <1>2 DEF Follows
<1>5. media'[c] = 0
  BY <1>1, <1>3 DEF CallInv, MediaInv
<1> QED BY <1>1, <1>2, <1>3, <1>4, <1>5 DEF Follows, Unopened

LEMMA CalmStartDenied ==
  ASSUME CallInv, SignalInv, CalmInv, NEW c \in Call, StartDenied(c) PROVE CalmInv'
<1> SUFFICES ASSUME ~ raced' PROVE Follows'
  BY DEF CalmInv
<1>1. /\ ~ raced /\ c \in Placed /\ call = c /\ media[c] > 0 /\ call' = NoCall /\ phase' = "idle"
      /\ UNCHANGED <<tone, live, peers, timers>>
  BY DEF StartDenied, Overtaken, peerVars
<1>2. Follows
  BY <1>1 DEF CalmInv
<1>3. Unopened(peers) /\ live = {} /\ tone = "none"
  BY <1>1, <1>2, PlacedAlone DEF Follows
<1> QED BY <1>1, <1>3, FollowsRest DEF CallInv, StoreInv

\* The wait was for the call of the store, which has no stream: it is not
\* connected yet, and its dialog has silenced the tone.
LEMMA CalmAcceptGranted ==
  ASSUME CallInv, SignalInv, CalmInv, NEW c \in Call, AcceptGranted(c) PROVE CalmInv'
<1> SUFFICES ASSUME ~ raced' PROVE Follows'
  BY DEF CalmInv
<1> DEFINE p == createPeer(c, NewStream)
<1>1. /\ ~ raced /\ c \in Received /\ call = c /\ phase # "ended" /\ stream = 0 /\ media[c] > 0
      /\ stream' = NewStream /\ live' = live \cup {NewStream}
      /\ UNCHANGED <<call, tone, timers>>
      /\ peers' = With(Place, p) /\ peer' = Place
  BY DEF AcceptGranted, OpenMedia, Overtaken
<1>2. phase' = "connecting" /\ p.call = c
  BY <1>1, CallAssumption DEF AcceptGranted, createPeer
<1> HIDE DEF p
<1>3. Follows /\ c \notin Placed
  BY <1>1, CallAssumption DEF CalmInv
<1>4. Unopened(peers)
  BY <1>1, <1>3 DEF Follows
<1>5. live = {}
  BY <1>1, <1>3, StreamAssumption DEF Follows, CallInv, MediaInv
<1>6. tone = "none"
  BY <1>1, <1>3 DEF Follows, CallInv, StoreInv, SignalInv, KnownInv
<1>7. NewStream # 0
  BY OpenMediaStream, StreamAssumption DEF AcceptGranted
<1>8. \A i \in 1..Len(timers) : timers[i] # call
  BY <1>1, <1>3 DEF Follows
<1>9. Place \in 1..Len(peers) + 1 /\ peers \in Seq(Connection)
  BY PlaceGood DEF CallInv, PeersInv
<1>10. \A n \in 1..Len(peers') : peers'[n].open => n = peer' /\ peers'[n].call = c
  BY <1>1, <1>2, <1>4, <1>9, WithOpen DEF Unopened
<1> QED BY <1>1, <1>2, <1>3, <1>5, <1>6, <1>7, <1>8, <1>10 DEF Follows

LEMMA CalmAcceptDenied == ASSUME CallInv, CalmInv, NEW c \in Call, AcceptDenied(c) PROVE CalmInv'
BY FollowsReject, CallAssumption DEF AcceptDenied, CalmInv, Overtaken

LEMMA CalmDecline == ASSUME CallInv, CalmInv, Decline PROVE CalmInv'
<1>1. call # NoCall /\ reject /\ UNCHANGED <<timers, raced>>
  BY DEF Decline, CallInv, StoreInv
<1> QED BY <1>1, FollowsReject DEF CalmInv

LEMMA CalmHangUp == ASSUME CallInv, CalmInv, HangUp PROVE CalmInv'
<1>1. call # NoCall /\ hangUp(peers, inbox) /\ raced' = raced /\ peers \in Seq(Connection)
  BY DEF HangUp, CallInv, StoreInv, PeersInv
<1> QED BY <1>1, FollowsHangUp DEF CalmInv

LEMMA CalmTimer == ASSUME CallInv, CalmInv, ClearTimer PROVE CalmInv'
<1> SUFFICES ASSUME ~ raced' PROVE Follows'
  BY DEF CalmInv
<1>1. /\ ~ raced /\ call \in {NoCall, Head(timers)} /\ timers # <<>> /\ timers' = Tail(timers)
      /\ call' = NoCall /\ phase' = "idle" /\ UNCHANGED <<tone, live, peers>>
  BY DEF ClearTimer, mediaVars, peerVars
<1>2. Follows /\ timers \in Seq(Call) /\ tone \in {"none", "incoming", "outgoing"}
  BY <1>1 DEF CalmInv, CallInv, StoreInv
<1>3. Head(timers) = timers[1] /\ 1 \in 1..Len(timers) /\ timers' \in Seq(Call)
  BY <1>1, <1>2
<1>4. phase \in {"idle", "ended"}
  BY <1>1, <1>2, <1>3 DEF Follows, CallInv, StoreInv
<1>5. live = {} /\ Unopened(peers) /\ tone = "none"
  BY <1>2, <1>4 DEF Follows
<1> QED BY <1>1, <1>3, <1>5, FollowsRest

\* A call that is announced was not known: none of what this client keeps is its.
LEMMA CalmIncoming == ASSUME CallInv, SignalInv, CalmInv, NEW c \in Call, IncomingCall(c) PROVE CalmInv'
<1> SUFFICES ASSUME ~ raced' PROVE Follows'
  BY DEF CalmInv
<1>1. /\ inbox # <<>> /\ Head(inbox) = Msg("incoming", c) /\ ~ raced
      /\ UNCHANGED <<stream, live, media, peers, peer, timers>>
  BY DEF IncomingCall, Handles, mediaVars, peerVars
<1>2. Follows /\ InboxInv(Tail(inbox), srv) /\ GoodEvent(Head(inbox), srv)
  BY <1>1, TailGood DEF CalmInv, CallInv
<1>3. CASE call # NoCall
  <2>1. ServerEnds(c, Tail(inbox)) /\ UNCHANGED <<call, phase, tone>>
    BY <1>3 DEF IncomingCall
  <2>2. Queue(Tail(inbox), srv, known)
    BY <1>1, QueueTail DEF CallInv, SignalInv
  <2>3. \A d \in Call : srv'[d] \in Answered => srv[d] \in Answered
    BY <1>2, <2>1, <2>2, EndsQueue
  <2> QED BY <1>1, <1>2, <2>1, <2>3, FollowsServer DEF Call
<1>4. CASE call = NoCall
  <2>1. call' = c /\ phase' = "ringing-in" /\ tone' = "incoming" /\ srv' = srv
    BY <1>4 DEF IncomingCall, serverVars
  <2>2. c \in Received /\ c \notin Placed
    BY <1>1, <1>2, CallAssumption DEF GoodEvent, Msg
  <2>3. c \notin known
    <3>1. Head(inbox) = inbox[1] /\ 1 \in 1..Len(inbox)
      BY <1>1 DEF CallInv, InboxInv
    <3>2. Head(inbox).kind = "incoming" /\ Head(inbox).call = c
      BY <1>1 DEF Msg
    <3> QED BY <3>1, <3>2 DEF SignalInv, Queue
  <2>4. /\ media[c] = 0 /\ srv[c] \notin Answered
        /\ \A i \in 1..Len(timers) : timers[i] # c
    BY <2>2, <2>3 DEF SignalInv, KnownInv
  <2>5. live = {} /\ Unopened(peers)
    BY <1>2, <1>4 DEF Follows, CallInv, StoreInv
  <2> QED BY <1>1, <2>1, <2>2, <2>4, <2>5 DEF Follows, Unopened
<1> QED BY <1>3, <1>4

LEMMA CalmUnreached == ASSUME CallInv, CalmInv, NEW c \in Call, InviteUnreached(c) PROVE CalmInv'
<1> SUFFICES ASSUME ~ raced' PROVE Follows'
  BY DEF CalmInv
<1>1. hangUp(peers, Tail(inbox)) /\ ~ raced /\ call # NoCall /\ peers \in Seq(Connection)
  BY CallAssumption DEF InviteUnreached, Overtaken, CallInv, PeersInv
<1> QED BY <1>1, FollowsHangUp DEF CalmInv

\* What is put in its place is the one open connection, and that of the call.
LEMMA FollowsConnected ==
  ASSUME CallInv, Follows, NEW c \in Call, call = c, srv[c] \in Answered, phase # "ended",
         NEW at \in 1..Len(peers) + 1, NEW p, p.open => p.call = c,
         \A n \in 1..Len(peers) : n # at => ~ peers[n].open,
         peers' = With(at, p), peer' = at,
         UNCHANGED <<call, stream, live, media, timers, srv>>,
         \/ phase' = "connecting" /\ tone' = "none"
         \/ phase' = phase /\ tone' = tone /\ phase # "ringing-in"
  PROVE  Follows'
<1>1. peers \in Seq(Connection)
  BY DEF CallInv, PeersInv
<1>2. \A n \in 1..Len(peers') : peers'[n].open => n = peer' /\ peers'[n].call = c
  BY <1>1, WithOpen
<1>3. call \in Placed => media[call] = 0
  BY DEF CallInv, PlacedOnce, Answered
<1>4. \A i \in 1..Len(timers) : timers[i] # call
  BY DEF Follows
<1>5. phase \notin {"idle", "ended"}
  BY CallAssumption DEF CallInv, StoreInv
<1>6. call \in Received => stream # 0
  BY DEF Follows
<1> QED BY <1>2, <1>3, <1>4, <1>5, <1>6 DEF Follows

LEMMA CalmAccepted == ASSUME CallInv, SignalInv, CalmInv, NEW c \in Call, CallAccepted(c) PROVE CalmInv'
<1> SUFFICES ASSUME ~ raced' PROVE Follows'
  BY DEF CalmInv
<1>1. /\ inbox # <<>> /\ Head(inbox) = Msg("accepted", c)
      /\ UNCHANGED <<call, stream, live, media, timers, srv>>
  BY DEF CallAccepted, Handles, mediaVars, serverVars
<1>2. CASE call = c /\ c \in Placed
  <2> DEFINE p == [createPeer(c, stream) EXCEPT !.doing = {"offer"}]
  <2>1. /\ peers' = With(Place, p) /\ peer' = Place /\ phase' = "connecting" /\ tone' = "none"
        /\ ~ raced /\ phase # "ended" /\ p.call = c
    BY <1>2 DEF CallAccepted, createPeer
  <2> HIDE DEF p
  <2>2. Follows /\ Place \in 1..Len(peers) + 1
    BY <2>1, PlaceGood DEF CalmInv, CallInv, PeersInv
  <2>3. Head(inbox) = inbox[1] /\ 1 \in 1..Len(inbox)
    BY <1>1 DEF CallInv, InboxInv
  <2>4. inbox[1].kind = "accepted" /\ inbox[1].call = c
    BY <1>1, <2>3 DEF Msg
  <2>5. srv[c] \in Answered
    BY <2>3, <2>4 DEF CallInv, InboxInv, GoodEvent
  <2>6. c \notin Opened(peers)
    BY <2>3, <2>4 DEF SignalInv, OpenedInv
  <2>7. \A n \in 1..Len(peers) : ~ peers[n].open
    BY <1>2, <2>2, <2>6 DEF Follows, Opened
  <2> QED BY <1>1, <1>2, <2>1, <2>2, <2>5, <2>7, FollowsConnected
<1>3. CASE ~ (call = c /\ c \in Placed)
  <2>1. UNCHANGED <<tone, phase, peers, peer, raced>>
    BY <1>3 DEF CallAccepted, peerVars
  <2> QED BY <1>1, <2>1, FollowsServer DEF CalmInv
<1> QED BY <1>2, <1>3

LEMMA CalmFinish == ASSUME CallInv, CalmInv, NEW c \in Call, Finish(c) PROVE CalmInv'
<1> SUFFICES ASSUME ~ raced' PROVE Follows'
  BY DEF CalmInv
<1>1. Follows /\ srv' = srv /\ peers \in Seq(Connection)
  BY DEF Finish, serverVars, CalmInv, CallInv, PeersInv
<1>2. CASE call = c
  <2>1. teardown(peers) /\ EndCall
    BY <1>2 DEF Finish
  <2>2. timers \in Seq(Call) /\ timers' = Append(timers, call) /\ phase' = "ended"
    BY <2>1 DEF CallInv, StoreInv, EndCall
  <2> QED BY <1>1, <1>2, <2>1, <2>2, TeardownRest, FollowsRest
<1>3. CASE call # c
  BY <1>1, <1>3, FollowsServer DEF Finish, mediaVars, peerVars
<1> QED BY <1>2, <1>3

\* A signal finds the call connected, or connects it.
LEMMA CalmSignal ==
  ASSUME CallInv, SignalInv, CalmInv, NEW c \in Call, NEW k, CallSignal(c, k) PROVE CalmInv'
<1> SUFFICES ASSUME ~ raced' PROVE Follows'
  BY DEF CalmInv
<1>1. /\ k \in Signal /\ inbox # <<>> /\ Head(inbox) = Msg(k, c)
      /\ UNCHANGED <<srv, call, phase, tone, stream, live, media, timers>>
  BY DEF CallSignal, Handles, mediaVars, serverVars, Signal
<1>2. CASE call # c
  BY <1>1, <1>2, FollowsServer DEF CallSignal, peerVars, CalmInv
<1>3. CASE call = c
  <2>1. ~ raced /\ phase # "ended"
    BY <1>3 DEF CallSignal
  <2>2. Follows /\ peers \in Seq(Connection) /\ peer \in 0..Len(peers)
    BY <2>1 DEF CalmInv, CallInv, PeersInv
  <2>3. srv[c] \in Answered
    <3>1. Head(inbox) = inbox[1] /\ 1 \in 1..Len(inbox)
      BY <1>1 DEF CallInv, InboxInv
    <3>2. Head(inbox).kind = k /\ Head(inbox).call = c
      BY <1>1 DEF Msg
    <3> QED BY <1>1, <3>1, <3>2 DEF SignalInv, Queue
  <2>4. phase # "ringing-in"
    BY <1>3, <2>1, <2>2, <2>3 DEF Follows, CallInv, StoreInv
  <2> DEFINE at == IF peer = 0 THEN Place ELSE peer
             was == IF peer = 0 THEN createPeer(c, stream) ELSE peers[peer]
             p == Signalling(was, k)
  <2>5. peer' = at /\ peers' = With(at, p)
    BY <1>3 DEF CallSignal
  <2>6. at \in 1..Len(peers) + 1 /\ \A n \in 1..Len(peers) : n # at => ~ peers[n].open
    <3>1. Place \in 1..Len(peers) + 1
      BY <2>2, PlaceGood
    <3> QED BY <2>2, <3>1 DEF Follows
  <2>7. p.open => p.call = c
    <3>1. was \in Connection
      <4>1. createPeer(c, stream) \in Connection
        BY DEF createPeer, Connection, Step, CallInv, MediaInv
      <4> QED BY <2>2, <4>1
    <3>2. was.open => was.call = c
      BY <1>3, <2>2 DEF createPeer, Follows
    <3> HIDE DEF was
    <3>3. p.open = was.open /\ p.call = was.call
      BY <1>1, <3>1 DEF Signalling, addIceCandidate, Signal, Connection
    <3> QED BY <3>2, <3>3
  <2> HIDE DEF at, p
  <2> QED BY <1>1, <1>3, <2>1, <2>2, <2>3, <2>4, <2>5, <2>6, <2>7, FollowsConnected
<1> QED BY <1>2, <1>3

LEMMA CalmHandle == ASSUME CallInv, SignalInv, CalmInv, NEW c \in Call, Handle(c) PROVE CalmInv'
<1>1. \A k : CallSignal(c, k) => CalmInv'
  BY CalmSignal
<1> QED BY <1>1, CalmIncoming, CalmUnreached, CalmAccepted, CalmFinish DEF Handle

LEMMA CalmConnects ==
  ASSUME CallInv, SignalInv, CalmInv, NEW n \in 1..Len(peers), Connects(n) PROVE CalmInv'
<1> SUFFICES ASSUME ~ raced' PROVE Follows'
  BY DEF CalmInv
<1>1. peers[n] \in Connection /\ peers \in Seq(Connection)
  BY DEF CallInv, PeersInv
<1>2. ~ raced /\ Follows
  <2>1. ASSUME NEW s, RemoteSet(n, s) \/ NegotiationFails(n, s) PROVE ~ raced
    BY <2>1 DEF RemoteSet, NegotiationFails
  <2>2. OfferCreated(n) \/ AnswerSent(n) \/ RemoteStream(n) \/ ConnectionFails(n) => ~ raced
    BY DEF OfferCreated, AnswerSent, RemoteStream, ConnectionFails
  <2> QED BY <2>1, <2>2 DEF Connects, CalmInv
<1> DEFINE Same(p) == p.open = peers[n].open /\ p.call = peers[n].call
<1>3. ASSUME NEW p, Same(p), peers' = [peers EXCEPT ![n] = p],
             UNCHANGED <<call, phase, tone, stream, live, media, peer, timers, srv>>
      PROVE  Follows'
  <2>1. Len(peers') = Len(peers) /\ \A i \in 1..Len(peers) : peers'[i] = IF i = n THEN p ELSE peers[i]
    BY <1>1, <1>3
  <2>2. \A i \in 1..Len(peers) : peers'[i].open = peers[i].open /\ peers'[i].call = peers[i].call
    BY <1>3, <2>1
  <2>3. Unopened(peers') <=> Unopened(peers)
    BY <2>1, <2>2 DEF Unopened
  <2> QED BY <1>2, <1>3, <2>1, <2>2, <2>3 DEF Follows
<1>4. ASSUME NEW p \in Connection, Same(p), hangUp([peers EXCEPT ![n] = p], inbox),
             ~ Overtaken(peers[n].call)
      PROVE  Follows'
  <2> DEFINE ps == [peers EXCEPT ![n] = p]
  <2>1. ps \in Seq(Connection) /\ Len(ps) = Len(peers)
        /\ \A i \in 1..Len(peers) : ps[i] = IF i = n THEN p ELSE peers[i]
    BY <1>1, <1>4
  <2>2. \A i \in 1..Len(ps) : ps[i].open => peers[i].open
    BY <1>4, <2>1
  <2>3. hangUp(ps, inbox)
    BY <1>4
  <2>4. call # NoCall
    BY <1>1, <1>4, CallAssumption DEF Overtaken, Connection
  <2> HIDE DEF ps
  <2> QED BY <1>2, <2>1, <2>2, <2>3, <2>4, FollowsHangUp
<1>5. CASE OfferCreated(n)
  <2> DEFINE p == [peers[n] EXCEPT !.doing = @ \ {"offer"}]
  <2>1. Same(p) /\ peers' = [peers EXCEPT ![n] = p]
    BY <1>1, <1>5 DEF OfferCreated, Connection
  <2> HIDE DEF p
  <2> QED BY <1>3, <1>5, <2>1 DEF OfferCreated, mediaVars, serverVars
<1>6. ASSUME NEW s \in {"setOffer", "setAnswer"}, RemoteSet(n, s) PROVE Follows'
  <2> DEFINE p == [peers[n] EXCEPT !.remote = TRUE, !.queued = 0,
                                   !.doing = (@ \ {s}) \cup (IF s = "setOffer" THEN {"answer"} ELSE {})]
  <2>1. Same(p) /\ peers' = [peers EXCEPT ![n] = p]
    BY <1>1, <1>6 DEF RemoteSet, Connection
  <2> HIDE DEF p
  <2> QED BY <1>3, <1>6, <2>1 DEF RemoteSet, mediaVars, serverVars
<1>7. CASE AnswerSent(n)
  <2> DEFINE p == [peers[n] EXCEPT !.doing = @ \ {"answer"}]
  <2>1. Same(p) /\ peers' = [peers EXCEPT ![n] = p]
    BY <1>1, <1>7 DEF AnswerSent, Connection
  <2> HIDE DEF p
  <2> QED BY <1>3, <1>7, <2>1 DEF AnswerSent, mediaVars, serverVars
<1>8. ASSUME NEW s, NegotiationFails(n, s) PROVE Follows'
  <2> DEFINE p == [peers[n] EXCEPT !.doing = @ \ {s}]
  <2>1. p \in Connection /\ Same(p) /\ hangUp([peers EXCEPT ![n] = p], inbox) /\ ~ Overtaken(peers[n].call)
    BY <1>1, <1>8 DEF NegotiationFails, Connection
  <2> HIDE DEF p
  <2> QED BY <1>4, <2>1
<1>9. CASE ConnectionFails(n)
  <2> DEFINE p == [peers[n] EXCEPT !.failed = TRUE]
  <2>1. p \in Connection /\ Same(p) /\ hangUp([peers EXCEPT ![n] = p], inbox) /\ ~ Overtaken(peers[n].call)
    BY <1>1, <1>9 DEF ConnectionFails, Connection
  <2> HIDE DEF p
  <2> QED BY <1>4, <2>1
<1>10. CASE RemoteStream(n)
  <2>1. peers[n].open /\ tone' = "none"
        /\ UNCHANGED <<call, stream, live, media, peers, peer, timers, srv>>
    BY <1>10 DEF RemoteStream, mediaVars, peerVars, serverVars
  <2>2. call = peers[n].call /\ phase' = "active" /\ phase # "ended" /\ ~ Unopened(peers)
    BY <1>1, <1>2, <1>10, <2>1, CallAssumption DEF RemoteStream, Follows, Unopened, Connection
  <2>3. call \in Placed => media[call] = 0
    <3>1. call \in Opened(peers)
      BY <2>1, <2>2 DEF Opened
    <3>2. call \in Placed => srv[call] \in Answered
      BY <3>1 DEF SignalInv, OpenedInv
    <3> QED BY <3>2 DEF CallInv, PlacedOnce, Answered
  <2> QED BY <1>2, <2>1, <2>2, <2>3 DEF Follows
<1> HIDE DEF Same
<1> QED BY <1>5, <1>6, <1>7, <1>8, <1>9, <1>10 DEF Connects

LEMMA CalmOther == ASSUME CallInv, SignalInv, CalmInv, NEW c \in Call, Other(c) PROVE CalmInv'
<1>1. UNCHANGED <<call, phase, tone, stream, live, media, peers, peer, timers, raced>>
  BY DEF Other, mediaVars, peerVars
<1>2. CASE Leaves(c)
  BY <1>1, <1>2, EndsQueue, FollowsServer DEF Leaves, CalmInv, CallInv, SignalInv, Call
<1>3. CASE ~ Leaves(c)
  <2>1. \A d \in Received : srv'[d] \in Answered => srv[d] \in Answered
    BY <1>3, CallAssumption DEF Other, Rings, Answers, Signals, CallInv, Server, Answered, Call
  <2> QED BY <1>1, <2>1, FollowsServer DEF CalmInv
<1> QED BY <1>2, <1>3

LEMMA CalmStep == CallInv /\ SignalInv /\ CalmInv /\ [Next]_vars => CalmInv'
<1> SUFFICES ASSUME CallInv, SignalInv, CalmInv, [Next]_vars PROVE CalmInv'
  OBVIOUS
<1>1. CASE UNCHANGED vars
  BY <1>1, FollowsServer DEF vars, mediaVars, peerVars, serverVars, CalmInv
<1>2. ASSUME NEW c \in Call, Start(c) \/ Media(c) \/ Handle(c) \/ Other(c) PROVE CalmInv'
  <2>1. CASE Media(c)
    <3>1. \A r \in BOOLEAN : Invite(c, r) => CalmInv'
      BY CalmInvite
    <3> QED BY <2>1, <3>1, CalmStartDenied, CalmAcceptGranted, CalmAcceptDenied DEF Media
  <2> QED BY <1>2, <2>1, CalmStart, CalmHandle, CalmOther
<1>3. ASSUME NEW n \in 1..Len(peers), Connects(n) PROVE CalmInv'
  BY <1>3, CalmConnects
<1>4. CASE Lose
  BY <1>4, FollowsServer DEF Lose, mediaVars, peerVars, CalmInv
<1> QED BY <1>1, <1>2, <1>3, <1>4, CalmAccept, CalmDecline, CalmHangUp, CalmTimer DEF Next

\* What the client keeps of the calls agrees with what the server has sent and
\* has still to hear: an acceptance comes before the signals of its call, and a
\* connection belongs to an accepted call.
THEOREM SignalCorrect == Spec => []SignalInv
<1>1. Init => InviteInv
  BY CallAssumption DEF Init, InviteInv, InviteKept, TimersOver, Call
<1>2. Init => SignalInv
  BY CallAssumption DEF Init, SignalInv, Queue, OpenedInv, Opened, KnownInv, Answered, Call
<1>3. CallInv /\ InviteInv /\ [Next]_vars => InviteInv'
  BY InviteStep
<1>4. CallInv /\ InviteInv /\ SignalInv /\ [Next]_vars => SignalInv'
  BY SignalStep
<1> QED BY <1>1, <1>2, <1>3, <1>4, CallCorrect, PTL DEF Spec

\* While nothing outlives its call the microphone, the connections and the tones
\* stop with it, whichever way it ends, for any calls, prompts and connections.
THEOREM MediaCorrect == Spec => []MediaFollowsCall
<1>1. Init => CalmInv
  BY CallAssumption DEF Init, CalmInv, Follows, Unopened, Call
<1>2. CallInv /\ SignalInv /\ CalmInv /\ [Next]_vars => CalmInv'
  BY CalmStep
<1>3. CalmInv => MediaFollowsCall
  BY DEF CalmInv, Follows, Unopened, MediaFollowsCall
<1> QED BY <1>1, <1>2, <1>3, CallCorrect, SignalCorrect, PTL DEF Spec

=============================================================================
