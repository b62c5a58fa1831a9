----------------------------- MODULE DesktopCalls -----------------------------
(***************************************************************************)
(* The call engine of the desktop client: one module singleton that holds  *)
(* at most one call, one peer connection and one local stream, and every   *)
(* handler of which may be overtaken while it awaits the microphone or the *)
(* connection.                                                             *)
(*                                                                         *)
(* The server and the other side are external: the server is taken to      *)
(* handle a frame as it is sent, which loses nothing, because its events   *)
(* wait in inbox for as long as they like.  A call has two participants,   *)
(* and this user has one device.                                           *)
(***************************************************************************)
EXTENDS Naturals, Sequences

CONSTANTS
  Placed,      \* calls this user may place
  Received,    \* calls others may place to this user
  NoCall,
  Stream,      \* bound: streams in use at once; 0 is none of them
  MaxIce,      \* bound: candidates the other side sends in one call
  MaxTimers,   \* bound: timers pending when the user hangs up
  MaxMedia     \* bound: openMedia awaited at once for one call

Call == Placed \cup Received

ASSUME CallAssumption == Placed \cap Received = {} /\ NoCall \notin Call
ASSUME StreamAssumption == 0 \notin Stream
ASSUME BoundAssumption == MaxIce \in Nat /\ MaxTimers \in Nat /\ MaxMedia \in Nat

VARIABLES
  call,      \* useCallStore's call, NoCall for null
  phase,     \* its phase
  tone,      \* the tone that plays
  stream,    \* localStream, 0 for null
  live,      \* streams that capture
  media,     \* media[c]: openMedia awaited by start or accept for call c
  peers,     \* the peer connections: closed ones with nothing awaited are forgotten
  peer,      \* index of the current one, 0 for null
  timers,    \* the calls whose end has set a timer that clears the store
  inbox,     \* events on their way from the server
  srv,       \* srv[c]: the call at the server
  signals,   \* signals[c]: what the other side has sent in call c
  offered,   \* calls this client has sent an offer in
  known,     \* calls this client has started, or has had the incoming_call of
  lost,      \* history: an event was lost while the socket was down
  raced      \* history: an await, a timer or an event has outlived the call it was for

mediaVars == <<stream, live, media>>
peerVars == <<peers, peer>>
serverVars == <<srv, signals, lost>>
vars == <<call, phase, tone, mediaVars, peerVars, timers, inbox, serverVars,
          offered, known, raced>>

Phase == {"idle", "ringing-out", "ringing-in", "connecting", "active", "ended"}
Step == {"offer", "setOffer", "answer", "setAnswer"}
Connection == [call: Call, stream: Stream \cup {0}, remote: BOOLEAN, queued: Nat, doing: SUBSET Step,
               open: BOOLEAN, failed: BOOLEAN]
Event == [kind: {"incoming", "offline", "accepted", "over", "offer", "answer", "ice"}, call: Call]
Signalled == [offer: BOOLEAN, answer: BOOLEAN, ice: 0..MaxIce]

TypeOK ==
  /\ call \in Call \cup {NoCall}
  /\ phase \in Phase
  /\ (call = NoCall) <=> (phase = "idle")
  /\ tone \in {"none", "incoming", "outgoing"}
  /\ stream \in Stream \cup {0}
  /\ live \subseteq Stream
  /\ media \in [Call -> Nat]
  /\ peers \in Seq(Connection)
  /\ peer \in 0..Len(peers)
  /\ timers \in Seq(Call)
  /\ inbox \in Seq(Event)
  /\ srv \in [Call -> {"new", "ringing", "accepted", "over", "missed"}]
  /\ signals \in [Call -> Signalled]
  /\ offered \subseteq Placed
  /\ known \subseteq Call
  /\ lost \in BOOLEAN
  /\ raced \in BOOLEAN

Init ==
  /\ call = NoCall
  /\ phase = "idle"
  /\ tone = "none"
  /\ stream = 0
  /\ live = {}
  /\ media = [c \in Call |-> 0]
  /\ peers = <<>>
  /\ peer = 0
  /\ timers = <<>>
  /\ inbox = <<>>
  /\ srv = [c \in Call |-> "new"]
  /\ signals = [c \in Call |-> [offer |-> FALSE, answer |-> FALSE, ice |-> 0]]
  /\ offered = {}
  /\ known = {}
  /\ lost = FALSE
  /\ raced = FALSE

-----------------------------------------------------------------------------
(* What the handlers are made of. *)

Msg(k, c) == [kind |-> k, call |-> c]
Going(c) == srv[c] \in {"ringing", "accepted"}
Ended(s) == CASE s = "accepted" -> "over" [] s = "ringing" -> "missed" [] OTHER -> s

\* call_end and call_reject: the server ends a call that goes on and tells both
\* sides; q is what was on its way before.
ServerEnds(c, q) ==
  /\ srv' = [srv EXCEPT ![c] = Ended(@)]
  /\ inbox' = IF Going(c) THEN Append(q, Msg("over", c)) ELSE q
  /\ UNCHANGED <<signals, lost>>

createPeer(c, s) ==
  [call |-> c, stream |-> s, remote |-> FALSE, queued |-> 0, doing |-> {},
   open |-> TRUE, failed |-> FALSE]

\* A closed connection keeps nothing but what is awaited of it.
Closed(p) == [createPeer(p.call, 0) EXCEPT !.doing = p.doing, !.open = FALSE]
Idle(n) == n = Len(peers) + 1 \/ (~ peers[n].open /\ peers[n].doing = {})

\* The place for a new connection, and a new stream.
Place == CHOOSE n \in 1..Len(peers) + 1 : Idle(n)
With(n, p) == IF n > Len(peers) THEN Append(peers, p) ELSE [peers EXCEPT ![n] = p]
Unused == Stream \ (live \cup {stream} \cup {peers[n].stream : n \in 1..Len(peers)})
NewStream == CHOOSE s \in Unused : TRUE

\* teardown, when the connections are ps: closing one stops the stream it was given.
teardown(ps) ==
  /\ tone' = "none"
  /\ peers' = IF peer = 0 THEN ps ELSE [ps EXCEPT ![peer] = Closed(@)]
  /\ peer' = 0
  /\ live' = live \ {stream, IF peer = 0 THEN 0 ELSE ps[peer].stream}
  /\ stream' = 0

\* A bug: no timer is set.
EndCallForever ==
  /\ phase' = "ended"
  /\ UNCHANGED <<call, media, timers>>

\* The timer will clear whatever call is there when it fires.
EndCall ==
  /\ phase' = "ended"
  /\ timers' = Append(timers, call)
  /\ UNCHANGED <<call, media>>

\* hangUp, for any reason, of whatever call is there.
hangUp(ps, q) ==
  IF call = NoCall
  THEN /\ peers' = ps
       /\ inbox' = q
       /\ UNCHANGED <<call, phase, tone, mediaVars, peer, timers, serverVars>>
  ELSE teardown(ps) /\ EndCall /\ ServerEnds(call, q)

\* reject, of whatever call is there.
reject ==
  IF call = NoCall
  THEN UNCHANGED <<call, phase, tone, stream, live, peerVars, inbox, serverVars>>
  ELSE /\ ServerEnds(call, inbox)
       /\ teardown(peers)
       /\ call' = NoCall
       /\ phase' = "idle"

\* A handler that was awaiting for call c goes on: is c still the call it knew?
Overtaken(c) == call # c \/ phase = "ended"

-----------------------------------------------------------------------------
(* The user, and what start and accept do when openMedia returns. *)

Start(c) ==
  /\ c \in Placed \ known
  /\ call = NoCall
  /\ call' = c
  /\ phase' = "ringing-out"
  /\ media' = [media EXCEPT ![c] = @ + 1]
  /\ known' = known \cup {c}
  /\ UNCHANGED <<tone, stream, live, peerVars, timers, inbox, serverVars,
                 offered, raced>>

\* The dialog stays open, and can be clicked again, until openMedia returns.
Accept ==
  /\ phase = "ringing-in"
  /\ media[call] < MaxMedia
  /\ tone' = "none"
  /\ media' = [media EXCEPT ![call] = @ + 1]
  /\ UNCHANGED <<call, phase, stream, live, peerVars, timers, inbox, serverVars,
                 offered, known, raced>>

Decline ==
  /\ phase = "ringing-in"
  /\ reject
  /\ UNCHANGED <<media, timers, offered, known, raced>>

\* The button is also there while the card says that the call has ended.
HangUp ==
  /\ phase \in {"ringing-out", "connecting", "active", "ended"}
  /\ Len(timers) < MaxTimers
  /\ hangUp(peers, inbox)
  /\ UNCHANGED <<offered, known, raced>>

OpenMedia(c) ==
  /\ media[c] > 0
  /\ media' = [media EXCEPT ![c] = @ - 1]
  /\ Unused # {}
  /\ stream' = NewStream
  /\ live' = live \cup {NewStream}
  /\ raced' = (raced \/ Overtaken(c) \/ stream # 0)

\* A bug: the caller offers as it invites.
InviteOffers(c, reached) ==
  /\ c \in Placed
  /\ OpenMedia(c)
  /\ tone' = "outgoing"
  /\ srv' = [srv EXCEPT ![c] = IF reached THEN "ringing" ELSE "missed"]
  /\ inbox' = IF reached THEN inbox ELSE Append(inbox, Msg("offline", c))
  /\ offered' = offered \cup {c}
  /\ UNCHANGED <<call, phase, peerVars, timers, signals, lost, known>>

\* start goes on, without another look at the store; the server finds the other
\* side there or offline.
Invite(c, reached) ==
  /\ c \in Placed
  /\ OpenMedia(c)
  /\ tone' = "outgoing"
  /\ srv' = [srv EXCEPT ![c] = IF reached THEN "ringing" ELSE "missed"]
  /\ inbox' = IF reached THEN inbox ELSE Append(inbox, Msg("offline", c))
  /\ UNCHANGED <<call, phase, peerVars, timers, signals, lost, offered, known>>

StartDenied(c) ==
  /\ c \in Placed
  /\ media[c] > 0
  /\ media' = [media EXCEPT ![c] = @ - 1]
  /\ call' = NoCall
  /\ phase' = "idle"
  /\ raced' = (raced \/ Overtaken(c))
  /\ UNCHANGED <<tone, stream, live, peerVars, timers, inbox, serverVars,
                 offered, known>>

\* A bug: the phase is set without a call.
AcceptUnchecked(c) ==
  /\ c \in Received
  /\ OpenMedia(c)
  /\ peers' = With(Place, createPeer(c, NewStream))
  /\ peer' = Place
  /\ phase' = "connecting"
  /\ srv' = [srv EXCEPT ![c] = IF @ = "ringing" THEN "accepted" ELSE @]
  /\ UNCHANGED <<call, tone, timers, inbox, signals, lost, offered, known>>

\* accept goes on with the call it read before the wait, but setPhase finds the
\* call of the store.
AcceptGranted(c) ==
  /\ c \in Received
  /\ OpenMedia(c)
  /\ peers' = With(Place, createPeer(c, NewStream))
  /\ peer' = Place
  /\ phase' = IF call = NoCall THEN phase ELSE "connecting"
  /\ srv' = [srv EXCEPT ![c] = IF @ = "ringing" THEN "accepted" ELSE @]
  /\ UNCHANGED <<call, tone, timers, inbox, signals, lost, offered, known>>

AcceptDenied(c) ==
  /\ c \in Received
  /\ media[c] > 0
  /\ media' = [media EXCEPT ![c] = @ - 1]
  /\ reject
  /\ raced' = (raced \/ Overtaken(c))
  /\ UNCHANGED <<timers, offered, known>>

\* The 1.2 s timers fire in the order they were set.
ClearTimer ==
  /\ timers # <<>>
  /\ timers' = Tail(timers)
  /\ call' = NoCall
  /\ phase' = "idle"
  /\ raced' = (raced \/ call \notin {NoCall, Head(timers)})
  /\ UNCHANGED <<tone, mediaVars, peerVars, inbox, serverVars, offered, known>>

-----------------------------------------------------------------------------
(* Events from the server. *)

Handles(k, c) ==
  /\ inbox # <<>>
  /\ Head(inbox) = Msg(k, c)

\* A bug: a busy client says nothing.
IncomingUnanswered(c) ==
  /\ Handles("incoming", c)
  /\ known' = known \cup {c}
  /\ inbox' = Tail(inbox)
  /\ IF call # NoCall
     THEN UNCHANGED <<call, phase, tone>>
     ELSE call' = c /\ phase' = "ringing-in" /\ tone' = "incoming"
  /\ UNCHANGED <<mediaVars, peerVars, timers, serverVars, offered, raced>>

IncomingCall(c) ==
  /\ Handles("incoming", c)
  /\ known' = known \cup {c}
  /\ IF call # NoCall
     THEN /\ ServerEnds(c, Tail(inbox))
          /\ UNCHANGED <<call, phase, tone>>
     ELSE /\ call' = c
          /\ phase' = "ringing-in"
          /\ tone' = "incoming"
          /\ inbox' = Tail(inbox)
          /\ UNCHANGED serverVars
  /\ UNCHANGED <<mediaVars, peerVars, timers, offered, raced>>

\* call_invite_ack that finds the other side offline: the call of the store is
\* hung up, whichever it is.
InviteUnreached(c) ==
  /\ Handles("offline", c)
  /\ hangUp(peers, Tail(inbox))
  /\ raced' = (raced \/ Overtaken(c))
  /\ UNCHANGED <<offered, known>>

\* call_accepted; a crossed one finds the call ended here.
CallAccepted(c) ==
  /\ Handles("accepted", c)
  /\ inbox' = Tail(inbox)
  /\ IF call = c /\ c \in Placed
     THEN /\ tone' = "none"
          /\ phase' = "connecting"
          /\ peers' = With(Place, [createPeer(c, stream) EXCEPT !.doing = {"offer"}])
          /\ peer' = Place
          /\ raced' = (raced \/ phase = "ended")
     ELSE UNCHANGED <<tone, phase, peerVars, raced>>
  /\ UNCHANGED <<call, mediaVars, timers, serverVars, offered, known>>

\* A bug: the call ends without teardown.
FinishKeepsMedia(c) ==
  /\ Handles("over", c)
  /\ inbox' = Tail(inbox)
  /\ IF call = c THEN EndCall ELSE UNCHANGED <<call, phase, media, timers>>
  /\ UNCHANGED <<tone, stream, live, peerVars, serverVars, offered, known, raced>>

\* call_rejected, call_ended and call_participant_left.
Finish(c) ==
  /\ Handles("over", c)
  /\ inbox' = Tail(inbox)
  /\ IF call = c
     THEN teardown(peers) /\ EndCall
     ELSE UNCHANGED <<call, phase, tone, mediaVars, peerVars, timers>>
  /\ UNCHANGED <<serverVars, offered, known, raced>>

\* addIceCandidate: a candidate waits for the remote description.
addIceCandidate(p) == IF p.remote THEN p ELSE [p EXCEPT !.queued = @ + 1]

\* What the signal does to the connection before its first await.
Signalling(p, k) ==
  CASE k = "ice" -> addIceCandidate(p)
    [] k = "offer" -> [p EXCEPT !.doing = @ \cup {"setOffer"}]
    [] k = "answer" -> [p EXCEPT !.doing = @ \cup {"setAnswer"}]

CallSignal(c, k) ==
  /\ k \in {"offer", "answer", "ice"}
  /\ Handles(k, c)
  /\ inbox' = Tail(inbox)
  /\ IF call # c
     THEN UNCHANGED <<peerVars, raced>>
     ELSE LET at == IF peer = 0 THEN Place ELSE peer
          IN /\ peer' = at
             /\ peers' = With(at, Signalling(IF peer = 0 THEN createPeer(c, stream)
                                            ELSE peers[peer], k))
             /\ raced' = (raced \/ phase = "ended")
  /\ UNCHANGED <<call, phase, tone, mediaVars, timers, serverVars, offered, known>>

\* The socket is down while the event is sent: nothing replays call events.
Lose ==
  /\ inbox # <<>>
  /\ inbox' = Tail(inbox)
  /\ lost' = TRUE
  /\ UNCHANGED <<call, phase, tone, mediaVars, peerVars, timers, srv, signals,
                 offered, known, raced>>

-----------------------------------------------------------------------------
(* The connections: what their awaits do when they come back. *)

Awaits(n, s) == n \in 1..Len(peers) /\ s \in peers[n].doing

\* createOffer: the offer is sent once it is the local description.
OfferCreated(n) ==
  /\ Awaits(n, "offer")
  /\ peers[n].open
  /\ peers' = [peers EXCEPT ![n].doing = @ \ {"offer"}]
  /\ offered' = offered \cup {peers[n].call}
  /\ UNCHANGED <<call, phase, tone, mediaVars, peer, timers, inbox, serverVars, known, raced>>

\* A bug: candidates are drained before the description is set, so that those
\* that arrive meanwhile wait for ever.
RemoteSetLate(n, s) ==
  /\ s \in {"setOffer", "setAnswer"}
  /\ Awaits(n, s)
  /\ peers[n].open
  /\ peers' = [peers EXCEPT ![n].remote = TRUE,
                            ![n].doing = (@ \ {s}) \cup (IF s = "setOffer" THEN {"answer"} ELSE {})]
  /\ UNCHANGED <<call, phase, tone, mediaVars, peer, timers, inbox, serverVars, offered,
                 known, raced>>

\* setRemoteDescription: what has waited is drained, and an offer is answered.
RemoteSet(n, s) ==
  /\ s \in {"setOffer", "setAnswer"}
  /\ Awaits(n, s)
  /\ peers[n].open
  /\ peers' = [peers EXCEPT ![n].remote = TRUE,
                            ![n].queued = 0,
                            ![n].doing = (@ \ {s}) \cup (IF s = "setOffer" THEN {"answer"} ELSE {})]
  /\ UNCHANGED <<call, phase, tone, mediaVars, peer, timers, inbox, serverVars, offered,
                 known, raced>>

AnswerSent(n) ==
  /\ Awaits(n, "answer")
  /\ peers[n].open
  /\ peers' = [peers EXCEPT ![n].doing = @ \ {"answer"}]
  /\ UNCHANGED <<call, phase, tone, mediaVars, peer, timers, inbox, serverVars, offered,
                 known, raced>>

\* An await throws, and the call of the store is hung up; on a closed connection
\* it may also never come back.
NegotiationFails(n, s) ==
  /\ Awaits(n, s)
  /\ hangUp([peers EXCEPT ![n].doing = @ \ {s}], inbox)
  /\ raced' = (raced \/ Overtaken(peers[n].call))
  /\ UNCHANGED <<offered, known>>

\* ontrack.
RemoteStream(n) ==
  /\ n \in 1..Len(peers)
  /\ peers[n].open
  /\ peers[n].remote
  /\ phase' = IF call = NoCall THEN phase ELSE "active"
  /\ tone' = "none"
  /\ UNCHANGED <<call, mediaVars, peerVars, timers, inbox, serverVars, offered, known, raced>>

\* onconnectionstatechange, to 'failed'.
ConnectionFails(n) ==
  /\ n \in 1..Len(peers)
  /\ peers[n].open
  /\ ~ peers[n].failed
  /\ hangUp([peers EXCEPT ![n].failed = TRUE], inbox)
  /\ raced' = (raced \/ Overtaken(peers[n].call))
  /\ UNCHANGED <<offered, known>>

-----------------------------------------------------------------------------
(* The other side, through the server. *)

Rings(c) ==
  /\ c \in Received
  /\ srv[c] = "new"
  /\ srv' = [srv EXCEPT ![c] = "ringing"]
  /\ inbox' = Append(inbox, Msg("incoming", c))
  /\ UNCHANGED <<signals, lost>>

Answers(c) ==
  /\ c \in Placed
  /\ srv[c] = "ringing"
  /\ srv' = [srv EXCEPT ![c] = "accepted"]
  /\ inbox' = Append(inbox, Msg("accepted", c))
  /\ UNCHANGED <<signals, lost>>

Leaves(c) == Going(c) /\ ServerEnds(c, inbox)

\* A caller offers once it is accepted, a callee answers the offer.
Signals(c, k) ==
  /\ srv[c] = "accepted"
  /\ CASE k = "offer" -> c \in Received /\ ~ signals[c].offer
       [] k = "answer" -> c \in offered /\ ~ signals[c].answer
       [] k = "ice" -> signals[c].ice < MaxIce
  /\ signals' = IF k = "ice" THEN [signals EXCEPT ![c].ice = @ + 1]
                ELSE [signals EXCEPT ![c][k] = TRUE]
  /\ inbox' = Append(inbox, Msg(k, c))
  /\ UNCHANGED <<srv, lost>>

Other(c) ==
  /\ Rings(c) \/ Answers(c) \/ Leaves(c) \/ \E k \in {"offer", "answer", "ice"} : Signals(c, k)
  /\ UNCHANGED <<call, phase, tone, mediaVars, peerVars, timers, offered, known, raced>>

-----------------------------------------------------------------------------

Media(c) ==
  \/ \E reached \in BOOLEAN : Invite(c, reached)
  \/ StartDenied(c)
  \/ AcceptGranted(c)
  \/ AcceptDenied(c)

Handle(c) ==
  \/ IncomingCall(c)
  \/ InviteUnreached(c)
  \/ CallAccepted(c)
  \/ Finish(c)
  \/ \E k \in {"offer", "answer", "ice"} : CallSignal(c, k)

Connects(n) ==
  \/ OfferCreated(n)
  \/ \E s \in {"setOffer", "setAnswer"} : RemoteSet(n, s)
  \/ AnswerSent(n)
  \/ \E s \in {"offer", "setOffer", "answer", "setAnswer"} : NegotiationFails(n, s)
  \/ RemoteStream(n)
  \/ ConnectionFails(n)

Next ==
  \/ \E c \in Call : Start(c) \/ Media(c) \/ Handle(c) \/ Other(c)
  \/ Accept
  \/ Decline
  \/ HangUp
  \/ ClearTimer
  \/ Lose
  \/ \E n \in 1..Len(peers) : Connects(n)

Spec == Init /\ [][Next]_vars

\* Timers fire and events that are not lost are handled; the user, the other
\* side and the media prompts may do nothing.
Fairness ==
  /\ WF_vars(ClearTimer)
  /\ WF_vars(\E c \in Call : Handle(c))

FairSpec == Spec /\ Fairness

-----------------------------------------------------------------------------
(* Properties. *)

\* "The caller only offers once the callee has picked up, so no media flows
\* while a phone is still ringing" (desktop/README.md): CallAccepted, start.
OfferAfterAccept == \A c \in offered : srv[c] \in {"accepted", "over"}

\* No candidate waits for a remote description that is already set, whatever
\* the order in which signals and the connection's answers arrive: one would
\* never be added (CallPeer.addIceCandidate, drainCandidates).
CandidatesDrained == \A n \in 1..Len(peers) : peers[n].remote => peers[n].queued = 0

\* While nothing has outlived its call, whoever calls this client finds it
\* ringing or is told that it is busy (initCallEngine's incoming_call, reject).
InviteKept ==
  ~ raced => \A c \in known \cap Received : srv[c] = "ringing" => call = c

\* While nothing has outlived its call, the microphone, the connections and the
\* tones stop with the call, by whichever of the paths it ends: no stream
\* captures and no connection is open before or after a call, and a tone plays
\* only while the call it is for rings (teardown, stopCallTone).
MediaFollowsCall ==
  ~ raced =>
     /\ phase \in {"idle", "ringing-in", "ended"} =>
          live = {} /\ \A n \in 1..Len(peers) : ~ peers[n].open
     /\ live \subseteq {stream}
     /\ \A n \in 1..Len(peers) : peers[n].open => n = peer /\ peers[n].call = call
     /\ tone = "incoming" => phase = "ringing-in"
     /\ tone = "outgoing" => phase = "ringing-out"

\* A call that is over at the server leaves the store, and the client is free
\* for another, unless an event was lost (Finish, hangUp, the timers).
OverLeaves ==
  [](~ lost) => \A c \in Call : srv[c] \in {"over", "missed"} /\ c \in known ~> call # c

=============================================================================
