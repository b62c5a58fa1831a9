---------------------------- MODULE DesktopSocket ----------------------------
(***************************************************************************)
(* The single chat socket of the desktop client (realtime/socket.ts), the  *)
(* effect of RealtimeProvider that connects it while the user is signed    *)
(* in, the chat on screen that reports itself through it, and the server's *)
(* end of every WebSocket it makes: its frames, and presence's active      *)
(* conversation.                                                           *)
(*                                                                         *)
(* What the socket receives is the subject of DesktopTranscript, and the   *)
(* rooms it joins are left out: the server joins a member's rooms itself.  *)
(* The token comes from api/session.ts, where a refresh begun under one    *)
(* sign-in may end under the next; the server is external.                 *)
(***************************************************************************)
EXTENDS Naturals, FiniteSets, FiniteSetsExt, Sequences, SequencesExt

CONSTANTS
  Conversation,
  NoConv,       \* null
  Conn,         \* WebSockets
  NoSocket,     \* null
  MaxLogins,    \* bound: sign-ins
  MaxFrames,    \* bound: frames waiting when the user adds one
  MaxFaults     \* bound: connections broken and sessions revoked

ASSUME NullAssumption == NoConv \notin Conversation /\ NoSocket \notin Conn
ASSUME BoundAssumption ==
  MaxLogins \in Nat /\ MaxFrames \in Nat \ {0} /\ MaxFaults \in Nat

VARIABLES
  login,      \* 0 when signed out, or the number of the sign-in
  logins,     \* sign-ins so far
  closedByUs, opening, timer, socket, outbox,
  active,     \* activeConversationId of the socket
  waits,      \* the sign-ins under which a call of getToken has not returned
  conns,
  mounted,    \* the conversation of the ChatScreen on screen
  shown,      \* activeConversationId of the chat store
  upload,     \* 0, or the sign-in under which a message waits for its file
  reported,   \* server: presence's active conversation of the user
  faults,
  stray       \* history: a token or a message of one sign-in reached the socket in another

screenVars == <<mounted, shown>>
vars == <<login, logins, closedByUs, opening, timer, socket, outbox, active, waits, conns,
          mounted, shown, upload, reported, faults, stray>>

Login == 0..MaxLogins
Frame == [kind: {"active"}, conv: Conversation \cup {NoConv}] \cup [kind: {"message"}, login: Login]

Active(v) == [kind |-> "active", conv |-> v]
Message(l) == [kind |-> "message", login |-> l]

\* dead: broken, and onclose still to come.  gone: nothing is left of it at the
\* client, and the server has not noticed.
Connection ==
  [state: {"free", "connecting", "open", "dead", "gone"},
   login: Login,      \* the sign-in of the token in its URL
   greet: BOOLEAN,    \* "connected" is on its way
   up: Seq(Frame)]    \* frames on their way
Free == [state |-> "free", login |-> 0, greet |-> FALSE, up |-> <<>>]

TypeOK ==
  /\ login \in Login /\ logins \in Login
  /\ closedByUs \in BOOLEAN /\ opening \in BOOLEAN /\ timer \in BOOLEAN
  /\ socket \in Conn \cup {NoSocket}
  /\ outbox \in Seq(Frame)
  /\ active \in Conversation \cup {NoConv}
  /\ waits \in Seq(Login)
  /\ conns \in [Conn -> Connection]
  /\ mounted \in Conversation \cup {NoConv}
  /\ shown \in Conversation \cup {NoConv}
  /\ upload \in Login
  /\ reported \in Conversation \cup {NoConv}
  /\ faults \in 0..MaxFaults
  /\ stray \in BOOLEAN

Init ==
  /\ login = 0 /\ logins = 0
  /\ closedByUs = TRUE /\ opening = FALSE /\ timer = FALSE
  /\ socket = NoSocket
  /\ outbox = <<>>
  /\ active = NoConv
  /\ waits = <<>>
  /\ conns = [c \in Conn |-> Free]
  /\ mounted = NoConv /\ shown = NoConv
  /\ upload = 0
  /\ reported = NoConv
  /\ faults = 0
  /\ stray = FALSE

-----------------------------------------------------------------------------
(* The socket's methods. *)

IsIn(states) == socket \in Conn /\ conns[socket].state \in states

\* A broken connection may still look open, and then the frame is lost.
send(frame) ==
  \/ /\ IsIn({"open"})
     /\ conns' = [conns EXCEPT ![socket].up = Append(@, frame)]
     /\ UNCHANGED outbox
  \/ /\ ~ IsIn({"open"})
     /\ outbox' = Append(outbox, frame)
     /\ UNCHANGED conns
  \/ /\ IsIn({"dead"})
     /\ UNCHANGED <<outbox, conns>>

setActiveConversation(v) == active' = v /\ send(Active(v))

\* A bug: open does not look whether it is already opening.
OpenTwice ==
  IF IsIn({"connecting", "open"}) THEN UNCHANGED <<opening, waits>>
  ELSE opening' = TRUE /\ waits' = Append(waits, login')

\* open, up to its first await.
Open ==
  IF opening \/ IsIn({"connecting", "open"}) THEN UNCHANGED <<opening, waits>>
  ELSE opening' = TRUE /\ waits' = Append(waits, login')

\* What is left of the connections when the socket closes its own.
Abandoned ==
  [c \in Conn |-> IF c # socket THEN conns[c]
                  ELSE IF conns[c].state = "connecting" THEN Free
                  ELSE [conns[c] EXCEPT !.state = "gone", !.greet = FALSE]]

\* A bug: what waits in the outbox waits for the next connection.
disconnectKeepingOutbox ==
  /\ closedByUs' = TRUE
  /\ timer' = FALSE
  /\ active' = NoConv
  /\ conns' = Abandoned
  /\ socket' = NoSocket
  /\ UNCHANGED outbox

disconnect ==
  /\ closedByUs' = TRUE
  /\ timer' = FALSE
  /\ outbox' = <<>>
  /\ active' = NoConv
  /\ conns' = Abandoned
  /\ socket' = NoSocket

-----------------------------------------------------------------------------
(* The session, whose status RealtimeProvider's effect follows. *)

SignIn ==
  /\ login = 0 /\ logins < MaxLogins /\ mounted = NoConv
  /\ login' = logins + 1 /\ logins' = logins + 1
  /\ closedByUs' = FALSE
  /\ Open
  /\ UNCHANGED <<timer, socket, outbox, active, conns, screenVars, upload, reported, faults, stray>>

SignedOut ==
  /\ login # 0
  /\ login' = 0
  /\ disconnect
  /\ UNCHANGED <<logins, opening, waits, screenVars, upload, reported, stray>>

SignOut == SignedOut /\ UNCHANGED faults

\* Close code 4001: onclose, then the session lost.
Revoked ==
  /\ faults < MaxFaults
  /\ IsIn({"open"})
  /\ SignedOut
  /\ faults' = faults + 1

-----------------------------------------------------------------------------
(* The chat on screen. *)

Waiting == Len(outbox) + MapThenSumSet(LAMBDA c : Len(conns[c].up), Conn)

socketVars == <<closedByUs, opening, timer, socket, waits>>

\* A row of the list was chosen: with another chat on screen the effect's
\* cleanup reports null first, which nothing tells from what follows.
OpenChat(v) ==
  /\ login # 0 /\ mounted # v /\ Waiting < MaxFrames
  /\ mounted' = v /\ shown' = v
  /\ setActiveConversation(v)
  /\ UNCHANGED <<login, logins, socketVars, upload, reported, faults, stray>>

\* The screen is left, perhaps because the user was signed out, and the effect's
\* cleanup leaves the store alone; or it stays, for an address that names no
\* conversation, and the effect clears the store too.
CloseChat ==
  /\ mounted # NoConv /\ Waiting < MaxFrames
  /\ mounted' = NoConv
  /\ shown' \in {shown, NoConv}
  /\ setActiveConversation(NoConv)
  /\ UNCHANGED <<login, logins, socketVars, upload, reported, faults, stray>>

\* A file is chosen, and uploaded ...
StartSend ==
  /\ login # 0 /\ mounted # NoConv /\ upload = 0 /\ Waiting < MaxFrames
  /\ upload' = login
  /\ UNCHANGED <<login, logins, socketVars, outbox, active, conns, screenVars, reported, faults, stray>>

\* ... and the message follows; a text message does so at once.
SendMessage ==
  /\ upload # 0
  /\ send(Message(upload))
  /\ stray' = (stray \/ upload # login)
  /\ upload' = 0
  /\ UNCHANGED <<login, logins, socketVars, active, screenVars, reported, faults>>

-----------------------------------------------------------------------------
(* The life of a connection. *)

\* getToken returned null: offline, or a session that cannot be refreshed.
NoToken ==
  /\ waits # <<>>
  /\ waits' = Tail(waits)
  /\ opening' = FALSE
  /\ timer' = (timer \/ ~ closedByUs)
  /\ UNCHANGED <<login, logins, closedByUs, socket, outbox, active, conns, screenVars, upload,
                 reported, faults, stray>>

\* getToken returned the token of sign-in l.
Connect(l) ==
  \/ closedByUs /\ UNCHANGED <<socket, conns, stray>>
  \/ /\ ~ closedByUs
     /\ \E c \in Conn :
          /\ conns[c].state = "free"
          /\ conns' = [conns EXCEPT ![c] = [Free EXCEPT !.state = "connecting", !.login = l]]
          /\ socket' = c
     /\ stray' = (stray \/ l # login)

\* A bug: opening is not reset on the way out.
TokenArrivesTooLate(l) ==
  /\ waits # <<>>
  /\ l \in {Head(waits), login} \ {0}
  /\ waits' = Tail(waits)
  /\ opening' = closedByUs
  /\ Connect(l)
  /\ UNCHANGED <<login, logins, closedByUs, timer, outbox, active, screenVars, upload, reported, faults>>

TokenArrives(l) ==
  /\ waits # <<>>
  /\ l \in {Head(waits), login} \ {0}
  /\ waits' = Tail(waits)
  /\ opening' = FALSE
  /\ Connect(l)
  /\ UNCHANGED <<login, logins, closedByUs, timer, outbox, active, screenVars, upload, reported, faults>>

\* onopen: the state first, then what was sent while offline.
Opens(c) ==
  /\ conns[c].state = "connecting"
  /\ timer' = FALSE
  /\ conns' = [conns EXCEPT ![c].state = "open", ![c].greet = TRUE,
                            ![c].up = <<Active(active)>> \o outbox]
  /\ outbox' = <<>>
  /\ UNCHANGED <<login, logins, closedByUs, opening, socket, active, waits, screenVars, upload,
                 reported, faults, stray>>

\* "connected" arrives: the store's conversation is reported once more.
Greeted(c) ==
  /\ conns[c].state = "open" /\ conns[c].greet
  /\ active' = IF shown = NoConv THEN active ELSE shown
  /\ conns' = [conns EXCEPT ![c].greet = FALSE,
                            ![c].up = IF shown = NoConv THEN @ ELSE Append(@, Active(shown))]
  /\ UNCHANGED <<login, logins, socketVars, outbox, screenVars, upload, reported, faults, stray>>

\* The interval, from onopen to onclose; bound: one such frame at a time.
Heartbeat ==
  /\ IsIn({"open", "dead"})
  /\ ~ Contains(outbox \o conns[socket].up, Active(active))
  /\ send(Active(active))
  /\ UNCHANGED <<login, logins, socketVars, active, screenVars, upload, reported, faults, stray>>

TimerFires ==
  /\ timer
  /\ timer' = FALSE
  /\ UNCHANGED login
  /\ IF closedByUs THEN UNCHANGED <<opening, waits>> ELSE Open
  /\ UNCHANGED <<logins, closedByUs, socket, outbox, active, conns, screenVars, upload,
                 reported, faults, stray>>

\* The connection is broken: what was on its way arrives up to some frame.
Breaks(c) ==
  /\ faults < MaxFaults
  /\ conns[c].state = "open"
  /\ \E n \in 0..Len(conns[c].up) :
       conns' = [conns EXCEPT ![c].state = "dead", ![c].greet = FALSE, ![c].up = SubSeq(@, 1, n)]
  /\ faults' = faults + 1
  /\ UNCHANGED <<login, logins, socketVars, outbox, active, screenVars, upload, reported, stray>>

\* onclose, of a broken connection or of one that could not be made.
Closed(c) ==
  /\ conns[c].state \in {"connecting", "dead"}
  /\ conns' = [conns EXCEPT ![c] = IF @.state = "dead" THEN [@ EXCEPT !.state = "gone"] ELSE Free]
  /\ socket' = NoSocket
  /\ timer' = (timer \/ ~ closedByUs)
  /\ UNCHANGED <<login, logins, closedByUs, opening, waits, outbox, active, screenVars, upload,
                 reported, faults, stray>>

-----------------------------------------------------------------------------
(* The server. *)

Receives(c) ==
  /\ conns[c].up # <<>>
  /\ LET frame == Head(conns[c].up)
     IN reported' = IF frame.kind = "active" THEN frame.conv ELSE reported
  /\ conns' = [conns EXCEPT ![c].up = Tail(@)]
  /\ UNCHANGED <<login, logins, socketVars, outbox, active, screenVars, upload, faults, stray>>

\* The end of a connection: user_offline, which clears the active conversation
\* unless another session of the user is open.
Notices(c) ==
  /\ conns[c].state = "gone" /\ conns[c].up = <<>>
  /\ conns' = [conns EXCEPT ![c] = Free]
  /\ reported' \in {reported, NoConv}
  /\ UNCHANGED <<login, logins, socketVars, outbox, active, screenVars, upload, faults, stray>>

-----------------------------------------------------------------------------

Next ==
  \/ SignIn \/ SignOut \/ Revoked
  \/ \E v \in Conversation : OpenChat(v)
  \/ CloseChat \/ StartSend \/ SendMessage
  \/ NoToken
  \/ \E l \in Login : TokenArrives(l)
  \/ Heartbeat \/ TimerFires
  \/ \E c \in Conn : Opens(c) \/ Greeted(c) \/ Breaks(c) \/ Closed(c) \/ Receives(c) \/ Notices(c)

Spec == Init /\ [][Next]_vars

\* Timers fire and events are handled; a server that is asked again and again
\* answers: a token is refreshed and a connection made in the end.  The user
\* owes nothing.
Fairness ==
  /\ WF_vars(TimerFires) /\ WF_vars(Heartbeat)
  /\ WF_vars(NoToken \/ \E l \in Login : TokenArrives(l))
  /\ SF_vars(\E l \in Login : TokenArrives(l))
  /\ \A c \in Conn :
       /\ SF_vars(Opens(c))
       /\ WF_vars(Greeted(c)) /\ WF_vars(Closed(c)) /\ WF_vars(Receives(c)) /\ WF_vars(Notices(c))

FairSpec == Spec /\ Fairness

-----------------------------------------------------------------------------

(* "The single chat socket": any WebSocket that is being opened, is open or *)
(* has yet to report its end is the one the client holds, and there is none *)
(* while the user is signed out, however sign-ins and sign-outs fall on the *)
(* awaited token, the retry timer and the closing of the one before.        *)
OneSocket ==
  \A c \in Conn :
    conns[c].state \in {"connecting", "open", "dead"} => socket = c /\ login # 0

(* A message leaves under the sign-in that wrote it: what waits for a       *)
(* connection is not flushed into the socket of the next user of the        *)
(* window.  Excepted are the runs where a token or an upload that was       *)
(* awaited comes back under another sign-in.                                *)
OwnMessages ==
  ~ stray =>
    \A c \in Conn : \A i \in DOMAIN conns[c].up :
      conns[c].up[i].kind = "message" => conns[c].up[i].login = conns[c].login

(* While the user stays signed in the socket comes back, and the chat that  *)
(* stays on screen is in the end the one presence reports: whatever order   *)
(* the frames of an old connection, its user_offline, the outbox, the       *)
(* greeting and the heartbeats come in.                                     *)
Settles ==
  /\ <>[](login # 0) => <>[]IsIn({"open"})
  /\ \A v \in Conversation : <>[](login # 0 /\ mounted = v) => <>[](reported = v)

(* ChatScreen.tsx:55-57: closing a chat clears the active conversation, "so *)
(* presence does not keep reporting a chat nobody is looking at".           *)
ClosedIsClear == mounted = NoConv => active = NoConv

=============================================================================
