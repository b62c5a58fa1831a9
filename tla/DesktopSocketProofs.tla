------------------------- MODULE DesktopSocketProofs -------------------------
(***************************************************************************)
(* For any number of WebSockets, sign-ins, frames and faults: the types of *)
(* DesktopSocket, that the socket is single, and that no message leaves    *)
(* under another sign-in.                                                  *)
(***************************************************************************)
EXTENDS DesktopSocket, SequenceTheorems, TLAPS

LEMMA Frames ==
  /\ \A v \in Conversation \cup {NoConv} : Active(v) \in Frame
  /\ \A l \in Login : Message(l) \in Frame
BY DEF Active, Message, Frame

LEMMA FreeIsConnection ==
  /\ Free \in Connection
  /\ \A l \in Login : [Free EXCEPT !.state = "connecting", !.login = l] \in Connection
<1>1. <<>> \in Seq(Frame) /\ 0 \in Login
  BY EmptySeq, BoundAssumption DEF Login
<1> QED BY <1>1 DEF Free, Connection

LEMMA ConnectionFields ==
  ASSUME NEW k \in Connection
  PROVE  /\ k.state \in {"free", "connecting", "open", "dead", "gone"}
         /\ k.login \in Login /\ k.greet \in BOOLEAN /\ k.up \in Seq(Frame)
         /\ \A s \in Seq(Frame) : [k EXCEPT !.up = s] \in Connection
         /\ \A st \in {"open", "dead", "gone"}, g \in BOOLEAN, s \in Seq(Frame) :
              [k EXCEPT !.state = st, !.greet = g, !.up = s] \in Connection
         /\ \A g \in BOOLEAN, s \in Seq(Frame) : [k EXCEPT !.greet = g, !.up = s] \in Connection
         /\ [k EXCEPT !.state = "gone"] \in Connection
         /\ [k EXCEPT !.state = "gone", !.greet = FALSE] \in Connection
BY DEF Connection

\* A frame appended, a connection with other frames: the types stay.
LEMMA SendTypes ==
  ASSUME TypeOK, NEW f \in Frame, send(f)
  PROVE  outbox' \in Seq(Frame) /\ conns' \in [Conn -> Connection]
<1>1. CASE IsIn({"open"}) /\ conns' = [conns EXCEPT ![socket].up = Append(@, f)] /\ UNCHANGED outbox
  <2>1. socket \in Conn /\ conns[socket] \in Connection
    BY <1>1 DEF IsIn, TypeOK
  <2>2. Append(conns[socket].up, f) \in Seq(Frame)
    BY <2>1, ConnectionFields, AppendProperties
  <2> DEFINE k == [conns[socket] EXCEPT !.up = Append(conns[socket].up, f)]
  <2>3. k \in Connection
    BY <2>1, <2>2, ConnectionFields
  <2>4. conns' = [conns EXCEPT ![socket] = k]
    BY <1>1
  <2> QED BY <1>1, <2>3, <2>4 DEF TypeOK
<1>2. CASE outbox' = Append(outbox, f) /\ UNCHANGED conns
  BY <1>2, AppendProperties DEF TypeOK
<1> QED BY <1>1, <1>2 DEF send, TypeOK

LEMMA OpenTypes ==
  ASSUME TypeOK, login' \in Login, Open
  PROVE  opening' \in BOOLEAN /\ waits' \in Seq(Login)
<1>1. CASE opening \/ IsIn({"connecting", "open"})
  BY <1>1 DEF Open, TypeOK
<1>2. CASE ~ (opening \/ IsIn({"connecting", "open"}))
  <2>1. opening' = TRUE /\ waits' = Append(waits, login')
    BY <1>2 DEF Open
  <2>2. waits \in Seq(Login)
    BY DEF TypeOK
  <2> QED BY <2>1, <2>2, AppendProperties
<1> QED BY <1>1, <1>2

LEMMA AbandonedTypes ==
  ASSUME TypeOK PROVE Abandoned \in [Conn -> Connection]
<1> SUFFICES ASSUME NEW c \in Conn
             PROVE  /\ conns[c] \in Connection /\ Free \in Connection
                    /\ [conns[c] EXCEPT !.state = "gone", !.greet = FALSE] \in Connection
  BY DEF Abandoned
<1> QED BY FreeIsConnection, ConnectionFields DEF TypeOK

LEMMA SessionKeepsTypes ==
  ASSUME TypeOK, SignIn \/ SignOut \/ Revoked
  PROVE  TypeOK'
<1>1. CASE SignIn
  <2>1. login' \in Login /\ logins' \in Login
    BY <1>1, BoundAssumption DEF SignIn, TypeOK, Login
  <2> QED BY <1>1, <2>1, OpenTypes DEF SignIn, TypeOK, screenVars
<1>2. ASSUME SignedOut, faults' \in 0..MaxFaults PROVE TypeOK'
  <2>1. login' \in Login /\ outbox' \in Seq(Frame) /\ conns' \in [Conn -> Connection]
    BY <1>2, AbandonedTypes, EmptySeq, BoundAssumption DEF SignedOut, disconnect, Login
  <2> QED BY <1>2, <2>1 DEF SignedOut, disconnect, TypeOK, screenVars
<1>3. CASE SignOut
  BY <1>2, <1>3 DEF SignOut, TypeOK
<1>4. CASE Revoked
  <2>1. faults' \in 0..MaxFaults
    BY <1>4, BoundAssumption DEF Revoked, TypeOK
  <2> QED BY <1>2, <1>4, <2>1 DEF Revoked
<1> QED BY <1>1, <1>3, <1>4

LEMMA ScreenKeepsTypes ==
  ASSUME TypeOK, (\E v \in Conversation : OpenChat(v)) \/ CloseChat \/ StartSend \/ SendMessage
  PROVE  TypeOK'
<1>1. ASSUME NEW v \in Conversation, OpenChat(v) PROVE TypeOK'
  BY <1>1, Frames, SendTypes DEF OpenChat, setActiveConversation, socketVars, TypeOK
<1>2. CASE CloseChat
  BY <1>2, Frames, SendTypes DEF CloseChat, setActiveConversation, socketVars, TypeOK
<1>3. CASE StartSend
  BY <1>3 DEF StartSend, socketVars, screenVars, TypeOK
<1>4. CASE SendMessage
  <2>1. Message(upload) \in Frame /\ 0 \in Login
    BY Frames, BoundAssumption DEF TypeOK, Login
  <2> QED BY <1>4, <2>1, SendTypes DEF SendMessage, socketVars, screenVars, TypeOK
<1> QED BY <1>1, <1>2, <1>3, <1>4

LEMMA TokenKeepsTypes ==
  ASSUME TypeOK, NoToken \/ TimerFires \/ \E l \in Login : TokenArrives(l)
  PROVE  TypeOK'
<1>1. waits # <<>> => Tail(waits) \in Seq(Login)
  BY HeadTailProperties DEF TypeOK
<1>2. CASE NoToken
  BY <1>1, <1>2 DEF NoToken, screenVars, TypeOK
<1>3. CASE TimerFires
  BY <1>3, OpenTypes DEF TimerFires, screenVars, TypeOK
<1>4. ASSUME NEW l \in Login, TokenArrives(l) PROVE TypeOK'
  <2>1. socket' \in Conn \cup {NoSocket} /\ conns' \in [Conn -> Connection] /\ stray' \in BOOLEAN
    BY <1>4, FreeIsConnection DEF TokenArrives, Connect, TypeOK
  <2> QED BY <1>1, <1>4, <2>1 DEF TokenArrives, screenVars, TypeOK
<1> QED BY <1>2, <1>3, <1>4

LEMMA ConnectionKeepsTypes ==
  ASSUME TypeOK, NEW c \in Conn, Opens(c) \/ Greeted(c) \/ Breaks(c) \/ Closed(c)
  PROVE  TypeOK'
<1> DEFINE k == conns[c]
<1>1. k \in Connection /\ k.up \in Seq(Frame) /\ Active(active) \in Frame
  BY ConnectionFields, Frames DEF TypeOK
<1>2. CASE Opens(c)
  <2> DEFINE s == <<Active(active)>> \o outbox
  <2>1. s \in Seq(Frame)
    <3>1. <<Active(active)>> \in Seq(Frame) /\ outbox \in Seq(Frame)
      BY <1>1 DEF TypeOK
    <3> QED BY <3>1, ConcatProperties
  <2>2. [k EXCEPT !.state = "open", !.greet = TRUE, !.up = s] \in Connection
    BY <1>1, <2>1, ConnectionFields
  <2>3. conns' = [conns EXCEPT ![c] = [k EXCEPT !.state = "open", !.greet = TRUE, !.up = s]]
    BY <1>2 DEF Opens
  <2> HIDE DEF s
  <2>4. conns' \in [Conn -> Connection] /\ outbox' \in Seq(Frame)
    BY <1>2, <2>2, <2>3, EmptySeq DEF Opens, TypeOK
  <2> QED BY <1>2, <2>4 DEF Opens, screenVars, TypeOK
<1>3. CASE Greeted(c)
  <2> DEFINE s == IF shown = NoConv THEN k.up ELSE Append(k.up, Active(shown))
  <2>1. s \in Seq(Frame)
    BY <1>1, Frames, AppendProperties DEF TypeOK
  <2>2. [k EXCEPT !.greet = FALSE, !.up = s] \in Connection
    BY <1>1, <2>1, ConnectionFields
  <2>3. conns' = [conns EXCEPT ![c] = [k EXCEPT !.greet = FALSE, !.up = s]]
    BY <1>3 DEF Greeted
  <2> HIDE DEF s
  <2>4. conns' \in [Conn -> Connection]
    BY <2>2, <2>3 DEF TypeOK
  <2> QED BY <1>3, <2>4 DEF Greeted, socketVars, screenVars, TypeOK
<1>4. CASE Breaks(c)
  <2>1. PICK n \in 0..Len(k.up) :
          conns' = [conns EXCEPT ![c].state = "dead", ![c].greet = FALSE, ![c].up = SubSeq(@, 1, n)]
    BY <1>4 DEF Breaks
  <2> DEFINE s == SubSeq(k.up, 1, n)
  <2>2. s \in Seq(Frame)
    BY <1>1, SubSeqProperties, LenProperties
  <2>3. [k EXCEPT !.state = "dead", !.greet = FALSE, !.up = s] \in Connection
    BY <1>1, <2>2, ConnectionFields
  <2>4. conns' = [conns EXCEPT ![c] = [k EXCEPT !.state = "dead", !.greet = FALSE, !.up = s]]
    BY <2>1
  <2> HIDE DEF s
  <2>5. conns' \in [Conn -> Connection]
    BY <2>3, <2>4 DEF TypeOK
  <2>6. faults' \in 0..MaxFaults
    <3>1. faults \in 0..MaxFaults /\ faults < MaxFaults /\ faults' = faults + 1
      BY <1>4 DEF Breaks, TypeOK
    <3> QED BY <3>1, BoundAssumption
  <2> QED BY <1>4, <2>5, <2>6 DEF Breaks, socketVars, screenVars, TypeOK
<1>5. CASE Closed(c)
  <2>1. [k EXCEPT !.state = "gone"] \in Connection
    BY <1>1, ConnectionFields
  <2> QED BY <1>5, <2>1, FreeIsConnection DEF Closed, screenVars, TypeOK
<1> QED BY <1>2, <1>3, <1>4, <1>5

LEMMA ServerKeepsTypes ==
  ASSUME TypeOK, Heartbeat \/ \E c \in Conn : Receives(c) \/ Notices(c)
  PROVE  TypeOK'
<1>1. CASE Heartbeat
  <2>1. Active(active) \in Frame
    BY Frames DEF TypeOK
  <2> QED BY <1>1, <2>1, SendTypes DEF Heartbeat, socketVars, screenVars, TypeOK
<1>2. ASSUME NEW c \in Conn, Receives(c) PROVE TypeOK'
  <2>1. conns[c] \in Connection /\ conns[c].up \in Seq(Frame) /\ conns[c].up # <<>>
    BY <1>2, ConnectionFields DEF Receives, TypeOK
  <2>2. Head(conns[c].up) \in Frame /\ Tail(conns[c].up) \in Seq(Frame)
    BY <2>1, HeadTailProperties
  <2>3. [conns[c] EXCEPT !.up = Tail(conns[c].up)] \in Connection
    BY <2>1, <2>2, ConnectionFields
  <2>4. conns' \in [Conn -> Connection]
    BY <1>2, <2>3 DEF Receives, TypeOK
  <2>5. reported' \in Conversation \cup {NoConv}
    BY <1>2, <2>2 DEF Receives, TypeOK, Frame
  <2> QED BY <1>2, <2>4, <2>5 DEF Receives, socketVars, screenVars, TypeOK
<1>3. ASSUME NEW c \in Conn, Notices(c) PROVE TypeOK'
  BY <1>3, FreeIsConnection DEF Notices, socketVars, screenVars, TypeOK
<1> QED BY <1>1, <1>2, <1>3

LEMMA InitTypes ==
  ASSUME Init PROVE TypeOK
<1>1. 0 \in Login /\ 0 \in 0..MaxFaults /\ <<>> \in Seq(Frame) /\ <<>> \in Seq(Login)
  BY EmptySeq, BoundAssumption DEF Login
<1> QED BY <1>1, FreeIsConnection DEF Init, TypeOK

(* Every variable of DesktopSocket keeps its type in every behaviour.       *)
THEOREM SocketTypes == Spec => []TypeOK
<1>1. Init => TypeOK
  BY InitTypes
<1>2. ASSUME TypeOK, [Next]_vars PROVE TypeOK'
  <2>1. CASE Next
    BY <1>2, <2>1, SessionKeepsTypes, ScreenKeepsTypes, TokenKeepsTypes, ConnectionKeepsTypes,
       ServerKeepsTypes DEF Next
  <2>2. CASE UNCHANGED vars
    BY <1>2, <2>2 DEF vars, TypeOK
  <2> QED BY <1>2, <2>1, <2>2
<1> QED BY <1>1, <1>2, PTL DEF Spec

-----------------------------------------------------------------------------
(* The socket is single. *)

Live(c) == conns[c].state \in {"connecting", "open", "dead"}

\* A token is awaited once and only while there is no socket, a timer waits only
\* while none is open, and there is a socket only while the user is signed in.
SocketInv ==
  /\ TypeOK
  /\ \A c \in Conn : Live(c) => socket = c
  /\ login = 0 <=> closedByUs
  /\ login = 0 => socket = NoSocket /\ ~ timer
  /\ waits # <<>> => opening /\ socket = NoSocket /\ Tail(waits) = <<>>
  /\ opening => waits # <<>>
  /\ timer => ~ IsIn({"open", "dead"})
  /\ socket \in Conn => Live(socket)

LEMMA OpenKeepsInv ==
  ASSUME SocketInv, login' \in Login, Open, ~ IsIn({"open", "dead"})
  PROVE  /\ waits' # <<>> => opening' /\ Tail(waits') = <<>>
         /\ waits' # <<>> => socket = NoSocket
         /\ opening' => waits' # <<>>
<1>1. CASE opening \/ IsIn({"connecting", "open"})
  BY <1>1 DEF Open, SocketInv
<1>2. CASE ~ (opening \/ IsIn({"connecting", "open"}))
  <2>1. opening' = TRUE /\ waits' = Append(waits, login')
    BY <1>2 DEF Open
  <2>2. waits = <<>>
    BY <1>2 DEF SocketInv
  <2>3. Append(<<>>, login') = <<login'>> /\ Tail(<<login'>>) = <<>> /\ <<login'>> # <<>>
    OBVIOUS
  <2>4. socket = NoSocket
    BY <1>2 DEF SocketInv, TypeOK, Live, IsIn
  <2> QED BY <2>1, <2>2, <2>3, <2>4
<1> QED BY <1>1, <1>2

\* What a send leaves alone.
LEMMA SendKeepsStates ==
  ASSUME TypeOK, NEW f, send(f), NEW c \in Conn
  PROVE  conns'[c].state = conns[c].state /\ conns'[c].login = conns[c].login
<1>1. CASE conns' = [conns EXCEPT ![socket].up = Append(@, f)] /\ IsIn({"open"})
  <2>1. socket \in Conn /\ conns[socket] \in Connection /\ conns[c] \in Connection
    BY <1>1 DEF IsIn, TypeOK
  <2>2. conns' = [conns EXCEPT ![socket] = [conns[socket] EXCEPT !.up = Append(conns[socket].up, f)]]
    BY <1>1
  <2>3. /\ [conns[socket] EXCEPT !.up = Append(conns[socket].up, f)].state = conns[socket].state
        /\ [conns[socket] EXCEPT !.up = Append(conns[socket].up, f)].login = conns[socket].login
    BY <2>1 DEF Connection
  <2> QED BY <2>1, <2>2, <2>3 DEF TypeOK
<1>2. CASE UNCHANGED conns
  BY <1>2
<1> QED BY <1>1, <1>2 DEF send

\* A step that leaves the socket's own variables and every state alone.
LEMMA StatesSuffice ==
  ASSUME SocketInv, TypeOK', UNCHANGED <<login, socketVars>>,
         \A c \in Conn : Live(c)' => Live(c),
         \A c \in Conn : conns'[c].state = conns[c].state \/ (~ Live(c) /\ ~ Live(c)')
  PROVE  SocketInv'
<1>1. /\ login' = login /\ closedByUs' = closedByUs /\ opening' = opening /\ timer' = timer
      /\ socket' = socket /\ waits' = waits
  BY DEF socketVars
<1>2. \A c \in Conn : Live(c)' => socket' = c
  BY <1>1 DEF SocketInv
<1>3. socket' \in Conn => Live(socket)' /\ conns'[socket'].state = conns[socket].state
  BY <1>1 DEF SocketInv, Live
<1>4. timer' => ~ IsIn({"open", "dead"})'
  BY <1>1, <1>3 DEF SocketInv, IsIn
<1> QED BY <1>1, <1>2, <1>3, <1>4 DEF SocketInv

LEMMA InvSession ==
  ASSUME SocketInv, TypeOK', SignIn \/ SignedOut
  PROVE  SocketInv'
<1>1. CASE SignIn
  <2>1. login' # 0 /\ login' \in Login
    BY <1>1 DEF SignIn, TypeOK, SocketInv, Login
  <2>2. socket = NoSocket /\ ~ timer /\ ~ IsIn({"open", "dead"})
    BY <1>1, NullAssumption DEF SignIn, SocketInv, IsIn
  <2>3. Open /\ UNCHANGED <<timer, socket, conns>> /\ closedByUs' = FALSE
    BY <1>1 DEF SignIn
  <2>4. \A c \in Conn : Live(c)' <=> Live(c)
    BY <2>3 DEF Live
  <2> QED BY <2>1, <2>2, <2>3, <2>4, OpenKeepsInv DEF SocketInv, IsIn
<1>2. CASE SignedOut
  <2>1. /\ login' = 0 /\ closedByUs' = TRUE /\ timer' = FALSE /\ socket' = NoSocket
        /\ conns' = Abandoned /\ UNCHANGED <<opening, waits>>
    BY <1>2 DEF SignedOut, disconnect
  <2>2. ASSUME NEW c \in Conn PROVE ~ Live(c)'
    <3>1. CASE c # socket
      <4>1. conns'[c] = conns[c]
        BY <2>1, <3>1 DEF Abandoned
      <4> QED BY <3>1, <4>1 DEF SocketInv, Live
    <3>2. CASE c = socket
      <4>1. conns[c] \in Connection
        BY DEF SocketInv, TypeOK
      <4>2. conns'[c].state \in {"free", "gone"}
        BY <2>1, <3>2, <4>1 DEF Abandoned, Free, Connection
      <4> QED BY <4>2 DEF Live
    <3> QED BY <3>1, <3>2
  <2> QED BY <2>1, <2>2, NullAssumption DEF SocketInv
<1> QED BY <1>1, <1>2

LEMMA InvScreen ==
  ASSUME SocketInv, TypeOK',
         \/ \E v \in Conversation : OpenChat(v)
         \/ CloseChat \/ StartSend \/ SendMessage \/ Heartbeat
         \/ \E c \in Conn : Receives(c) \/ Greeted(c) \/ Notices(c)
  PROVE  SocketInv'
<1>1. ASSUME NEW f, send(f), UNCHANGED <<login, socketVars>> PROVE SocketInv'
  BY <1>1, SendKeepsStates, StatesSuffice DEF SocketInv, Live
<1>2. ASSUME NEW v \in Conversation, OpenChat(v) PROVE SocketInv'
  BY <1>1, <1>2 DEF OpenChat, setActiveConversation
<1>3. CASE CloseChat
  BY <1>1, <1>3 DEF CloseChat, setActiveConversation
<1>4. CASE StartSend
  BY <1>4, StatesSuffice DEF StartSend, Live
<1>5. CASE SendMessage
  BY <1>1, <1>5 DEF SendMessage
<1>6. CASE Heartbeat
  BY <1>1, <1>6 DEF Heartbeat
<1>7. ASSUME NEW c \in Conn, Receives(c) \/ Greeted(c) \/ Notices(c) PROVE SocketInv'
  <2>1. conns \in [Conn -> Connection] /\ UNCHANGED <<login, socketVars>>
    BY <1>7 DEF SocketInv, TypeOK, Receives, Greeted, Notices
  <2>2. ASSUME NEW d \in Conn
        PROVE  conns'[d].state = conns[d].state \/ (~ Live(d) /\ ~ Live(d)')
    <3>1. conns[d] \in Connection
      BY <2>1
    <3>2. CASE Receives(c)
      <4>1. conns' = [conns EXCEPT ![c].up = Tail(@)]
        BY <3>2 DEF Receives
      <4> QED BY <2>1, <3>1, <4>1 DEF Connection
    <3>3. CASE Greeted(c)
      <4>1. PICK s : conns' = [conns EXCEPT ![c].greet = FALSE, ![c].up = s]
        BY <3>3 DEF Greeted
      <4> QED BY <2>1, <3>1, <4>1 DEF Connection
    <3>4. CASE Notices(c)
      BY <2>1, <3>4 DEF Notices, Free, Live
    <3> QED BY <1>7, <3>2, <3>3, <3>4
  <2> QED BY <2>1, <2>2, StatesSuffice DEF Live
<1> QED BY <1>2, <1>3, <1>4, <1>5, <1>6, <1>7

LEMMA InvConnection ==
  ASSUME SocketInv, TypeOK',
         \/ NoToken \/ TimerFires \/ \E l \in Login : TokenArrives(l)
         \/ \E c \in Conn : Opens(c) \/ Breaks(c) \/ Closed(c)
  PROVE  SocketInv'
<1>1. CASE NoToken
  BY <1>1, NullAssumption DEF NoToken, SocketInv, Live, IsIn
<1>2. CASE TimerFires
  <2>1. login' = login /\ timer' = FALSE /\ UNCHANGED <<closedByUs, socket, conns>>
    BY <1>2 DEF TimerFires
  <2>2. Open /\ ~ closedByUs
    BY <1>2 DEF TimerFires, SocketInv
  <2>3. ~ IsIn({"open", "dead"}) /\ login' \in Login
    BY <1>2, <2>1 DEF TimerFires, SocketInv, TypeOK
  <2>4. \A c \in Conn : Live(c)' <=> Live(c)
    BY <2>1 DEF Live
  <2> QED BY <2>1, <2>2, <2>3, <2>4, OpenKeepsInv DEF SocketInv
<1>3. ASSUME NEW l \in Login, TokenArrives(l) PROVE SocketInv'
  <2>1. /\ waits # <<>> /\ waits' = <<>> /\ opening' = FALSE /\ socket = NoSocket
        /\ UNCHANGED <<login, closedByUs, timer>>
    BY <1>3 DEF TokenArrives, SocketInv
  <2>2. CASE closedByUs
    <3>1. UNCHANGED <<socket, conns>>
      BY <1>3, <2>2 DEF TokenArrives, Connect
    <3> QED BY <2>1, <3>1, NullAssumption DEF SocketInv, Live, IsIn
  <2>3. CASE ~ closedByUs
    <3>1. PICK c \in Conn :
            /\ conns' = [conns EXCEPT ![c] = [Free EXCEPT !.state = "connecting", !.login = l]]
            /\ socket' = c
      BY <1>3, <2>3 DEF TokenArrives, Connect
    <3>2. \A d \in Conn : ~ Live(d)
      BY <2>1, NullAssumption DEF SocketInv
    <3>3. conns'[c].state = "connecting" /\ \A d \in Conn \ {c} : conns'[d] = conns[d]
      BY <3>1 DEF Free, SocketInv, TypeOK
    <3>4. \A d \in Conn : Live(d)' => d = c
      BY <3>2, <3>3 DEF Live
    <3> QED BY <2>1, <2>3, <3>1, <3>3, <3>4 DEF SocketInv, Live, IsIn
  <2> QED BY <2>2, <2>3
<1>4. ASSUME NEW c \in Conn, Opens(c) \/ Breaks(c) PROVE SocketInv'
  <2>1. Live(c) /\ socket = c
    BY <1>4 DEF Opens, Breaks, SocketInv, Live
  <2>2. conns'[c].state \in {"open", "dead"} /\ \A d \in Conn \ {c} : conns'[d] = conns[d]
    <3>1. conns \in [Conn -> Connection] /\ conns[c] \in Connection
      BY DEF SocketInv, TypeOK
    <3>2. PICK st \in {"open", "dead"}, g \in BOOLEAN :
            \E s : conns' = [conns EXCEPT ![c].state = st, ![c].greet = g, ![c].up = s]
      BY <1>4 DEF Opens, Breaks
    <3> QED BY <3>1, <3>2 DEF Connection
  <2>3. UNCHANGED <<login, closedByUs, opening, socket, waits>>
    BY <1>4 DEF Opens, Breaks, socketVars
  <2>4. ~ timer'
    BY <1>4, <2>1 DEF Opens, Breaks, socketVars, SocketInv, IsIn
  <2>5. \A d \in Conn : Live(d)' <=> Live(d)
    BY <2>1, <2>2 DEF Live
  <2> QED BY <2>1, <2>3, <2>4, <2>5 DEF SocketInv
<1>5. ASSUME NEW c \in Conn, Closed(c) PROVE SocketInv'
  <2>1. Live(c) /\ socket = c /\ login # 0 /\ waits = <<>>
    BY <1>5, NullAssumption DEF Closed, SocketInv, Live
  <2>2. conns'[c].state \in {"free", "gone"} /\ \A d \in Conn \ {c} : conns'[d] = conns[d]
    BY <1>5 DEF Closed, Free, SocketInv, TypeOK, Connection
  <2>3. socket' = NoSocket /\ UNCHANGED <<login, closedByUs, opening, waits>>
    BY <1>5 DEF Closed
  <2>4. \A d \in Conn : ~ Live(d)'
    BY <2>1, <2>2 DEF SocketInv, Live
  <2> QED BY <2>1, <2>3, <2>4, NullAssumption DEF SocketInv, IsIn
<1> QED BY <1>1, <1>2, <1>3, <1>4, <1>5

LEMMA SocketInvHolds == Spec => []SocketInv
<1>1. Init => SocketInv
  <2> SUFFICES ASSUME Init PROVE SocketInv
    OBVIOUS
  <2>1. TypeOK
    BY InitTypes
  <2>2. \A c \in Conn : ~ Live(c)
    BY DEF Init, Live, Free
  <2> QED BY <2>1, <2>2, NullAssumption DEF Init, SocketInv, IsIn
<1>2. ASSUME SocketInv, TypeOK', [Next]_vars PROVE SocketInv'
  <2>1. CASE Next
    BY <1>2, <2>1, InvSession, InvScreen, InvConnection DEF Next, SignOut, Revoked
  <2>2. CASE UNCHANGED vars
    BY <1>2, <2>2, StatesSuffice DEF vars, socketVars, Live
  <2> QED BY <1>2, <2>1, <2>2
<1> QED BY <1>1, <1>2, SocketTypes, PTL DEF Spec

(* In every behaviour a WebSocket that is not closed is the client's one    *)
(* socket, and there is none while the user is signed out (socket.ts:28).   *)
THEOREM SingleSocket == Spec => []OneSocket
<1>1. SocketInv => OneSocket
  BY NullAssumption DEF SocketInv, OneSocket, Live
<1> QED BY <1>1, SocketInvHolds, PTL

-----------------------------------------------------------------------------
(* No message leaves under another sign-in. *)

Own(s, l) == \A i \in 1..Len(s) : s[i].kind = "message" => s[i].login = l

LEMMA OwnSequences ==
  ASSUME NEW l, NEW s \in Seq(Frame), Own(s, l)
  PROVE  /\ \A f \in Frame : (f.kind = "message" => f.login = l) => Own(Append(s, f), l)
         /\ \A v : Own(<<Active(v)>> \o s, l)
         /\ s # <<>> => Own(Tail(s), l)
         /\ \A n \in 0..Len(s) : Own(SubSeq(s, 1, n), l)
<1>1. ASSUME NEW f \in Frame, f.kind = "message" => f.login = l PROVE Own(Append(s, f), l)
  BY <1>1, AppendProperties, LenProperties DEF Own
<1>2. ASSUME NEW v PROVE Own(<<Active(v)>> \o s, l)
  <2> DEFINE S == Frame \cup {Active(v)}
             t == <<Active(v)>>
  <2>1. s \in Seq(S) /\ t \in Seq(S) /\ Len(t) = 1 /\ t[1].kind = "active" /\ Len(s) \in Nat
    <3>1. Frame \subseteq S /\ Active(v) \in S
      OBVIOUS
    <3>2. Len(s) \in Nat /\ \A i \in 1..Len(s) : s[i] \in Frame
      BY ElementOfSeq, LenProperties
    <3> HIDE DEF S
    <3>3. s \in Seq(S)
      BY <3>1, SeqMonotonic
    <3> QED BY <3>1, <3>2, <3>3 DEF Active
  <2> HIDE DEF S, t
  <2>2. /\ Len(t \o s) = 1 + Len(s)
        /\ \A i \in 1..1 + Len(s) : (t \o s)[i] = IF i <= 1 THEN t[i] ELSE s[i - 1]
    BY <2>1, ConcatProperties
  <2>3. ASSUME NEW i \in 1..1 + Len(s), (t \o s)[i].kind = "message" PROVE (t \o s)[i].login = l
    <3>1. CASE i <= 1
      <4>1. i = 1 /\ (t \o s)[i] = t[1]
        BY <2>1, <2>2, <3>1
      <4> QED BY <2>1, <2>3, <4>1
    <3>2. CASE ~ i <= 1
      <4>1. (t \o s)[i] = s[i - 1] /\ i - 1 \in 1..Len(s)
        BY <2>1, <2>2, <3>2
      <4> QED BY <2>3, <4>1 DEF Own
    <3> QED BY <3>1, <3>2
  <2>4. Own(t \o s, l)
    BY <2>2, <2>3 DEF Own
  <2> QED BY <2>4 DEF t
<1>3. ASSUME s # <<>> PROVE Own(Tail(s), l)
  BY <1>3, HeadTailProperties, LenProperties DEF Own
<1>4. ASSUME NEW n \in 0..Len(s) PROVE Own(SubSeq(s, 1, n), l)
  <2>1. Len(s) \in Nat /\ \A i \in 1..n : s[i] \in Frame
    BY ElementOfSeq, LenProperties
  <2>2. /\ Len(SubSeq(s, 1, n)) = IF 1 <= n THEN n - 1 + 1 ELSE 0
        /\ \A i \in 1..n - 1 + 1 : SubSeq(s, 1, n)[i] = s[1 + i - 1]
    BY <2>1, SubSeqProperties
  <2> QED BY <2>1, <2>2 DEF Own
<1> QED BY <1>1, <1>2, <1>3, <1>4

\* Until a token or an upload comes back late, the connection that is not closed is
\* the signed-in user's, and so is every message that waits for one.
OwnInv ==
  ~ stray =>
    /\ \A c \in Conn : Live(c) => conns[c].login = login
    /\ Own(outbox, login)
    /\ login = 0 => \A i \in 1..Len(outbox) : outbox[i].kind # "message"
    /\ \A c \in Conn : Own(conns[c].up, conns[c].login)

LEMMA SendKeepsOwn ==
  ASSUME SocketInv, OwnInv, ~ stray, NEW f \in Frame, send(f), UNCHANGED login,
         f.kind = "message" => f.login = login /\ login # 0
  PROVE  /\ \A c \in Conn : Live(c)' => conns'[c].login = login'
         /\ Own(outbox', login')
         /\ login' = 0 => \A i \in 1..Len(outbox') : outbox'[i].kind # "message"
         /\ \A c \in Conn : Own(conns'[c].up, conns'[c].login)
<1>1. conns \in [Conn -> Connection] /\ outbox \in Seq(Frame) /\ TypeOK
  BY DEF SocketInv, TypeOK
<1>2. \A c \in Conn : conns'[c].state = conns[c].state /\ conns'[c].login = conns[c].login
  BY <1>1, SendKeepsStates
<1>3. \A c \in Conn : Live(c)' => conns'[c].login = login'
  BY <1>2 DEF OwnInv, Live
<1>4. CASE IsIn({"open"}) /\ conns' = [conns EXCEPT ![socket].up = Append(@, f)] /\ UNCHANGED outbox
  <2>1. socket \in Conn /\ Live(socket) /\ conns[socket] \in Connection
    BY <1>1, <1>4 DEF IsIn, Live
  <2>2. conns[socket].up \in Seq(Frame) /\ Own(conns[socket].up, conns[socket].login)
        /\ conns[socket].login = login
    BY <2>1, ConnectionFields DEF OwnInv
  <2>3. Own(Append(conns[socket].up, f), login)
    BY <2>2, OwnSequences
  <2>4. ASSUME NEW c \in Conn PROVE Own(conns'[c].up, conns'[c].login)
    <3>1. CASE c = socket
      <4>1. conns'[c].up = Append(conns[socket].up, f)
        BY <1>1, <1>4, <2>1, <3>1 DEF Connection
      <4> QED BY <1>2, <2>2, <2>3, <3>1, <4>1
    <3>2. CASE c # socket
      <4>1. conns'[c] = conns[c]
        BY <1>1, <1>4, <3>2
      <4> QED BY <4>1 DEF OwnInv
    <3> QED BY <3>1, <3>2
  <2> QED BY <1>3, <1>4, <2>4 DEF OwnInv
<1>5. CASE outbox' = Append(outbox, f) /\ UNCHANGED conns
  <2>1. Own(outbox', login)
    BY <1>1, <1>5, OwnSequences DEF OwnInv
  <2>2. login = 0 => \A i \in 1..Len(outbox') : outbox'[i].kind # "message"
    BY <1>1, <1>5, AppendProperties, LenProperties DEF OwnInv
  <2> QED BY <1>3, <1>5, <2>1, <2>2 DEF OwnInv
<1>6. CASE UNCHANGED <<outbox, conns>>
  BY <1>3, <1>6 DEF OwnInv
<1> QED BY <1>4, <1>5, <1>6 DEF send

LEMMA OwnSession ==
  ASSUME SocketInv, SocketInv', OwnInv, SignIn \/ SignedOut
  PROVE  OwnInv'
<1> SUFFICES ASSUME ~ stray PROVE OwnInv'
  BY DEF SignIn, SignedOut, OwnInv
<1>1. CASE SignIn
  <2>1. login = 0 /\ login' # 0 /\ UNCHANGED <<outbox, conns>>
    BY <1>1 DEF SignIn, SocketInv, TypeOK, Login
  <2>2. \A c \in Conn : ~ Live(c)'
    BY <2>1, NullAssumption DEF SocketInv, Live
  <2> QED BY <2>1, <2>2 DEF OwnInv, Own
<1>2. CASE SignedOut
  <2>1. login' = 0 /\ outbox' = <<>> /\ conns' = Abandoned
    BY <1>2 DEF SignedOut, disconnect
  <2>2. \A c \in Conn : ~ Live(c)'
    BY <2>1, NullAssumption DEF SocketInv, Live
  <2>3. ASSUME NEW c \in Conn PROVE Own(conns'[c].up, conns'[c].login)
    <3>1. conns[c] \in Connection
      BY DEF SocketInv, TypeOK
    <3>2. \/ conns'[c].up = conns[c].up /\ conns'[c].login = conns[c].login
          \/ conns'[c].up = <<>>
      BY <2>1, <3>1 DEF Abandoned, Free, Connection
    <3> QED BY <3>2 DEF OwnInv, Own
  <2> QED BY <2>1, <2>2, <2>3 DEF OwnInv, Own
<1> QED BY <1>1, <1>2

LEMMA OwnScreen ==
  ASSUME SocketInv, OwnInv,
         (\E v \in Conversation : OpenChat(v)) \/ CloseChat \/ StartSend \/ SendMessage \/ Heartbeat
  PROVE  OwnInv'
<1>0. TypeOK
  BY DEF SocketInv
<1>1. ASSUME NEW v \in Conversation \cup {NoConv}, send(Active(v)), UNCHANGED <<login, stray>>
      PROVE  OwnInv'
  <2>1. Active(v) \in Frame /\ Active(v).kind # "message"
    BY Frames DEF Active
  <2> QED BY <1>1, <2>1, SendKeepsOwn DEF OwnInv
<1>2. ASSUME NEW v \in Conversation, OpenChat(v) PROVE OwnInv'
  BY <1>1, <1>2 DEF OpenChat, setActiveConversation
<1>3. CASE CloseChat
  BY <1>1, <1>3 DEF CloseChat, setActiveConversation
<1>4. CASE StartSend
  BY <1>4 DEF StartSend, OwnInv, Live
<1>5. CASE SendMessage
  <2>1. Message(upload) \in Frame /\ Message(upload).login = upload /\ upload # 0
    BY <1>0, <1>5, Frames DEF SendMessage, TypeOK, Message
  <2>2. stray' <=> stray \/ upload # login
    BY <1>5 DEF SendMessage
  <2>3. send(Message(upload)) /\ UNCHANGED login
    BY <1>5 DEF SendMessage
  <2> QED BY <2>1, <2>2, <2>3, SendKeepsOwn DEF OwnInv
<1>6. CASE Heartbeat
  BY <1>0, <1>1, <1>6 DEF Heartbeat, TypeOK
<1> QED BY <1>2, <1>3, <1>4, <1>5, <1>6

\* A step of one connection, whose frames stay its own.
LEMMA OneStep ==
  ASSUME SocketInv, OwnInv, ~ stray, NEW c \in Conn, UNCHANGED login,
         outbox' \in {outbox, <<>>},
         \A d \in Conn \ {c} : conns'[d] = conns[d],
         Own(conns'[c].up, conns'[c].login), Live(c)' => conns'[c].login = login
  PROVE  OwnInv'
<1>1. Own(outbox', login) /\ login = 0 => \A i \in 1..Len(outbox') : outbox'[i].kind # "message"
  BY DEF OwnInv, Own
<1>2. \A d \in Conn : Own(conns'[d].up, conns'[d].login)
  BY DEF OwnInv
<1>3. \A d \in Conn : Live(d)' => conns'[d].login = login'
  BY DEF OwnInv, Live
<1>4. Own(outbox', login')
  BY DEF OwnInv, Own
<1> QED BY <1>1, <1>2, <1>3, <1>4 DEF OwnInv

LEMMA OwnConnection ==
  ASSUME SocketInv, OwnInv, NEW c \in Conn,
         Opens(c) \/ Greeted(c) \/ Breaks(c) \/ Closed(c) \/ Receives(c) \/ Notices(c)
  PROVE  OwnInv'
<1>1. UNCHANGED <<login, stray>>
  BY DEF Opens, Greeted, Breaks, Closed, Receives, Notices
<1> SUFFICES ASSUME ~ stray PROVE OwnInv'
  BY <1>1 DEF OwnInv
<1> DEFINE k == conns[c]
<1>2. /\ conns \in [Conn -> Connection] /\ k \in Connection /\ k.up \in Seq(Frame)
      /\ Own(k.up, k.login) /\ outbox \in Seq(Frame) /\ Own(outbox, login)
  BY ConnectionFields DEF SocketInv, TypeOK, OwnInv
<1>3. Live(c) => k.login = login
  BY DEF OwnInv
<1>4. CASE Opens(c)
  <2>1. k.login = login
    BY <1>3, <1>4 DEF Opens, Live
  <2>2. /\ conns'[c].up = <<Active(active)>> \o outbox /\ conns'[c].login = k.login
        /\ \A d \in Conn \ {c} : conns'[d] = conns[d]
    BY <1>2, <1>4 DEF Opens, Connection
  <2>3. Own(conns'[c].up, conns'[c].login)
    BY <1>2, <2>1, <2>2, OwnSequences
  <2> QED BY <1>1, <1>4, <2>1, <2>2, <2>3, OneStep DEF Opens
<1>5. CASE Greeted(c)
  <2>1. Live(c)
    BY <1>5 DEF Greeted, Live
  <2>2. /\ conns'[c].up = IF shown = NoConv THEN k.up ELSE Append(k.up, Active(shown))
        /\ conns'[c].login = k.login
        /\ \A d \in Conn \ {c} : conns'[d] = conns[d]
    BY <1>2, <1>5 DEF Greeted, Connection
  <2>3. Active(shown) \in Frame /\ Active(shown).kind # "message"
    BY Frames DEF Active, SocketInv, TypeOK
  <2>4. Own(conns'[c].up, conns'[c].login)
    BY <1>2, <2>2, <2>3, OwnSequences
  <2> QED BY <1>1, <1>3, <1>5, <2>1, <2>2, <2>4, OneStep DEF Greeted
<1>6. CASE Breaks(c)
  <2>1. Live(c)
    BY <1>6 DEF Breaks, Live
  <2>2. PICK n \in 0..Len(k.up) :
          conns' = [conns EXCEPT ![c].state = "dead", ![c].greet = FALSE, ![c].up = SubSeq(@, 1, n)]
    BY <1>6 DEF Breaks
  <2>3. /\ conns'[c].up = SubSeq(k.up, 1, n) /\ conns'[c].login = k.login
        /\ \A d \in Conn \ {c} : conns'[d] = conns[d]
    BY <1>2, <2>2 DEF Connection
  <2>4. Own(conns'[c].up, conns'[c].login)
    <3>1. k.up \in Seq(Frame) /\ Own(k.up, k.login)
      BY <1>2
    <3> HIDE DEF k
    <3>2. Own(SubSeq(k.up, 1, n), k.login)
      BY <3>1, OwnSequences
    <3> QED BY <2>3, <3>2
  <2>5. UNCHANGED outbox
    BY <1>6 DEF Breaks
  <2> QED BY <1>1, <1>3, <2>1, <2>3, <2>4, <2>5, OneStep
<1>7. CASE Closed(c) \/ Notices(c)
  <2>1. /\ (conns'[c].up = k.up /\ conns'[c].login = k.login) \/ conns'[c].up = <<>>
        /\ conns'[c].state \in {"free", "gone"}
        /\ \A d \in Conn \ {c} : conns'[d] = conns[d]
    BY <1>2, <1>7 DEF Closed, Notices, Free, Connection
  <2>2. Own(conns'[c].up, conns'[c].login)
    BY <1>2, <2>1 DEF Own
  <2>3. ~ Live(c)' /\ UNCHANGED outbox
    BY <1>7, <2>1 DEF Live, Closed, Notices
  <2> QED BY <1>1, <2>1, <2>2, <2>3, OneStep
<1>8. CASE Receives(c)
  <2>1. /\ conns'[c].up = Tail(k.up) /\ conns'[c].login = k.login /\ conns'[c].state = k.state
        /\ \A d \in Conn \ {c} : conns'[d] = conns[d]
    BY <1>2, <1>8 DEF Receives, Connection
  <2>2. Own(conns'[c].up, conns'[c].login)
    BY <1>2, <1>8, <2>1, OwnSequences DEF Receives
  <2> QED BY <1>1, <1>3, <1>8, <2>1, <2>2, OneStep DEF Receives, Live
<1> QED BY <1>4, <1>5, <1>6, <1>7, <1>8

LEMMA OwnToken ==
  ASSUME SocketInv, OwnInv, NoToken \/ TimerFires \/ \E l \in Login : TokenArrives(l)
  PROVE  OwnInv'
<1>1. CASE UNCHANGED <<login, outbox, conns, stray>>
  BY <1>1 DEF OwnInv, Live
<1>2. CASE NoToken
  BY <1>1, <1>2 DEF NoToken
<1>3. CASE TimerFires
  BY <1>1, <1>3 DEF TimerFires
<1>4. ASSUME NEW l \in Login, TokenArrives(l) PROVE OwnInv'
  <2>1. CASE closedByUs
    BY <1>1, <1>4, <2>1 DEF TokenArrives, Connect
  <2>2. CASE ~ closedByUs
    <3>1. PICK c \in Conn :
            conns' = [conns EXCEPT ![c] = [Free EXCEPT !.state = "connecting", !.login = l]]
      BY <1>4, <2>2 DEF TokenArrives, Connect
    <3>2. UNCHANGED <<login, outbox>> /\ (stray' <=> stray \/ l # login)
      BY <1>4, <2>2 DEF TokenArrives, Connect
    <3>3. /\ conns'[c].up = <<>> /\ conns'[c].login = l
          /\ \A d \in Conn \ {c} : conns'[d] = conns[d]
      BY <3>1 DEF SocketInv, TypeOK, Free
    <3>4. Own(conns'[c].up, conns'[c].login)
      BY <3>3 DEF Own
    <3>5. CASE stray'
      BY <3>5 DEF OwnInv
    <3>6. CASE ~ stray'
      BY <3>2, <3>3, <3>4, <3>6, OneStep
    <3> QED BY <3>5, <3>6
  <2> QED BY <2>1, <2>2
<1> QED BY <1>2, <1>3, <1>4

(* In every behaviour where no awaited token or upload comes back under     *)
(* another sign-in, the frames of a connection carry the messages of the    *)
(* sign-in whose token opened it.                                           *)
THEOREM MessagesAreOwn == Spec => []OwnMessages
<1>1. Init => OwnInv
  BY DEF Init, OwnInv, Own, Live, Free
<1>2. ASSUME SocketInv, SocketInv', OwnInv, [Next]_vars PROVE OwnInv'
  <2>1. CASE Next
    BY <1>2, <2>1, OwnSession, OwnScreen, OwnConnection, OwnToken DEF Next, SignOut, Revoked
  <2>2. CASE UNCHANGED vars
    BY <1>2, <2>2 DEF vars, OwnInv, Live
  <2> QED BY <1>2, <2>1, <2>2
<1>3. ASSUME SocketInv, OwnInv PROVE OwnMessages
  <2> SUFFICES ASSUME ~ stray, NEW c \in Conn, NEW i \in DOMAIN conns[c].up,
                      conns[c].up[i].kind = "message"
               PROVE  conns[c].up[i].login = conns[c].login
    BY DEF OwnMessages
  <2>1. conns[c].up \in Seq(Frame) /\ Own(conns[c].up, conns[c].login)
    BY <1>3, ConnectionFields DEF SocketInv, TypeOK, OwnInv
  <2> QED BY <2>1, LenProperties DEF Own
<1> QED BY <1>1, <1>2, <1>3, SocketInvHolds, PTL DEF Spec

=============================================================================
