------------------------- MODULE ClientSessionProofs -------------------------
(***************************************************************************)
(* What holds of ClientSession for every number of windows, callers and    *)
(* tokens, with the web locks or with a single window.                     *)
(***************************************************************************)
EXTENDS ClientSession, TLAPS

\* What a refresh presents or was given is a token.
CarriedInv ==
  \A w \in Window : phase[w] \in {"sent", "granted", "persist"} => carried[w] \in Token

TypeInv == TypeOK /\ CarriedInv

\* At most, refreshes have begun.
Joined ==
  \A v \in Window : phase'[v] = phase[v] \/ (phase[v] = "none" /\ phase'[v] \in {"lock", "read"})

\* The end of a refresh leaves well-typed callers, none of them further on in
\* signing out than before.
LEMMA FinishKeeps ==
  ASSUME TypeOK, NEW w \in Window, NEW t \in 0..MaxTokens, NEW a \in 0..MaxTokens,
         Finish(w, t, a)
  PROVE  /\ phase' = [phase EXCEPT ![w] = "none"]
         /\ carried' = [carried EXCEPT ![w] = 0]
         /\ call' \in [Caller -> CallRecord]
         /\ \A c \in Caller : /\ call'[c].job = call[c].job
                              /\ call'[c].at = "clear" => call[c].at = "clear"
<1>1. ASSUME NEW c \in Caller
      PROVE  /\ call'[c] \in CallRecord
             /\ call'[c].job = call[c].job
             /\ call'[c].at = "clear" => call[c].at = "clear"
  <2>1. call[c] \in CallRecord
    BY DEF TypeOK
  <2> QED BY <2>1 DEF Finish, CallRecord
<1>2. call' = [c \in Caller |-> call'[c]]
  BY DEF Finish
<1> QED BY <1>1, <1>2 DEF Finish

\* Joining a refresh begins one at most.
LEMMA JoinKeeps ==
  ASSUME TypeOK, NEW w \in Window, JoinRefresh(w)
  PROVE  /\ phase' \in [Window -> Phase]
         /\ Joined
         /\ phase' = phase \/ ~ HasLocks \/ phase' = [phase EXCEPT ![w] = "lock"]
BY DEF JoinRefresh, Joined, TypeOK, Phase

LEMMA EnsureKeeps ==
  ASSUME TypeOK, NEW c \in Caller, NEW j \in {"api", "boot", "logout"}, Ensure(c, j)
  PROVE  /\ phase' \in [Window -> Phase]
         /\ Joined
         /\ phase' = phase \/ ~ HasLocks \/ phase' = [phase EXCEPT ![Home[c]] = "lock"]
         /\ call' \in [Caller -> CallRecord]
         /\ \A d \in Caller : /\ call'[d].job = "logout" => call[d].job = "logout" \/ j = "logout"
                              /\ call'[d].at = "clear" => call[d].at = "clear"
<1>1. Home[c] \in Window
  BY HomeAssumption
<1>2. CASE isExpiring(Home[c])
  <2>1. JoinRefresh(Home[c])
    BY <1>2 DEF Ensure
  <2>2. call' = [call EXCEPT ![c] = [at |-> "ensure", job |-> j, token |-> 0]]
    BY <1>2 DEF Ensure
  <2>3. [at |-> "ensure", job |-> j, token |-> 0] \in CallRecord
    BY BoundAssumption DEF CallRecord
  <2> QED BY <1>1, <2>1, <2>2, <2>3, JoinKeeps DEF TypeOK
<1>3. CASE ~ isExpiring(Home[c])
  <2>1. phase' = phase /\ call' = [call EXCEPT ![c] =
                                    [at |-> "sent", job |-> j, token |-> access[Home[c]]]]
    BY <1>3 DEF Ensure
  <2>2. [at |-> "sent", job |-> j, token |-> access[Home[c]]] \in CallRecord
    BY <1>1 DEF CallRecord, TypeOK
  <2> QED BY <2>1, <2>2 DEF Joined, TypeOK
<1> QED BY <1>2, <1>3

\* A call that returns stays well typed, and only signing out goes on to clear.
LEMMA ReturnKeeps ==
  ASSUME TypeOK, NEW c \in Caller, NEW ok \in BOOLEAN, Return(c, ok)
  PROVE  /\ call' \in [Caller -> CallRecord]
         /\ access' \in [Window -> 0..MaxTokens]
         /\ fresh' \in [Window -> BOOLEAN]
         /\ status' \in [Window -> {"closed", "unknown", "in", "out"}]
         /\ \A d \in Caller : /\ call'[d].job = "logout" => call[d].job = "logout"
                              /\ call'[d].at = "clear" => call[d].at = "clear" \/ call[d].job = "logout"
<1>1. Home[c] \in Window /\ call[c] \in CallRecord
  BY HomeAssumption DEF TypeOK
<1>2. NoCall \in CallRecord
  BY BoundAssumption DEF NoCall, CallRecord
<1>3. Clearing \in CallRecord
  BY BoundAssumption DEF Clearing, CallRecord
<1> QED BY <1>1, <1>2, <1>3, BoundAssumption DEF Return, TypeOK, NoCall, Clearing

\* The device starts with every variable of its type.
LEMMA TypeInit == Init => TypeInv
<1>1. NoCall \in CallRecord
  BY BoundAssumption DEF NoCall, CallRecord
<1>2. 0 \in 0..MaxTokens /\ 1 \in 0..MaxTokens /\ 1 \in Token
  BY BoundAssumption DEF Token
<1> SUFFICES ASSUME Init PROVE TypeInv
  OBVIOUS
<1>3. /\ stored \in 0..MaxTokens /\ current \in Token
      /\ access \in [Window -> 0..MaxTokens] /\ carried \in [Window -> 0..MaxTokens]
      /\ phase \in [Window -> Phase]
      /\ call \in [Caller -> CallRecord]
  BY <1>1, <1>2 DEF Init, Phase
<1>4. /\ fresh \in [Window -> BOOLEAN]
      /\ status \in [Window -> {"closed", "unknown", "in", "out"}]
      /\ revoked \in BOOLEAN /\ reused \in BOOLEAN /\ lost \in BOOLEAN /\ ended \in BOOLEAN
      /\ clearing \subseteq Window /\ dead \subseteq Token /\ late \subseteq Token
  BY DEF Init
<1>5. CarriedInv
  BY DEF Init, CarriedInv
<1> QED BY <1>3, <1>4, <1>5 DEF TypeInv, TypeOK

\* No step of a window, a caller or the server leaves the types.
LEMMA TypeStep == TypeInv /\ [Next]_vars => TypeInv'
<1> SUFFICES ASSUME TypeInv, [Next]_vars PROVE TypeInv'
  OBVIOUS
<1> USE HomeAssumption, BoundAssumption DEF TypeInv, refreshVars, serverVars, historyVars
<1>1. CASE UNCHANGED vars
  BY <1>1 DEF TypeOK, CarriedInv, vars, refreshVars, serverVars, historyVars
<1>2. ASSUME NEW w \in Window, Present(w) PROVE TypeInv'
  BY <1>2 DEF Present, TypeOK, CarriedInv, Phase, Token
<1>3. ASSUME NEW w \in Window, NothingStored(w) PROVE TypeInv'
  <2>1. /\ access[w] \in 0..MaxTokens /\ carried[w] \in 0..MaxTokens
        /\ 0 \in 0..MaxTokens
    BY DEF TypeOK
  <2>2. Finish(w, 0, 0)
    BY <1>3 DEF NothingStored
  <2>3. /\ phase' = [phase EXCEPT ![w] = "none"] /\ carried' = [carried EXCEPT ![w] = 0]
        /\ call' \in [Caller -> CallRecord]
    BY <2>1, <2>2, FinishKeeps
  <2> QED BY <1>3, <2>1, <2>3 DEF NothingStored, LoseSession, TypeOK, CarriedInv, Phase, Token
<1>4. ASSUME NEW w \in Window, Adopt(w) PROVE TypeInv'
  BY <1>4 DEF Adopt, TypeOK, CarriedInv, Phase
<1>5. ASSUME NEW w \in Window, Persist(w) PROVE TypeInv'
  <2>1. /\ access[w] \in 0..MaxTokens /\ carried[w] \in 0..MaxTokens
        /\ 0 \in 0..MaxTokens
    BY DEF TypeOK
  <2>2. Finish(w, carried[w], access[w])
    BY <1>5 DEF Persist
  <2>3. /\ phase' = [phase EXCEPT ![w] = "none"] /\ carried' = [carried EXCEPT ![w] = 0]
        /\ call' \in [Caller -> CallRecord]
    BY <2>1, <2>2, FinishKeeps
  <2> QED BY <1>5, <2>1, <2>3 DEF Persist, TypeOK, CarriedInv, Phase, Token
<1>6. ASSUME NEW w \in Window, PersistFails(w) PROVE TypeInv'
  <2>1. ASSUME NEW c \in Caller PROVE call'[c] \in CallRecord
    <3>1. call[c] \in CallRecord /\ NoCall \in CallRecord
      BY DEF TypeOK, NoCall, CallRecord
    <3>2. [call[c] EXCEPT !.at = "failed"] \in CallRecord
      BY <3>1 DEF CallRecord
    <3> QED BY <1>6, <3>1, <3>2 DEF PersistFails, Raise
  <2>2. call' \in [Caller -> CallRecord]
    BY <1>6, <2>1 DEF PersistFails, Raise
  <2> QED BY <1>6, <2>2 DEF PersistFails, Raise, TypeOK, CarriedInv, Phase
<1>7. ASSUME NEW w \in Window, Serve(w) PROVE TypeInv'
  <2>1. reused' \in BOOLEAN /\ revoked' \in BOOLEAN
    BY <1>7 DEF Serve, TypeOK, Rotates, Refuses
  <2>2. /\ current' \in Token
        /\ carried' \in [Window -> 0..MaxTokens]
        /\ phase' \in [Window -> Phase]
        /\ CarriedInv'
    BY <1>7 DEF Serve, TypeOK, CarriedInv, Rotates, Refuses, Phase, Token
  <2> QED BY <1>7, <2>1, <2>2 DEF Serve, TypeOK
<1>8. ASSUME NEW w \in Window, Unreached(w) PROVE TypeInv'
  <2>1. /\ access[w] \in 0..MaxTokens /\ carried[w] \in 0..MaxTokens
        /\ 0 \in 0..MaxTokens
    BY DEF TypeOK
  <2>2. Finish(w, 0, access[w])
    BY <1>8 DEF Unreached
  <2>3. /\ phase' = [phase EXCEPT ![w] = "none"] /\ carried' = [carried EXCEPT ![w] = 0]
        /\ call' \in [Caller -> CallRecord]
    BY <2>1, <2>2, FinishKeeps
  <2> QED BY <1>8, <2>1, <2>3 DEF Unreached, TypeOK, CarriedInv, Phase, Token
<1>9. ASSUME NEW w \in Window, AnswerLost(w) PROVE TypeInv'
  <2>1. /\ access[w] \in 0..MaxTokens /\ carried[w] \in 0..MaxTokens
        /\ 0 \in 0..MaxTokens
    BY DEF TypeOK
  <2>2. Finish(w, 0, access[w])
    BY <1>9 DEF AnswerLost
  <2>3. /\ phase' = [phase EXCEPT ![w] = "none"] /\ carried' = [carried EXCEPT ![w] = 0]
        /\ call' \in [Caller -> CallRecord]
    BY <2>1, <2>2, FinishKeeps
  <2> QED BY <1>9, <2>1, <2>3 DEF AnswerLost, TypeOK, CarriedInv, Phase, Token
<1>10. ASSUME NEW w \in Window, Rejected(w) PROVE TypeInv'
  <2>1. /\ access[w] \in 0..MaxTokens /\ carried[w] \in 0..MaxTokens
        /\ 0 \in 0..MaxTokens
    BY DEF TypeOK
  <2>2. Finish(w, 0, 0)
    BY <1>10 DEF Rejected
  <2>3. /\ phase' = [phase EXCEPT ![w] = "none"] /\ carried' = [carried EXCEPT ![w] = 0]
        /\ call' \in [Caller -> CallRecord]
    BY <2>1, <2>2, FinishKeeps
  <2> QED BY <1>10, <2>1, <2>3 DEF Rejected, LoseSession, TypeOK, CarriedInv, Phase, Token
<1>11. ASSUME NEW w \in Window, Forbid(w) PROVE TypeInv'
  BY <1>11 DEF Forbid, TypeOK, CarriedInv, Phase
<1>12. ASSUME NEW w \in Window, AcquireLock(w) PROVE TypeInv'
  <2>1. access[w] \in 0..MaxTokens
    BY DEF TypeOK
  <2>2. CASE isExpiring(w)
    BY <1>12, <2>2 DEF AcquireLock, TypeOK, CarriedInv, Phase
  <2>3. CASE ~ isExpiring(w)
    <3>1. /\ phase' = [phase EXCEPT ![w] = "none"] /\ carried' = [carried EXCEPT ![w] = 0]
          /\ call' \in [Caller -> CallRecord]
      BY <1>12, <2>1, <2>3, FinishKeeps DEF AcquireLock
    <3> QED BY <1>12, <2>3, <3>1 DEF AcquireLock, TypeOK, CarriedInv, Phase
  <2> QED BY <2>2, <2>3
<1>13. ASSUME NEW w \in Window, Cleared(w) PROVE TypeInv'
  BY <1>13 DEF Cleared, TypeOK, CarriedInv
<1>14. ASSUME NEW w \in Window, Proactive(w) PROVE TypeInv'
  <2>1. /\ phase' \in [Window -> Phase]
        /\ Joined
    BY <1>14, JoinKeeps DEF Proactive
  <2> QED BY <1>14, <2>1 DEF Joined, Proactive, TypeOK, CarriedInv
<1>15. ASSUME NEW w \in Window, SocketRevoked(w) PROVE TypeInv'
  BY <1>15 DEF SocketRevoked, TypeOK, CarriedInv, LoseSession
<1>16. ASSUME NEW w \in Window, ClockPasses(w) PROVE TypeInv'
  BY <1>16 DEF ClockPasses, TypeOK, CarriedInv
<1>17. ASSUME NEW w \in Window, Close(w) PROVE TypeInv'
  <2>1. NoCall \in CallRecord
    BY DEF NoCall, CallRecord
  <2>2. call' \in [Caller -> CallRecord]
    BY <1>17, <2>1 DEF Close, TypeOK
  <2>3. late' \subseteq Token /\ lost' \in BOOLEAN
    BY <1>17 DEF Close, TypeOK, CarriedInv
  <2> QED BY <1>17, <2>2, <2>3 DEF Close, TypeOK, CarriedInv, Phase
<1>18. ASSUME NEW c \in Caller, Check(c) PROVE TypeInv'
  <2>1. /\ phase' \in [Window -> Phase] /\ call' \in [Caller -> CallRecord]
        /\ Joined
    <3>1. CASE call' = [call EXCEPT ![c] = NoCall] /\ UNCHANGED phase
      BY <1>18, <3>1 DEF Check, Joined, TypeOK, NoCall, CallRecord
    <3>2. CASE Ensure(c, "boot")
      BY <1>18, <3>2, EnsureKeeps DEF Check
    <3> QED BY <1>18, <3>1, <3>2 DEF Check
  <2> QED BY <1>18, <2>1 DEF Check, Joined, TypeOK, CarriedInv
<1>19. ASSUME NEW c \in Caller, Accepted(c) PROVE TypeInv'
  <2>1. /\ call' \in [Caller -> CallRecord] /\ access' \in [Window -> 0..MaxTokens]
        /\ fresh' \in [Window -> BOOLEAN]
        /\ status' \in [Window -> {"closed", "unknown", "in", "out"}]
    BY <1>19, ReturnKeeps DEF Accepted
  <2> QED BY <1>19, <2>1 DEF Accepted, TypeOK, CarriedInv, refreshVars, serverVars
<1>20. ASSUME NEW c \in Caller, Unauthorized(c) PROVE TypeInv'
  <2>1. /\ phase' \in [Window -> Phase]
        /\ Joined
    BY <1>20, JoinKeeps DEF Unauthorized
  <2> QED BY <1>20, <2>1 DEF Unauthorized, At, CallRecord, Joined, TypeOK, CarriedInv
<1>21. ASSUME NEW c \in Caller, UnauthorizedAgain(c) PROVE TypeInv'
  <2>1. /\ call' \in [Caller -> CallRecord] /\ access' \in [Window -> 0..MaxTokens]
        /\ fresh' \in [Window -> BOOLEAN]
        /\ status' \in [Window -> {"closed", "unknown", "in", "out"}]
    BY <1>21, ReturnKeeps DEF UnauthorizedAgain
  <2> QED BY <1>21, <2>1 DEF UnauthorizedAgain, Joined, TypeOK, CarriedInv, refreshVars, serverVars
<1>22. ASSUME NEW c \in Caller, Unanswered(c) PROVE TypeInv'
  <2>1. /\ call' \in [Caller -> CallRecord] /\ access' \in [Window -> 0..MaxTokens]
        /\ fresh' \in [Window -> BOOLEAN]
        /\ status' \in [Window -> {"closed", "unknown", "in", "out"}]
    BY <1>22, ReturnKeeps DEF Unanswered
  <2> QED BY <1>22, <2>1 DEF Unanswered, TypeOK, CarriedInv, refreshVars, serverVars
<1>23. ASSUME NEW c \in Caller, Failed(c) PROVE TypeInv'
  <2>1. /\ call' \in [Caller -> CallRecord] /\ access' \in [Window -> 0..MaxTokens]
        /\ fresh' \in [Window -> BOOLEAN]
        /\ status' \in [Window -> {"closed", "unknown", "in", "out"}]
    BY <1>23, ReturnKeeps DEF Failed
  <2> QED BY <1>23, <2>1 DEF Failed, TypeOK, CarriedInv, refreshVars, serverVars
<1>24. ASSUME NEW c \in Caller, ClearStore(c) PROVE TypeInv'
  BY <1>24 DEF ClearStore, TypeOK, CarriedInv, NoCall, CallRecord
<1>25. ASSUME NEW c \in Caller, Launch(c) PROVE TypeInv'
  BY <1>25 DEF Launch, TypeOK, CarriedInv, NoCall, CallRecord
<1>26. ASSUME NEW c \in Caller, NEW j \in {"api", "logout"}, Call(c, j) PROVE TypeInv'
  <2>1. /\ phase' \in [Window -> Phase] /\ call' \in [Caller -> CallRecord]
        /\ Joined
    BY <1>26, EnsureKeeps DEF Call
  <2> QED BY <1>26, <2>1 DEF Call, Joined, TypeOK, CarriedInv
<1>27. ASSUME NEW t \in Token, ServeLate(t) PROVE TypeInv'
  <2>1. reused' \in BOOLEAN /\ revoked' \in BOOLEAN
    BY <1>27 DEF ServeLate, TypeOK, Rotates, Refuses
  <2>2. current' \in Token
    BY <1>27 DEF ServeLate, TypeOK, Rotates, Refuses, Token
  <2> QED BY <1>27, <2>1, <2>2 DEF ServeLate, TypeOK, CarriedInv
<1>28. ASSUME NEW t \in Token, AccessExpires(t) PROVE TypeInv'
  BY <1>28 DEF AccessExpires, TypeOK, CarriedInv, Token
<1>29. CASE RemoteRevoke
  BY <1>29 DEF RemoteRevoke, TypeOK, CarriedInv
<1>30. ASSUME NEW w \in Window, ReadFails(w) PROVE TypeInv'
  <2>1. ASSUME NEW c \in Caller PROVE call'[c] \in CallRecord
    <3>1. call[c] \in CallRecord /\ NoCall \in CallRecord
      BY DEF TypeOK, NoCall, CallRecord
    <3>2. [call[c] EXCEPT !.at = "failed"] \in CallRecord
      BY <3>1 DEF CallRecord
    <3> QED BY <1>30, <3>1, <3>2 DEF ReadFails, Raise
  <2>2. call' \in [Caller -> CallRecord]
    BY <1>30, <2>1 DEF ReadFails, Raise
  <2> QED BY <1>30, <2>2 DEF ReadFails, Raise, TypeOK, CarriedInv, Phase
<1>31. ASSUME NEW w \in Window, ReadBlocked(w) PROVE TypeInv'
  <2>1. /\ access[w] \in 0..MaxTokens /\ carried[w] \in 0..MaxTokens
        /\ 0 \in 0..MaxTokens
    BY BoundAssumption DEF TypeOK
  <2>2. Finish(w, 0, 0)
    BY <1>31 DEF ReadBlocked
  <2>3. /\ phase' = [phase EXCEPT ![w] = "none"] /\ carried' = [carried EXCEPT ![w] = 0]
        /\ call' \in [Caller -> CallRecord]
    BY <2>1, <2>2, FinishKeeps
  <2> QED BY <1>31, <2>1, <2>3 DEF ReadBlocked, LoseSession, TypeOK, CarriedInv, Phase, Token
<1>32. ASSUME NEW w \in Window, PersistDropped(w) PROVE TypeInv'
  <2>1. /\ access[w] \in 0..MaxTokens /\ carried[w] \in 0..MaxTokens
        /\ 0 \in 0..MaxTokens
    BY BoundAssumption DEF TypeOK
  <2>2. Finish(w, carried[w], access[w])
    BY <1>32 DEF PersistDropped
  <2>3. /\ phase' = [phase EXCEPT ![w] = "none"] /\ carried' = [carried EXCEPT ![w] = 0]
        /\ call' \in [Caller -> CallRecord]
    BY <2>1, <2>2, FinishKeeps
  <2> QED BY <1>32, <2>1, <2>3 DEF PersistDropped, TypeOK, CarriedInv, Phase, Token
<1> QED BY <1>1, <1>2, <1>3, <1>4, <1>5, <1>6, <1>7, <1>8, <1>9, <1>10, <1>11, <1>12, <1>13, <1>14, <1>15, <1>16, <1>17, <1>18, <1>19, <1>20, <1>21, <1>22, <1>23, <1>24, <1>25, <1>26, <1>27, <1>28, <1>29, <1>30, <1>31, <1>32
       DEF Next, RefreshStep, CallStep

\* The lock, or being the only window, lets one refresh at a time past it.
LEMMA MutexStep == TypeInv /\ Mutex /\ [Next]_vars => Mutex'
<1> SUFFICES ASSUME TypeInv, Mutex, [Next]_vars PROVE Mutex'
  OBVIOUS
<1> USE HomeAssumption DEF TypeInv
<1>1. CASE UNCHANGED vars
  BY <1>1 DEF Mutex, Refreshing, vars, refreshVars
<1>2. ASSUME NEW w \in Window, Present(w) PROVE Mutex'
  BY <1>2 DEF Present, Mutex, Refreshing, TypeOK, refreshVars
<1>3. ASSUME NEW w \in Window, NothingStored(w) PROVE Mutex'
  BY <1>3 DEF NothingStored, Finish, Mutex, Refreshing, TypeOK
<1>4. ASSUME NEW w \in Window, Adopt(w) PROVE Mutex'
  BY <1>4 DEF Adopt, Mutex, Refreshing, TypeOK, refreshVars
<1>5. ASSUME NEW w \in Window, Persist(w) PROVE Mutex'
  BY <1>5 DEF Persist, Finish, Mutex, Refreshing, TypeOK
<1>6. ASSUME NEW w \in Window, PersistFails(w) PROVE Mutex'
  BY <1>6 DEF PersistFails, Raise, Mutex, Refreshing, TypeOK, refreshVars
<1>7. ASSUME NEW w \in Window, Serve(w) PROVE Mutex'
  BY <1>7 DEF Serve, Mutex, Refreshing, TypeOK, refreshVars
<1>8. ASSUME NEW w \in Window, Unreached(w) PROVE Mutex'
  BY <1>8 DEF Unreached, Finish, Mutex, Refreshing, TypeOK
<1>9. ASSUME NEW w \in Window, AnswerLost(w) PROVE Mutex'
  BY <1>9 DEF AnswerLost, Finish, Mutex, Refreshing, TypeOK
<1>10. ASSUME NEW w \in Window, Rejected(w) PROVE Mutex'
  BY <1>10 DEF Rejected, Finish, Mutex, Refreshing, TypeOK
<1>11. ASSUME NEW w \in Window, Forbid(w) PROVE Mutex'
  BY <1>11 DEF Forbid, Mutex, Refreshing, TypeOK, refreshVars
<1>12. ASSUME NEW w \in Window, AcquireLock(w) PROVE Mutex'
  <2>1. CASE isExpiring(w)
    BY <1>12, <2>1 DEF AcquireLock, Mutex, Refreshing, TypeOK
  <2>2. CASE ~ isExpiring(w)
    BY <1>12, <2>2 DEF AcquireLock, Finish, Mutex, Refreshing, TypeOK
  <2> QED BY <2>1, <2>2
<1>13. ASSUME NEW w \in Window, Cleared(w) PROVE Mutex'
  BY <1>13 DEF Cleared, Mutex, Refreshing, TypeOK, refreshVars
<1>14. ASSUME NEW w \in Window, Proactive(w) PROVE Mutex'
  <2>1. phase' = phase \/ ~ HasLocks \/ phase' = [phase EXCEPT ![w] = "lock"]
    BY <1>14, JoinKeeps DEF Proactive
  <2> QED BY <2>1, LocksAssumption DEF Mutex, Refreshing, TypeOK
<1>15. ASSUME NEW w \in Window, SocketRevoked(w) PROVE Mutex'
  BY <1>15 DEF SocketRevoked, Mutex, Refreshing, TypeOK, refreshVars
<1>16. ASSUME NEW w \in Window, ClockPasses(w) PROVE Mutex'
  BY <1>16 DEF ClockPasses, Mutex, Refreshing, TypeOK, refreshVars
<1>17. ASSUME NEW w \in Window, Close(w) PROVE Mutex'
  BY <1>17 DEF Close, Mutex, Refreshing, TypeOK, refreshVars
<1>18. ASSUME NEW c \in Caller, Check(c) PROVE Mutex'
  <2>1. phase' = phase \/ ~ HasLocks \/ phase' = [phase EXCEPT ![Home[c]] = "lock"]
    <3>1. CASE call' = [call EXCEPT ![c] = NoCall] /\ UNCHANGED phase
      BY <1>18, <3>1 DEF Check, Joined
    <3>2. CASE Ensure(c, "boot")
      BY <1>18, <3>2, EnsureKeeps DEF Check
    <3> QED BY <1>18, <3>1, <3>2 DEF Check
  <2> QED BY <2>1, LocksAssumption DEF Mutex, Refreshing, TypeOK
<1>19. ASSUME NEW c \in Caller, Accepted(c) PROVE Mutex'
  BY <1>19 DEF Accepted, Mutex, Refreshing, TypeOK, refreshVars
<1>20. ASSUME NEW c \in Caller, Unauthorized(c) PROVE Mutex'
  <2>1. phase' = phase \/ ~ HasLocks \/ phase' = [phase EXCEPT ![Home[c]] = "lock"]
    BY <1>20, JoinKeeps DEF Unauthorized
  <2> QED BY <2>1, LocksAssumption DEF Mutex, Refreshing, TypeOK
<1>21. ASSUME NEW c \in Caller, UnauthorizedAgain(c) PROVE Mutex'
  BY <1>21 DEF UnauthorizedAgain, Mutex, Refreshing, TypeOK, refreshVars
<1>22. ASSUME NEW c \in Caller, Unanswered(c) PROVE Mutex'
  BY <1>22 DEF Unanswered, Mutex, Refreshing, TypeOK, refreshVars
<1>23. ASSUME NEW c \in Caller, Failed(c) PROVE Mutex'
  BY <1>23 DEF Failed, Mutex, Refreshing, TypeOK, refreshVars
<1>24. ASSUME NEW c \in Caller, ClearStore(c) PROVE Mutex'
  BY <1>24 DEF ClearStore, Mutex, Refreshing, TypeOK, refreshVars
<1>25. ASSUME NEW c \in Caller, Launch(c) PROVE Mutex'
  BY <1>25 DEF Launch, Mutex, Refreshing, TypeOK, refreshVars
<1>26. ASSUME NEW c \in Caller, NEW j \in {"api", "logout"}, Call(c, j) PROVE Mutex'
  <2>1. phase' = phase \/ ~ HasLocks \/ phase' = [phase EXCEPT ![Home[c]] = "lock"]
    BY <1>26, EnsureKeeps DEF Call
  <2> QED BY <2>1, LocksAssumption DEF Mutex, Refreshing, TypeOK
<1>27. ASSUME NEW t \in Token, ServeLate(t) PROVE Mutex'
  BY <1>27 DEF ServeLate, Mutex, Refreshing, TypeOK, refreshVars
<1>28. ASSUME NEW t \in Token, AccessExpires(t) PROVE Mutex'
  BY <1>28 DEF AccessExpires, Mutex, Refreshing, TypeOK, refreshVars
<1>29. CASE RemoteRevoke
  BY <1>29 DEF RemoteRevoke, Mutex, Refreshing, TypeOK, refreshVars
<1>30. ASSUME NEW w \in Window, ReadFails(w) PROVE Mutex'
  BY <1>30 DEF ReadFails, Raise, Mutex, Refreshing, TypeOK
<1>31. ASSUME NEW w \in Window, ReadBlocked(w) PROVE Mutex'
  BY <1>31 DEF ReadBlocked, Finish, Mutex, Refreshing, TypeOK
<1>32. ASSUME NEW w \in Window, PersistDropped(w) PROVE Mutex'
  BY <1>32 DEF PersistDropped, Finish, Mutex, Refreshing, TypeOK
<1> QED BY <1>1, <1>2, <1>3, <1>4, <1>5, <1>6, <1>7, <1>8, <1>9, <1>10, <1>11, <1>12, <1>13, <1>14,
          <1>15, <1>16, <1>17, <1>18, <1>19, <1>20, <1>21, <1>22, <1>23, <1>24, <1>25, <1>26, <1>27, <1>28, <1>29, <1>30, <1>31, <1>32
       DEF Next, RefreshStep, CallStep

\* Until an answer is lost, the token presented and the token stored keep up
\* with the server.
LEMMA RotationStep == TypeInv /\ Mutex /\ RotationInv /\ NoReuse /\ [Next]_vars => (RotationInv /\ NoReuse)'
<1> SUFFICES ASSUME TypeInv, Mutex, RotationInv, NoReuse, [Next]_vars PROVE (RotationInv /\ NoReuse)'
  OBVIOUS
<1> USE HomeAssumption DEF TypeInv
<1>1. CASE UNCHANGED vars
  BY <1>1 DEF RotationInv, NoReuse, vars, refreshVars, serverVars, historyVars
<1>2. ASSUME NEW w \in Window, Present(w) PROVE (RotationInv /\ NoReuse)'
  BY <1>2 DEF Present, RotationInv, NoReuse, TypeOK, Mutex, Refreshing, serverVars, historyVars
<1>3. ASSUME NEW w \in Window, NothingStored(w) PROVE (RotationInv /\ NoReuse)'
  BY <1>3 DEF NothingStored, LoseSession, Finish, RotationInv, NoReuse, TypeOK, Mutex, Refreshing, refreshVars, serverVars, historyVars
<1>4. ASSUME NEW w \in Window, Adopt(w) PROVE (RotationInv /\ NoReuse)'
  BY <1>4 DEF Adopt, RotationInv, NoReuse, TypeOK, refreshVars, serverVars, historyVars
<1>5. ASSUME NEW w \in Window, Persist(w) PROVE (RotationInv /\ NoReuse)'
  BY <1>5 DEF Persist, Finish, RotationInv, NoReuse, TypeOK, Mutex, Refreshing, refreshVars, serverVars, historyVars
<1>6. ASSUME NEW w \in Window, PersistFails(w) PROVE (RotationInv /\ NoReuse)'
  BY <1>6 DEF PersistFails, Raise, RotationInv, NoReuse, TypeOK, refreshVars, serverVars, historyVars
<1>7. ASSUME NEW w \in Window, Serve(w) PROVE (RotationInv /\ NoReuse)'
  BY <1>7 DEF Serve, Rotates, Refuses, Mutex, Refreshing, Token, RotationInv, NoReuse, TypeOK, refreshVars, serverVars, historyVars
<1>8. ASSUME NEW w \in Window, Unreached(w) PROVE (RotationInv /\ NoReuse)'
  BY <1>8 DEF Unreached, Finish, RotationInv, NoReuse, TypeOK, Mutex, Refreshing, refreshVars, serverVars, historyVars
<1>9. ASSUME NEW w \in Window, AnswerLost(w) PROVE (RotationInv /\ NoReuse)'
  BY <1>9 DEF AnswerLost, Finish, RotationInv, NoReuse, TypeOK, Mutex, Refreshing, refreshVars, serverVars, historyVars
<1>10. ASSUME NEW w \in Window, Rejected(w) PROVE (RotationInv /\ NoReuse)'
  BY <1>10 DEF Rejected, LoseSession, Finish, RotationInv, NoReuse, TypeOK, Mutex, Refreshing, refreshVars, serverVars, historyVars
<1>11. ASSUME NEW w \in Window, Forbid(w) PROVE (RotationInv /\ NoReuse)'
  BY <1>11 DEF Forbid, RotationInv, NoReuse, TypeOK, refreshVars, serverVars, historyVars
<1>12. ASSUME NEW w \in Window, AcquireLock(w) PROVE (RotationInv /\ NoReuse)'
  <2>1. CASE isExpiring(w)
    BY <1>12, <2>1 DEF AcquireLock, RotationInv, NoReuse, TypeOK, refreshVars, serverVars, historyVars
  <2>2. CASE ~ isExpiring(w)
    BY <1>12, <2>2 DEF AcquireLock, Finish, RotationInv, NoReuse, TypeOK, refreshVars, serverVars, historyVars
  <2> QED BY <2>1, <2>2
<1>13. ASSUME NEW w \in Window, Cleared(w) PROVE (RotationInv /\ NoReuse)'
  BY <1>13 DEF Cleared, RotationInv, NoReuse, TypeOK, refreshVars, serverVars, historyVars
<1>14. ASSUME NEW w \in Window, Proactive(w) PROVE (RotationInv /\ NoReuse)'
  <2>1. Joined
    BY <1>14, JoinKeeps DEF Proactive
  <2> QED BY <1>14, <2>1 DEF Joined, Proactive, RotationInv, NoReuse, refreshVars, serverVars, historyVars
<1>15. ASSUME NEW w \in Window, SocketRevoked(w) PROVE (RotationInv /\ NoReuse)'
  BY <1>15 DEF SocketRevoked, RotationInv, NoReuse, TypeOK, refreshVars, serverVars, historyVars
<1>16. ASSUME NEW w \in Window, ClockPasses(w) PROVE (RotationInv /\ NoReuse)'
  BY <1>16 DEF ClockPasses, RotationInv, NoReuse, TypeOK, refreshVars, serverVars, historyVars
<1>17. ASSUME NEW w \in Window, Close(w) PROVE (RotationInv /\ NoReuse)'
  <2>1. CASE phase[w] \in {"sent", "granted", "persist"}
    BY <1>17, <2>1 DEF Close, RotationInv, NoReuse
  <2>2. CASE phase[w] \notin {"sent", "granted", "persist"}
    <3>1. /\ phase' = [phase EXCEPT ![w] = "none"] /\ carried' = [carried EXCEPT ![w] = 0]
          /\ UNCHANGED <<stored, current, late, reused>>
          /\ lost' = FALSE => ~ lost
      BY <1>17, <2>2 DEF Close
    <3>2. \A v \in Window : phase'[v] \in {"sent", "granted", "persist"}
                              => v # w /\ phase'[v] = phase[v] /\ carried'[v] = carried[v]
      BY <3>1 DEF TypeOK
    <3>3. \A v \in Window : phase[v] \in {"granted", "persist"} => phase'[v] = phase[v]
      BY <2>2, <3>1 DEF TypeOK
    <3> QED BY <1>17, <2>2, <3>1, <3>2, <3>3 DEF Close, RotationInv, NoReuse
  <2> QED BY <2>1, <2>2
<1>18. ASSUME NEW c \in Caller, Check(c) PROVE (RotationInv /\ NoReuse)'
  <2>1. Joined
    <3>1. CASE call' = [call EXCEPT ![c] = NoCall] /\ UNCHANGED phase
      BY <1>18, <3>1 DEF Check, Joined
    <3>2. CASE Ensure(c, "boot")
      BY <1>18, <3>2, EnsureKeeps DEF Check
    <3> QED BY <1>18, <3>1, <3>2 DEF Check
  <2> QED BY <1>18, <2>1 DEF Joined, Check, RotationInv, NoReuse, refreshVars, serverVars, historyVars
<1>19. ASSUME NEW c \in Caller, Accepted(c) PROVE (RotationInv /\ NoReuse)'
  BY <1>19 DEF Accepted, RotationInv, NoReuse, TypeOK, refreshVars, serverVars, historyVars
<1>20. ASSUME NEW c \in Caller, Unauthorized(c) PROVE (RotationInv /\ NoReuse)'
  <2>1. Joined
    BY <1>20, JoinKeeps DEF Unauthorized
  <2> QED BY <1>20, <2>1 DEF Joined, Unauthorized, RotationInv, NoReuse, refreshVars, serverVars, historyVars
<1>21. ASSUME NEW c \in Caller, UnauthorizedAgain(c) PROVE (RotationInv /\ NoReuse)'
  BY <1>21 DEF UnauthorizedAgain, RotationInv, NoReuse, TypeOK, refreshVars, serverVars, historyVars
<1>22. ASSUME NEW c \in Caller, Unanswered(c) PROVE (RotationInv /\ NoReuse)'
  BY <1>22 DEF Unanswered, RotationInv, NoReuse, TypeOK, refreshVars, serverVars, historyVars
<1>23. ASSUME NEW c \in Caller, Failed(c) PROVE (RotationInv /\ NoReuse)'
  BY <1>23 DEF Failed, RotationInv, NoReuse, TypeOK, refreshVars, serverVars, historyVars
<1>24. ASSUME NEW c \in Caller, ClearStore(c) PROVE (RotationInv /\ NoReuse)'
  BY <1>24 DEF ClearStore, RotationInv, NoReuse, TypeOK, refreshVars, serverVars, historyVars
<1>25. ASSUME NEW c \in Caller, Launch(c) PROVE (RotationInv /\ NoReuse)'
  BY <1>25 DEF Launch, RotationInv, NoReuse, TypeOK, refreshVars, serverVars, historyVars
<1>26. ASSUME NEW c \in Caller, NEW j \in {"api", "logout"}, Call(c, j) PROVE (RotationInv /\ NoReuse)'
  <2>1. Joined
    BY <1>26, EnsureKeeps DEF Call
  <2> QED BY <1>26, <2>1 DEF Joined, Call, RotationInv, NoReuse, refreshVars, serverVars, historyVars
<1>27. ASSUME NEW t \in Token, ServeLate(t) PROVE (RotationInv /\ NoReuse)'
  BY <1>27 DEF ServeLate, Rotates, Refuses, RotationInv, NoReuse, TypeOK, refreshVars, serverVars, historyVars
<1>28. ASSUME NEW t \in Token, AccessExpires(t) PROVE (RotationInv /\ NoReuse)'
  BY <1>28 DEF AccessExpires, RotationInv, NoReuse, TypeOK, refreshVars, serverVars, historyVars
<1>29. CASE RemoteRevoke
  BY <1>29 DEF RemoteRevoke, RotationInv, NoReuse, TypeOK, refreshVars, serverVars, historyVars
<1>30. ASSUME NEW w \in Window, ReadFails(w) PROVE (RotationInv /\ NoReuse)'
  BY <1>30 DEF ReadFails, Raise, RotationInv, NoReuse, TypeOK, Mutex, Refreshing, serverVars, historyVars
<1>31. ASSUME NEW w \in Window, ReadBlocked(w) PROVE (RotationInv /\ NoReuse)'
  BY <1>31 DEF ReadBlocked, RotationInv, NoReuse, serverVars
<1>32. ASSUME NEW w \in Window, PersistDropped(w) PROVE (RotationInv /\ NoReuse)'
  BY <1>32 DEF PersistDropped, RotationInv, NoReuse, serverVars
<1> QED BY <1>1, <1>2, <1>3, <1>4, <1>5, <1>6, <1>7, <1>8, <1>9, <1>10, <1>11, <1>12, <1>13, <1>14,
          <1>15, <1>16, <1>17, <1>18, <1>19, <1>20, <1>21, <1>22, <1>23, <1>24, <1>25, <1>26, <1>27, <1>28, <1>29, <1>30, <1>31, <1>32
       DEF Next, RefreshStep, CallStep

\* The login ends, or is about to, for a reason only.
LEMMA CauseStep == TypeInv /\ RotationInv /\ LoginKept /\ CauseInv /\ [Next]_vars => (LoginKept /\ CauseInv)'
<1> SUFFICES ASSUME TypeInv, RotationInv, LoginKept, CauseInv, [Next]_vars PROVE (LoginKept /\ CauseInv)'
  OBVIOUS
<1> USE HomeAssumption DEF TypeInv
<1>1. CASE UNCHANGED vars
  BY <1>1 DEF LoginKept, CauseInv, vars, refreshVars, serverVars, historyVars
<1>2. ASSUME NEW w \in Window, Present(w) PROVE (LoginKept /\ CauseInv)'
  BY <1>2 DEF Present, LoginKept, CauseInv, TypeOK, refreshVars, serverVars, historyVars
<1>3. ASSUME NEW w \in Window, NothingStored(w) PROVE (LoginKept /\ CauseInv)'
  <2>1. /\ access[w] \in 0..MaxTokens /\ carried[w] \in 0..MaxTokens
        /\ 0 \in 0..MaxTokens
    BY BoundAssumption DEF TypeOK
  <2>2. Finish(w, 0, 0)
    BY <1>3 DEF NothingStored
  <2>3. /\ phase' = [phase EXCEPT ![w] = "none"]
        /\ \A c \in Caller : /\ call'[c].job = call[c].job
                             /\ call'[c].at = "clear" => call[c].at = "clear"
    BY <2>1, <2>2, FinishKeeps
  <2> QED BY <1>3, <2>3 DEF NothingStored, LoseSession, LoginKept, CauseInv, TypeOK, CarriedInv, Token, refreshVars, serverVars, historyVars
<1>4. ASSUME NEW w \in Window, Adopt(w) PROVE (LoginKept /\ CauseInv)'
  BY <1>4 DEF Adopt, LoginKept, CauseInv, TypeOK, refreshVars, serverVars, historyVars
<1>5. ASSUME NEW w \in Window, Persist(w) PROVE (LoginKept /\ CauseInv)'
  <2>1. /\ access[w] \in 0..MaxTokens /\ carried[w] \in 0..MaxTokens
        /\ 0 \in 0..MaxTokens
    BY BoundAssumption DEF TypeOK
  <2>2. Finish(w, carried[w], access[w])
    BY <1>5 DEF Persist
  <2>3. /\ phase' = [phase EXCEPT ![w] = "none"]
        /\ \A c \in Caller : /\ call'[c].job = call[c].job
                             /\ call'[c].at = "clear" => call[c].at = "clear"
    BY <2>1, <2>2, FinishKeeps
  <2> QED BY <1>5, <2>3 DEF Persist, LoginKept, CauseInv, TypeOK, CarriedInv, Token, refreshVars, serverVars, historyVars
<1>6. ASSUME NEW w \in Window, PersistFails(w) PROVE (LoginKept /\ CauseInv)'
  BY <1>6 DEF PersistFails, Raise, NoCall, LoginKept, CauseInv, TypeOK, refreshVars, serverVars, historyVars
<1>7. ASSUME NEW w \in Window, Serve(w) PROVE (LoginKept /\ CauseInv)'
  BY <1>7 DEF Serve, Rotates, Refuses, RotationInv, LoginKept, CauseInv, TypeOK, refreshVars, serverVars, historyVars
<1>8. ASSUME NEW w \in Window, Unreached(w) PROVE (LoginKept /\ CauseInv)'
  <2>1. /\ access[w] \in 0..MaxTokens /\ carried[w] \in 0..MaxTokens
        /\ 0 \in 0..MaxTokens
    BY BoundAssumption DEF TypeOK
  <2>2. Finish(w, 0, access[w])
    BY <1>8 DEF Unreached
  <2>3. /\ phase' = [phase EXCEPT ![w] = "none"]
        /\ \A c \in Caller : /\ call'[c].job = call[c].job
                             /\ call'[c].at = "clear" => call[c].at = "clear"
    BY <2>1, <2>2, FinishKeeps
  <2> QED BY <1>8, <2>3 DEF Unreached, LoginKept, CauseInv, TypeOK, CarriedInv, Token, refreshVars, serverVars, historyVars
<1>9. ASSUME NEW w \in Window, AnswerLost(w) PROVE (LoginKept /\ CauseInv)'
  <2>1. /\ access[w] \in 0..MaxTokens /\ carried[w] \in 0..MaxTokens
        /\ 0 \in 0..MaxTokens
    BY BoundAssumption DEF TypeOK
  <2>2. Finish(w, 0, access[w])
    BY <1>9 DEF AnswerLost
  <2>3. /\ phase' = [phase EXCEPT ![w] = "none"]
        /\ \A c \in Caller : /\ call'[c].job = call[c].job
                             /\ call'[c].at = "clear" => call[c].at = "clear"
    BY <2>1, <2>2, FinishKeeps
  <2> QED BY <1>9, <2>3 DEF AnswerLost, LoginKept, CauseInv, TypeOK, CarriedInv, Token, refreshVars, serverVars, historyVars
<1>10. ASSUME NEW w \in Window, Rejected(w) PROVE (LoginKept /\ CauseInv)'
  <2>1. /\ access[w] \in 0..MaxTokens /\ carried[w] \in 0..MaxTokens
        /\ 0 \in 0..MaxTokens
    BY BoundAssumption DEF TypeOK
  <2>2. Finish(w, 0, 0)
    BY <1>10 DEF Rejected
  <2>3. /\ phase' = [phase EXCEPT ![w] = "none"]
        /\ \A c \in Caller : /\ call'[c].job = call[c].job
                             /\ call'[c].at = "clear" => call[c].at = "clear"
    BY <2>1, <2>2, FinishKeeps
  <2> QED BY <1>10, <2>3 DEF Rejected, LoseSession, LoginKept, CauseInv, TypeOK, CarriedInv, Token, refreshVars, serverVars, historyVars
<1>11. ASSUME NEW w \in Window, Forbid(w) PROVE (LoginKept /\ CauseInv)'
  BY <1>11 DEF Forbid, LoginKept, CauseInv, TypeOK, refreshVars, serverVars, historyVars
<1>12. ASSUME NEW w \in Window, AcquireLock(w) PROVE (LoginKept /\ CauseInv)'
  <2>1. CASE isExpiring(w)
    BY <1>12, <2>1 DEF AcquireLock, LoginKept, CauseInv, TypeOK, refreshVars, serverVars, historyVars
  <2>2. CASE ~ isExpiring(w)
    <3>1. access[w] \in 0..MaxTokens
      BY DEF TypeOK
    <3>2. /\ phase' = [phase EXCEPT ![w] = "none"]
          /\ \A c \in Caller : /\ call'[c].job = call[c].job
                               /\ call'[c].at = "clear" => call[c].at = "clear"
      BY <1>12, <2>2, <3>1, FinishKeeps DEF AcquireLock
    <3> QED BY <1>12, <2>2, <3>2 DEF AcquireLock, LoginKept, CauseInv, TypeOK, refreshVars, serverVars, historyVars
  <2> QED BY <2>1, <2>2
<1>13. ASSUME NEW w \in Window, Cleared(w) PROVE (LoginKept /\ CauseInv)'
  BY <1>13 DEF Cleared, LoginKept, CauseInv, TypeOK, refreshVars, serverVars, historyVars
<1>14. ASSUME NEW w \in Window, Proactive(w) PROVE (LoginKept /\ CauseInv)'
  <2>1. /\ Joined
    BY <1>14, JoinKeeps DEF Proactive
  <2> QED BY <1>14, <2>1 DEF Joined, Proactive, LoginKept, CauseInv, TypeOK, refreshVars, serverVars, historyVars
<1>15. ASSUME NEW w \in Window, SocketRevoked(w) PROVE (LoginKept /\ CauseInv)'
  BY <1>15 DEF SocketRevoked, LoseSession, LoginKept, CauseInv, TypeOK, refreshVars, serverVars, historyVars
<1>16. ASSUME NEW w \in Window, ClockPasses(w) PROVE (LoginKept /\ CauseInv)'
  BY <1>16 DEF ClockPasses, LoginKept, CauseInv, TypeOK, refreshVars, serverVars, historyVars
<1>17. ASSUME NEW w \in Window, Close(w) PROVE (LoginKept /\ CauseInv)'
  BY <1>17 DEF Close, NoCall, LoginKept, CauseInv, TypeOK, refreshVars, serverVars, historyVars
<1>18. ASSUME NEW c \in Caller, Check(c) PROVE (LoginKept /\ CauseInv)'
  <2>1. /\ Joined
        /\ \A d \in Caller : /\ call'[d].job = "logout" => call[d].job = "logout"
                             /\ call'[d].at = "clear" => call[d].at = "clear"
    <3>1. CASE call' = [call EXCEPT ![c] = NoCall] /\ UNCHANGED phase
      BY <1>18, <3>1 DEF Check, Joined, NoCall, TypeOK
    <3>2. CASE Ensure(c, "boot")
      BY <1>18, <3>2, EnsureKeeps DEF Check
    <3> QED BY <1>18, <3>1, <3>2 DEF Check
  <2> QED BY <1>18, <2>1 DEF Joined, Check, LoginKept, CauseInv, TypeOK, refreshVars, serverVars, historyVars
<1>19. ASSUME NEW c \in Caller, Accepted(c) PROVE (LoginKept /\ CauseInv)'
  <2>1. \A d \in Caller : /\ call'[d].job = "logout" => call[d].job = "logout"
                          /\ call'[d].at = "clear" => call[d].at = "clear" \/ call[d].job = "logout"
    BY <1>19, ReturnKeeps DEF Accepted
  <2> QED BY <1>19, <2>1 DEF Accepted, LoginKept, CauseInv, refreshVars, serverVars, historyVars
<1>20. ASSUME NEW c \in Caller, Unauthorized(c) PROVE (LoginKept /\ CauseInv)'
  <2>1. /\ Joined
    BY <1>20, JoinKeeps DEF Unauthorized
  <2> QED BY <1>20, <2>1 DEF Joined, Unauthorized, At, LoginKept, CauseInv, TypeOK, refreshVars, serverVars, historyVars
<1>21. ASSUME NEW c \in Caller, UnauthorizedAgain(c) PROVE (LoginKept /\ CauseInv)'
  <2>1. \A d \in Caller : /\ call'[d].job = "logout" => call[d].job = "logout"
                          /\ call'[d].at = "clear" => call[d].at = "clear" \/ call[d].job = "logout"
    BY <1>21, ReturnKeeps DEF UnauthorizedAgain
  <2> QED BY <1>21, <2>1 DEF UnauthorizedAgain, LoginKept, CauseInv, refreshVars, serverVars, historyVars
<1>22. ASSUME NEW c \in Caller, Unanswered(c) PROVE (LoginKept /\ CauseInv)'
  <2>1. \A d \in Caller : /\ call'[d].job = "logout" => call[d].job = "logout"
                          /\ call'[d].at = "clear" => call[d].at = "clear" \/ call[d].job = "logout"
    BY <1>22, ReturnKeeps DEF Unanswered
  <2> QED BY <1>22, <2>1 DEF Unanswered, LoginKept, CauseInv, refreshVars, serverVars, historyVars
<1>23. ASSUME NEW c \in Caller, Failed(c) PROVE (LoginKept /\ CauseInv)'
  <2>1. \A d \in Caller : /\ call'[d].job = "logout" => call[d].job = "logout"
                          /\ call'[d].at = "clear" => call[d].at = "clear" \/ call[d].job = "logout"
    BY <1>23, ReturnKeeps DEF Failed
  <2> QED BY <1>23, <2>1 DEF Failed, LoginKept, CauseInv, refreshVars, serverVars, historyVars
<1>24. ASSUME NEW c \in Caller, ClearStore(c) PROVE (LoginKept /\ CauseInv)'
  BY <1>24 DEF ClearStore, NoCall, LoginKept, CauseInv, TypeOK, refreshVars, serverVars, historyVars
<1>25. ASSUME NEW c \in Caller, Launch(c) PROVE (LoginKept /\ CauseInv)'
  BY <1>25 DEF Launch, LoginKept, CauseInv, TypeOK, refreshVars, serverVars, historyVars
<1>26. ASSUME NEW c \in Caller, NEW j \in {"api", "logout"}, Call(c, j) PROVE (LoginKept /\ CauseInv)'
  <2>1. /\ Joined
        /\ \A d \in Caller : /\ call'[d].job = "logout" => call[d].job = "logout" \/ j = "logout"
                             /\ call'[d].at = "clear" => call[d].at = "clear"
    BY <1>26, EnsureKeeps DEF Call
  <2> QED BY <1>26, <2>1 DEF Joined, Call, LoginKept, CauseInv, TypeOK, refreshVars, serverVars, historyVars
<1>27. ASSUME NEW t \in Token, ServeLate(t) PROVE (LoginKept /\ CauseInv)'
  BY <1>27 DEF ServeLate, Rotates, Refuses, RotationInv, LoginKept, CauseInv, TypeOK, refreshVars, serverVars, historyVars
<1>28. ASSUME NEW t \in Token, AccessExpires(t) PROVE (LoginKept /\ CauseInv)'
  BY <1>28 DEF AccessExpires, LoginKept, CauseInv, TypeOK, refreshVars, serverVars, historyVars
<1>29. CASE RemoteRevoke
  BY <1>29 DEF RemoteRevoke, LoginKept, CauseInv, TypeOK, refreshVars, serverVars, historyVars
<1>30. ASSUME NEW w \in Window, ReadFails(w) PROVE (LoginKept /\ CauseInv)'
  BY <1>30 DEF ReadFails, Raise, NoCall, LoginKept, CauseInv, TypeOK, serverVars, historyVars
<1>31. ASSUME NEW w \in Window, ReadBlocked(w) PROVE (LoginKept /\ CauseInv)'
  <2>1. /\ access[w] \in 0..MaxTokens /\ carried[w] \in 0..MaxTokens
        /\ 0 \in 0..MaxTokens
    BY BoundAssumption DEF TypeOK
  <2>2. Finish(w, 0, 0)
    BY <1>31 DEF ReadBlocked
  <2>3. /\ phase' = [phase EXCEPT ![w] = "none"]
        /\ \A c \in Caller : /\ call'[c].job = call[c].job
                             /\ call'[c].at = "clear" => call[c].at = "clear"
    BY <2>1, <2>2, FinishKeeps
  <2> QED BY <1>31, <2>3 DEF ReadBlocked, LoseSession, LoginKept, CauseInv, TypeOK, serverVars
<1>32. ASSUME NEW w \in Window, PersistDropped(w) PROVE (LoginKept /\ CauseInv)'
  <2>1. /\ access[w] \in 0..MaxTokens /\ carried[w] \in 0..MaxTokens
        /\ 0 \in 0..MaxTokens
    BY BoundAssumption DEF TypeOK
  <2>2. Finish(w, carried[w], access[w])
    BY <1>32 DEF PersistDropped
  <2>3. /\ phase' = [phase EXCEPT ![w] = "none"]
        /\ \A c \in Caller : /\ call'[c].job = call[c].job
                             /\ call'[c].at = "clear" => call[c].at = "clear"
    BY <2>1, <2>2, FinishKeeps
  <2> QED BY <1>32, <2>3 DEF PersistDropped, LoginKept, CauseInv, TypeOK, serverVars
<1> QED BY <1>1, <1>2, <1>3, <1>4, <1>5, <1>6, <1>7, <1>8, <1>9, <1>10, <1>11, <1>12, <1>13, <1>14,
          <1>15, <1>16, <1>17, <1>18, <1>19, <1>20, <1>21, <1>22, <1>23, <1>24, <1>25, <1>26, <1>27, <1>28, <1>29, <1>30, <1>31, <1>32
       DEF Next, RefreshStep, CallStep

\* Every variable keeps its type, and whatever is presented to the server or
\* adopted is a token (performRefresh checks that the store held one).
THEOREM SessionTypes == Spec => []TypeOK
<1>1. TypeInv => TypeOK
  BY DEF TypeInv
<1> QED BY <1>1, TypeInit, TypeStep, PTL DEF Spec

SessionInv ==
  /\ TypeInv /\ Mutex /\ RotationInv /\ NoReuse /\ LoginKept /\ CauseInv

\* What the three properties rest on holds in every state.
LEMMA SessionCorrect == Spec => []SessionInv
<1>1. Init => SessionInv
  <2> SUFFICES ASSUME Init PROVE SessionInv
    OBVIOUS
  <2>1. Mutex /\ RotationInv /\ NoReuse /\ LoginKept /\ CauseInv
    BY DEF Init, Mutex, Refreshing, RotationInv, NoReuse, LoginKept, CauseInv, NoCall
  <2> QED BY <2>1, TypeInit DEF SessionInv
<1>2. SessionInv /\ [Next]_vars => SessionInv'
  BY TypeStep, MutexStep, RotationStep, CauseStep DEF SessionInv
<1> QED BY <1>1, <1>2, PTL DEF Spec

\* The server never sees a used refresh token before an answer is lost: no order
\* of windows, timers, 401s and sign-outs presents a token twice (refreshOnce).
THEOREM NoReuseCorrect == Spec => []NoReuse
<1>1. SessionInv => NoReuse
  BY DEF SessionInv
<1> QED BY <1>1, SessionCorrect, PTL

\* Network errors, 429 and 5xx never end a login (performRefresh, loseSession).
THEOREM LoginKeptCorrect == Spec => []LoginKept
<1>1. SessionInv => LoginKept
  BY DEF SessionInv
<1> QED BY <1>1, SessionCorrect, PTL

\* The stored token can revive the session, or its replacement is on the way
\* (adoptTokens).
THEOREM RecoverableCorrect == Spec => []Recoverable
<1>1. SessionInv => Recoverable
  BY DEF SessionInv, Recoverable, RotationInv, LoginKept
<1> QED BY <1>1, SessionCorrect, PTL

=============================================================================
