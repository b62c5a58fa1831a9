------------------------ MODULE MessagePipelineProofs ------------------------
(***************************************************************************)
(* What holds of MessagePipeline for every set of requests, workers and    *)
(* handlers, every retry limit and every bound on sends, crashes and       *)
(* faults.                                                                 *)
(***************************************************************************)
EXTENDS MessagePipeline, FiniteSetTheorems, TLAPS

\* A worker's handlers hold finitely many copies of a delivery.
LEMMA HeldByCount ==
  ASSUME NEW w \in Worker, NEW d \in Delivery
  PROVE  /\ Cardinality(HeldBy(w, d)) \in Nat
         /\ HeldBy(w, d) # {} => Cardinality(HeldBy(w, d)) > 0
<1>1. IsFiniteSet(HeldBy(w, d))
  BY HandlerAssumption, FS_Subset DEF HeldBy
<1>2. Cardinality(HeldBy(w, d)) \in Nat
  BY <1>1, FS_CardinalityType
<1>3. HeldBy(w, d) # {} => Cardinality(HeldBy(w, d)) # 0
  BY <1>1, FS_EmptySet
<1> QED BY <1>2, <1>3

\* The fields of the copies the pipeline makes.
LEMMA CopyFields ==
  /\ \A e \in Request :
       FirstCopy(e) \in Delivery /\ FirstCopy(e).event = e /\ FirstCopy(e).retry = 0
  /\ \A d \in Delivery : d.retry < RetryLimit =>
       /\ RetryCopy(d) \in Delivery
       /\ RetryCopy(d).event = d.event
       /\ RetryCopy(d).retry = d.retry + 1
  /\ \A d \in Delivery : d.event \in Request /\ d.retry \in Nat
BY LimitAssumption DEF FirstCopy, RetryCopy, Delivery

\* A handler that is past "idle" holds a delivery; needed with TypeOK because
\* cur also ranges over NoDelivery.
HoldsDelivery == \A h \in Handler : pc[h] # "idle" => cur[h] \in Delivery

TypeInv == TypeOK /\ HoldsDelivery

\* The deployed system starts with every variable of its type.
LEMMA TypeInit == Init => TypeInv
BY LimitAssumption DEF Init, TypeInv, TypeOK, HoldsDelivery, BridgeState, PC

\* No step of the gateway, a bridge or a handler takes a variable out of its
\* type, nor lets a busy handler hold no delivery.
LEMMA TypeStep == TypeInv /\ [Next]_vars => TypeInv'
<1> SUFFICES ASSUME TypeInv, [Next]_vars PROVE TypeInv'
  OBVIOUS
<1> USE DEF TypeInv, TypeOK, HoldsDelivery
<1>1. CASE \E p \in InitialMember : RemoveMember(p)
  BY <1>1 DEF RemoveMember, clientVars, bridgeVars, handlerVars, dbVars, eventVars
<1>2. CASE \E e \in Request : SendMessage(e)
  BY <1>2 DEF SendMessage, clientVars, bridgeVars, handlerVars, dbVars, eventVars
<1>3. ASSUME NEW w \in Worker, StartWorker(w) PROVE TypeInv'
  BY <1>3 DEF StartWorker, BridgeState, clientVars, bridgeVars, handlerVars, dbVars, eventVars
<1>4. ASSUME NEW w \in Worker, Subscribe(w) PROVE TypeInv'
  BY <1>4 DEF Subscribe, BridgeState, clientVars, bridgeVars, handlerVars, dbVars, eventVars
<1>5. ASSUME NEW w \in Worker, BridgeEvent(w) PROVE TypeInv'
  <2>1. Head(buffer[w]) \in Request
    BY <1>5 DEF BridgeEvent
  <2>2. FirstCopy(Head(buffer[w])) \in Delivery
    BY <2>1, LimitAssumption DEF FirstCopy, Delivery
  <2> QED
    BY <1>5, <2>1, <2>2 DEF BridgeEvent, clientVars, bridgeVars, handlerVars, dbVars, eventVars
<1>6. ASSUME NEW w \in Worker, BridgeDies(w) PROVE TypeInv'
  BY <1>6 DEF BridgeDies, BridgeState, clientVars, bridgeVars, handlerVars, dbVars, eventVars
<1>7. ASSUME NEW w \in Worker, Crash(w) PROVE TypeInv'
  <2>1. queue' \in [Delivery -> Nat]
    BY <1>7, HeldByCount DEF Crash
  <2>2. /\ pc' \in [Handler -> PC]
        /\ cur' \in [Handler -> Delivery \cup {NoDelivery}]
        /\ mid' \in [Handler -> Nat]
        /\ HoldsDelivery'
    BY <1>7 DEF Crash, PC
  <2> QED
    BY <1>7, <2>1, <2>2 DEF Crash, BridgeState, clientVars, bridgeVars, handlerVars, dbVars, eventVars
<1>8. ASSUME NEW h \in Handler, NEW d \in Delivery, Deliver(h, d) PROVE TypeInv'
  BY <1>8 DEF Deliver, PC, clientVars, bridgeVars, handlerVars, dbVars, eventVars
<1>9. ASSUME NEW h \in Handler, HandlerStep(h) \/ HandlerFault(h) \/ HandlerStuck(h)
      PROVE  TypeInv'
  <2> USE DEF Goto, PC, clientVars, bridgeVars, handlerVars, dbVars, eventVars
  <2>1. pc[h] # "idle" => cur[h] \in Delivery /\ cur[h].event \in Request
                          /\ cur[h].retry \in 0 .. RetryLimit
                          /\ cur[h].event.client \in ClientId
    BY DEF Delivery, ClientId
  <2>2. CASE RejectNonMember(h)
    BY <2>1, <2>2 DEF RejectNonMember, Raise
  <2>3. CASE ReuseExisting(h)
    BY <2>1, <2>3 DEF ReuseExisting
  <2>4. CASE InsertMessage(h)
    BY <2>1, <2>4 DEF InsertMessage
  <2>5. CASE TakeDedupKey(h)
    BY <2>1, <2>5 DEF TakeDedupKey
  <2>6. CASE DedupKeyTaken(h)
    BY <2>1, <2>6 DEF DedupKeyTaken, Raise
  <2>7. CASE Commit(h)
    BY <2>1, <2>7 DEF Commit
  <2>8. CASE PublishPersisted(h)
    BY <2>1, <2>8 DEF PublishPersisted
  <2>9. CASE PublishAck(h)
    BY <2>1, <2>9 DEF PublishAck
  <2>10. CASE Notify(h)
    BY <2>1, <2>10 DEF Notify
  <2>11. CASE Republish(h)
    <3>1. RetryCopy(cur[h]) \in Delivery
      BY <2>1, <2>11, LimitAssumption DEF Republish, RetryCopy, Delivery
    <3> QED BY <2>1, <2>11, <3>1 DEF Republish
  <2>12. CASE PublishRetrying(h)
    BY <2>1, <2>12 DEF PublishRetrying
  <2>13. CASE GiveUp(h)
    BY <2>1, <2>13 DEF GiveUp
  <2>14. CASE PublishFailed(h)
    BY <2>1, <2>14 DEF PublishFailed
  <2>15. CASE BasicAck(h)
    BY <2>1, <2>15 DEF BasicAck
  <2>16. CASE HandlerFault(h)
    BY <2>1, <2>16 DEF HandlerFault, Raise
  <2>17. CASE HandlerStuck(h)
    BY <2>1, <2>17 DEF HandlerStuck
  <2>18. CASE CheckMember(h)
    BY <2>1, <2>18 DEF CheckMember
  <2> QED
    BY <1>9, <2>2, <2>3, <2>4, <2>5, <2>6, <2>7, <2>8, <2>9, <2>10, <2>11, <2>12,
       <2>13, <2>14, <2>15, <2>16, <2>17, <2>18 DEF HandlerStep
<1>10. CASE UNCHANGED vars
  BY <1>10 DEF vars, clientVars, bridgeVars, handlerVars, dbVars, eventVars
<1> QED
  BY <1>1, <1>2, <1>3, <1>4, <1>5, <1>6, <1>7, <1>8, <1>9, <1>10 DEF Next

\* Every variable keeps its type (all handlers of the pipeline).
THEOREM TypeCorrect == Spec => []TypeOK
<1>1. Spec => []TypeInv
  BY TypeInit, TypeStep, PTL DEF Spec
<1>2. TypeInv => TypeOK
  BY DEF TypeInv
<1> QED BY <1>1, <1>2, PTL

\* After a crash a delivery is ready if it was, or if the dead worker held it.
LEMMA CrashQueue ==
  ASSUME TypeInv, NEW w \in Worker, Crash(w), NEW d \in Delivery
  PROVE  queue'[d] > 0 <=> \/ queue[d] > 0
                           \/ \E h \in Handler : Host[h] = w /\ pc[h] # "idle" /\ cur[h] = d
<1>1. queue'[d] = queue[d] + Cardinality(HeldBy(w, d))
  BY DEF Crash
<1>2. HeldBy(w, d) = {} => Cardinality(HeldBy(w, d)) = 0
  BY FS_EmptySet
<1>3. HeldBy(w, d) # {} <=>
        \E h \in Handler : Host[h] = w /\ pc[h] # "idle" /\ cur[h] = d
  BY DEF HeldBy
<1>4. queue[d] \in Nat
  BY DEF TypeInv, TypeOK
<1> QED BY <1>1, <1>2, <1>3, <1>4, HeldByCount

\* An exception keeps RetryInv: it is counted, and no count goes down.
LEMMA RaiseRetry ==
  ASSUME TypeInv, RetryInv, NEW h \in Handler, pc[h] # "idle", Raise(h)
  PROVE  RetryInv'
<1>1. cur[h] \in Delivery /\ cur[h].event \in Request /\ cur[h].retry \in Nat
  BY CopyFields DEF TypeInv, HoldsDelivery
<1>2. attempts' = [attempts EXCEPT ![cur[h].event] = @ + 1]
  BY DEF Raise
<1>3. /\ \A e \in Request : attempts[e] \in Nat /\ attempts'[e] \in Nat /\ attempts'[e] >= attempts[e]
      /\ attempts'[cur[h].event] = attempts[cur[h].event] + 1
  BY <1>1, <1>2 DEF TypeInv, TypeOK
<1>4. /\ queue' = queue /\ cur' = cur /\ failed' = failed
      /\ \A g \in Handler : pc'[g] = IF g = h THEN "error" ELSE pc[g]
  BY DEF Raise, Goto, eventVars, TypeInv, TypeOK
<1>5. \A d \in Delivery : queue'[d] > 0 => attempts'[d.event] >= d.retry
  BY <1>3, <1>4, CopyFields DEF RetryInv
<1>6. ASSUME NEW g \in Handler, pc'[g] # "idle"
      PROVE  /\ attempts'[cur[g].event] >= cur[g].retry
             /\ pc'[g] \in {"error", "giveup"} => attempts'[cur[g].event] > cur[g].retry
             /\ pc'[g] = "giveup" => cur[g].retry = RetryLimit
  <2>1. pc[g] # "idle" /\ cur[g] \in Delivery
        /\ cur[g].event \in Request /\ cur[g].retry \in Nat
    BY <1>1, <1>4, <1>6, CopyFields DEF TypeInv, HoldsDelivery
  <2>2. attempts[cur[g].event] >= cur[g].retry
    BY <2>1 DEF RetryInv
  <2> QED BY <1>3, <1>4, <2>1, <2>2 DEF RetryInv
<1>7. \A e \in failed' : attempts'[e] > RetryLimit
  BY <1>3, <1>4, LimitAssumption DEF RetryInv, FailedOnlyAfterAllRetries, TypeInv, TypeOK
<1> QED BY <1>4, <1>5, <1>6, <1>7 DEF RetryInv, FailedOnlyAfterAllRetries

\* No step breaks the agreement of rows, dedup keys, open transactions and events.
LEMMA OnceStep == TypeInv /\ OnceInv /\ [Next]_vars => OnceInv'
<1> SUFFICES ASSUME TypeInv, OnceInv, [Next]_vars PROVE OnceInv'
  OBVIOUS
<1> USE DEF TypeInv, TypeOK, HoldsDelivery, OnceInv, StoreInv, DraftInv, Drafting, PublishInv,
           AckNamesDurableRow
<1>1. CASE \E p \in InitialMember : RemoveMember(p)
  BY <1>1 DEF RemoveMember, clientVars, bridgeVars, handlerVars, dbVars, eventVars
<1>2. CASE \E e \in Request : SendMessage(e)
  BY <1>2 DEF SendMessage, clientVars, bridgeVars, handlerVars, dbVars, eventVars
<1>3. ASSUME NEW w \in Worker, StartWorker(w) PROVE OnceInv'
  BY <1>3 DEF StartWorker, clientVars, bridgeVars, handlerVars, dbVars, eventVars
<1>4. ASSUME NEW w \in Worker, Subscribe(w) PROVE OnceInv'
  BY <1>4 DEF Subscribe, clientVars, bridgeVars, handlerVars, dbVars, eventVars
<1>5. ASSUME NEW w \in Worker, BridgeEvent(w) PROVE OnceInv'
  BY <1>5 DEF BridgeEvent, clientVars, bridgeVars, handlerVars, dbVars, eventVars
<1>6. ASSUME NEW w \in Worker, BridgeDies(w) PROVE OnceInv'
  BY <1>6 DEF BridgeDies, clientVars, bridgeVars, handlerVars, dbVars, eventVars
<1>7. ASSUME NEW w \in Worker, Crash(w) PROVE OnceInv'
  BY <1>7 DEF Crash, clientVars, bridgeVars, handlerVars, dbVars, eventVars
<1>8. ASSUME NEW h \in Handler, NEW d \in Delivery, Deliver(h, d) PROVE OnceInv'
  BY <1>8 DEF Deliver, clientVars, bridgeVars, handlerVars, dbVars, eventVars
<1>9. ASSUME NEW h \in Handler, HandlerStep(h) \/ HandlerFault(h) \/ HandlerStuck(h)
      PROVE  OnceInv'
  <2> USE DEF Goto, clientVars, bridgeVars, handlerVars, dbVars, eventVars
  <2>1. pc[h] # "idle" => cur[h] \in Delivery /\ cur[h].event \in Request
                          /\ cur[h].event.client \in ClientId
    BY DEF Delivery, ClientId
  <2>2. CASE RejectNonMember(h)
    BY <2>1, <2>2 DEF RejectNonMember, Raise
  <2>3. CASE ReuseExisting(h)
    <3>1. PICK m \in rows : m.id = dedup[cur[h].event.client] /\ m.event.client = cur[h].event.client
      BY <2>1, <2>3 DEF ReuseExisting
    <3>2. StoreInv' /\ AckNamesDurableRow'
      BY <2>3 DEF ReuseExisting
    <3>3. DraftInv'
      BY <2>3 DEF ReuseExisting
    <3>4. PublishInv'
      BY <3>1, <2>3 DEF ReuseExisting
    <3> QED BY <3>2, <3>3, <3>4
  <2>4. CASE InsertMessage(h)
    BY <2>1, <2>4 DEF InsertMessage
  <2>5. CASE TakeDedupKey(h)
    <3>1. StoreInv' /\ AckNamesDurableRow' /\ PublishInv'
      BY <2>5 DEF TakeDedupKey
    <3>2. \A h1 \in Handler \ {h} : pc[h1] = "commit" => cur[h1].event.client # cur[h].event.client
      BY <2>5 DEF TakeDedupKey, KeyLocked
    <3>3. DraftInv'
      BY <3>2, <2>5 DEF TakeDedupKey
    <3> QED BY <3>1, <3>3
  <2>6. CASE DedupKeyTaken(h)
    BY <2>1, <2>6 DEF DedupKeyTaken, Raise
  <2>7. CASE Commit(h)
    <3> DEFINE new == [id |-> mid[h], event |-> cur[h].event]
    <3>1. new.id = mid[h] /\ new.event.client = cur[h].event.client /\ new \in rows'
      BY <2>7 DEF Commit
    <3>2. rows' = rows \cup {new} /\ nextId' = nextId /\ mid' = mid /\ cur' = cur
          /\ pc' = [pc EXCEPT ![h] = "publish"]
          /\ dedup' = [dedup EXCEPT ![cur[h].event.client] = mid[h]]
          /\ acked' = acked /\ announced' = announced
      BY <2>7 DEF Commit
    <3>3. /\ pc[h] = "commit" /\ mid[h] # 0 /\ mid[h] < nextId
          /\ dedup[cur[h].event.client] = 0
          /\ cur[h].event.client \in ClientId
          /\ \A m \in rows : m.id # mid[h] /\ m.event.client # cur[h].event.client
      BY <2>7, <2>1 DEF Commit
    <3> HIDE DEF new
    <3>4. StoreInv'
      <4>1. \A m \in rows' : m.id # 0 /\ m.id < nextId' /\ dedup'[m.event.client] = m.id
        BY <3>1, <3>2, <3>3
      <4>2. \A m1, m2 \in rows' : m1.id = m2.id => m1 = m2
        BY <3>1, <3>2, <3>3
      <4>3. \A c \in ClientId :
              dedup'[c] # 0 => \E m \in rows' : m.id = dedup'[c] /\ m.event.client = c
        BY <3>1, <3>2, <3>3
      <4> QED BY <4>1, <4>2, <4>3
    <3>5. DraftInv'
      BY <3>1, <3>2, <3>3
    <3>6. PublishInv'
      BY <3>1, <3>2
    <3>7. AckNamesDurableRow'
      BY <3>2
    <3> QED BY <3>4, <3>5, <3>6, <3>7
  <2>8. CASE PublishPersisted(h)
    BY <2>1, <2>8 DEF PublishPersisted
  <2>9. CASE PublishAck(h)
    <3>1. PICK m \in rows : m.id = mid[h] /\ m.event.client = cur[h].event.client
      BY <2>9 DEF PublishAck
    <3>2. AckNamesDurableRow'
      BY <3>1, <2>9 DEF PublishAck
    <3>3. StoreInv' /\ DraftInv' /\ PublishInv'
      BY <2>9 DEF PublishAck
    <3> QED BY <3>2, <3>3
  <2>10. CASE Notify(h)
    BY <2>1, <2>10 DEF Notify
  <2>11. CASE Republish(h)
    BY <2>1, <2>11 DEF Republish
  <2>12. CASE PublishRetrying(h)
    BY <2>1, <2>12 DEF PublishRetrying
  <2>13. CASE GiveUp(h)
    BY <2>1, <2>13 DEF GiveUp
  <2>14. CASE PublishFailed(h)
    BY <2>1, <2>14 DEF PublishFailed
  <2>15. CASE BasicAck(h)
    BY <2>1, <2>15 DEF BasicAck
  <2>16. CASE HandlerFault(h)
    BY <2>1, <2>16 DEF HandlerFault, Raise
  <2>17. CASE HandlerStuck(h)
    BY <2>1, <2>17 DEF HandlerStuck
  <2>18. CASE CheckMember(h)
    BY <2>1, <2>18 DEF CheckMember
  <2> QED
    BY <1>9, <2>2, <2>3, <2>4, <2>5, <2>6, <2>7, <2>8, <2>9, <2>10, <2>11, <2>12, <2>13, <2>14, <2>15, <2>16, <2>17, <2>18 DEF HandlerStep
<1>10. CASE UNCHANGED vars
  BY <1>10 DEF vars, clientVars, bridgeVars, handlerVars, dbVars, eventVars
<1> QED
  BY <1>1, <1>2, <1>3, <1>4, <1>5, <1>6, <1>7, <1>8, <1>9, <1>10 DEF Next

\* No step lets retry_count run ahead of the exceptions counted.
LEMMA RetryStep == TypeInv /\ RetryInv /\ [Next]_vars => RetryInv'
<1> SUFFICES ASSUME TypeInv, RetryInv, [Next]_vars PROVE RetryInv'
  OBVIOUS
<1> USE DEF TypeInv, TypeOK, HoldsDelivery, RetryInv, FailedOnlyAfterAllRetries
<1>1. CASE \E p \in InitialMember : RemoveMember(p)
  BY <1>1 DEF RemoveMember, clientVars, bridgeVars, handlerVars, dbVars, eventVars
<1>2. CASE \E e \in Request : SendMessage(e)
  BY <1>2 DEF SendMessage, clientVars, bridgeVars, handlerVars, dbVars, eventVars
<1>3. ASSUME NEW w \in Worker, StartWorker(w) PROVE RetryInv'
  BY <1>3 DEF StartWorker, clientVars, bridgeVars, handlerVars, dbVars, eventVars
<1>4. ASSUME NEW w \in Worker, Subscribe(w) PROVE RetryInv'
  BY <1>4 DEF Subscribe, clientVars, bridgeVars, handlerVars, dbVars, eventVars
<1>5. ASSUME NEW w \in Worker, BridgeEvent(w) PROVE RetryInv'
  <2>1. Head(buffer[w]) \in Request
    BY <1>5 DEF BridgeEvent
  <2> QED
    BY <1>5, <2>1, CopyFields DEF BridgeEvent, clientVars, bridgeVars, handlerVars, dbVars, eventVars
<1>6. ASSUME NEW w \in Worker, BridgeDies(w) PROVE RetryInv'
  BY <1>6 DEF BridgeDies, clientVars, bridgeVars, handlerVars, dbVars, eventVars
<1>7. ASSUME NEW w \in Worker, Crash(w) PROVE RetryInv'
  <2>1. \A d \in Delivery : queue'[d] > 0 => attempts[d.event] >= d.retry
    BY <1>7, CrashQueue
  <2> QED
    BY <1>7, <2>1 DEF Crash, clientVars, bridgeVars, handlerVars, dbVars, eventVars
<1>8. ASSUME NEW h \in Handler, NEW d \in Delivery, Deliver(h, d) PROVE RetryInv'
  BY <1>8 DEF Deliver, clientVars, bridgeVars, handlerVars, dbVars, eventVars
<1>9. ASSUME NEW h \in Handler, HandlerStep(h) \/ HandlerFault(h) \/ HandlerStuck(h)
      PROVE  RetryInv'
  <2> USE DEF Goto, clientVars, bridgeVars, handlerVars, dbVars, eventVars
  <2>1. pc[h] # "idle" => cur[h] \in Delivery /\ cur[h].event \in Request
                          /\ cur[h].event.client \in ClientId
    BY DEF Delivery, ClientId
  <2>2. CASE RejectNonMember(h)
    <3>1. pc[h] # "idle" /\ Raise(h)
      BY <2>2 DEF RejectNonMember
    <3> QED BY <3>1, RaiseRetry
  <2>3. CASE ReuseExisting(h)
    BY <2>1, <2>3 DEF ReuseExisting
  <2>4. CASE InsertMessage(h)
    BY <2>1, <2>4 DEF InsertMessage
  <2>5. CASE TakeDedupKey(h)
    BY <2>1, <2>5 DEF TakeDedupKey
  <2>6. CASE DedupKeyTaken(h)
    <3>1. pc[h] # "idle" /\ Raise(h)
      BY <2>6 DEF DedupKeyTaken
    <3> QED BY <3>1, RaiseRetry
  <2>7. CASE Commit(h)
    BY <2>1, <2>7 DEF Commit
  <2>8. CASE PublishPersisted(h)
    BY <2>1, <2>8 DEF PublishPersisted
  <2>9. CASE PublishAck(h)
    BY <2>1, <2>9 DEF PublishAck
  <2>10. CASE Notify(h)
    BY <2>1, <2>10 DEF Notify
  <2>11. CASE Republish(h)
    <3>1. cur[h] \in Delivery /\ cur[h].retry < RetryLimit /\ attempts[cur[h].event] > cur[h].retry
      BY <2>1, <2>11 DEF Republish
    <3>2. attempts[cur[h].event] >= cur[h].retry + 1
      BY <3>1, CopyFields
    <3> QED BY <2>11, <3>1, <3>2, CopyFields DEF Republish
  <2>12. CASE PublishRetrying(h)
    BY <2>1, <2>12 DEF PublishRetrying
  <2>13. CASE GiveUp(h)
    BY <2>1, <2>13 DEF GiveUp
  <2>14. CASE PublishFailed(h)
    BY <2>1, <2>14 DEF PublishFailed
  <2>15. CASE BasicAck(h)
    BY <2>1, <2>15 DEF BasicAck
  <2>16. CASE HandlerFault(h)
    <3>1. pc[h] # "idle" /\ Raise(h)
      BY <2>16 DEF HandlerFault
    <3> QED BY <3>1, RaiseRetry
  <2>17. CASE HandlerStuck(h)
    BY <2>1, <2>17 DEF HandlerStuck
  <2>18. CASE CheckMember(h)
    BY <2>1, <2>18 DEF CheckMember
  <2> QED
    BY <1>9, <2>2, <2>3, <2>4, <2>5, <2>6, <2>7, <2>8, <2>9, <2>10, <2>11, <2>12, <2>13, <2>14, <2>15, <2>16, <2>17, <2>18 DEF HandlerStep
<1>10. CASE UNCHANGED vars
  BY <1>10 DEF vars, clientVars, bridgeVars, handlerVars, dbVars, eventVars
<1> QED
  BY <1>1, <1>2, <1>3, <1>4, <1>5, <1>6, <1>7, <1>8, <1>9, <1>10 DEF Next

\* No step brings into the pipeline what no client sent.
LEMMA SentStep == TypeInv /\ SentInv /\ [Next]_vars => SentInv'
<1> SUFFICES ASSUME TypeInv, SentInv, [Next]_vars PROVE SentInv'
  OBVIOUS
<1> USE DEF TypeInv, TypeOK, HoldsDelivery, SentInv
<1>1. CASE \E p \in InitialMember : RemoveMember(p)
  BY <1>1 DEF RemoveMember, clientVars, bridgeVars, handlerVars, dbVars, eventVars
<1>2. CASE \E e \in Request : SendMessage(e)
  BY <1>2 DEF SendMessage, clientVars, bridgeVars, handlerVars, dbVars, eventVars
<1>3. ASSUME NEW w \in Worker, StartWorker(w) PROVE SentInv'
  BY <1>3 DEF StartWorker, clientVars, bridgeVars, handlerVars, dbVars, eventVars
<1>4. ASSUME NEW w \in Worker, Subscribe(w) PROVE SentInv'
  BY <1>4 DEF Subscribe, clientVars, bridgeVars, handlerVars, dbVars, eventVars
<1>5. ASSUME NEW w \in Worker, BridgeEvent(w) PROVE SentInv'
  <2>1. Head(buffer[w]) \in Request /\ Head(buffer[w]) = buffer[w][1] /\ 1 \in 1 .. Len(buffer[w])
    BY <1>5 DEF BridgeEvent
  <2>2. \A d \in Delivery : queue'[d] > 0 => d.event \in sent
    BY <1>5, <2>1, CopyFields DEF BridgeEvent
  <2>3. \A v \in Worker : \A i \in 1 .. Len(buffer'[v]) : buffer'[v][i] \in sent
    <3> SUFFICES ASSUME NEW v \in Worker, NEW i \in 1 .. Len(buffer'[v]) PROVE buffer'[v][i] \in sent
      OBVIOUS
    <3>1. CASE v # w
      BY <3>1, <1>5 DEF BridgeEvent
    <3>2. CASE v = w
      <4>1. buffer'[w] = Tail(buffer[w])
        BY <1>5 DEF BridgeEvent
      <4>2. i + 1 \in 1 .. Len(buffer[w]) /\ buffer'[w][i] = buffer[w][i + 1]
        BY <3>2, <4>1, <2>1
      <4> QED BY <3>2, <4>2
    <3> QED BY <3>1, <3>2
  <2> QED
    BY <1>5, <2>2, <2>3 DEF BridgeEvent, clientVars, bridgeVars, handlerVars, dbVars, eventVars
<1>6. ASSUME NEW w \in Worker, BridgeDies(w) PROVE SentInv'
  BY <1>6 DEF BridgeDies, clientVars, bridgeVars, handlerVars, dbVars, eventVars
<1>7. ASSUME NEW w \in Worker, Crash(w) PROVE SentInv'
  <2>1. \A d \in Delivery : queue'[d] > 0 => d.event \in sent
    BY <1>7, CrashQueue
  <2> QED
    BY <1>7, <2>1 DEF Crash, clientVars, bridgeVars, handlerVars, dbVars, eventVars
<1>8. ASSUME NEW h \in Handler, NEW d \in Delivery, Deliver(h, d) PROVE SentInv'
  BY <1>8 DEF Deliver, clientVars, bridgeVars, handlerVars, dbVars, eventVars
<1>9. ASSUME NEW h \in Handler, HandlerStep(h) \/ HandlerFault(h) \/ HandlerStuck(h)
      PROVE  SentInv'
  <2> USE DEF Goto, clientVars, bridgeVars, handlerVars, dbVars, eventVars
  <2>1. pc[h] # "idle" => cur[h] \in Delivery /\ cur[h].event \in Request
                          /\ cur[h].event.client \in ClientId
    BY DEF Delivery, ClientId
  <2>2. CASE RejectNonMember(h)
    BY <2>1, <2>2 DEF RejectNonMember, Raise
  <2>3. CASE ReuseExisting(h)
    BY <2>1, <2>3 DEF ReuseExisting
  <2>4. CASE InsertMessage(h)
    BY <2>1, <2>4 DEF InsertMessage
  <2>5. CASE TakeDedupKey(h)
    BY <2>1, <2>5 DEF TakeDedupKey
  <2>6. CASE DedupKeyTaken(h)
    BY <2>1, <2>6 DEF DedupKeyTaken, Raise
  <2>7. CASE Commit(h)
    BY <2>1, <2>7 DEF Commit
  <2>8. CASE PublishPersisted(h)
    BY <2>1, <2>8 DEF PublishPersisted
  <2>9. CASE PublishAck(h)
    BY <2>1, <2>9 DEF PublishAck
  <2>10. CASE Notify(h)
    BY <2>1, <2>10 DEF Notify
  <2>11. CASE Republish(h)
    <3>1. cur[h] \in Delivery /\ cur[h].retry < RetryLimit /\ cur[h].event \in sent
      BY <2>1, <2>11 DEF Republish
    <3>2. RetryCopy(cur[h]) \in Delivery /\ RetryCopy(cur[h]).event = cur[h].event
      BY <3>1, CopyFields
    <3>3. \A d \in Delivery : queue'[d] > 0 => queue[d] > 0 \/ d = RetryCopy(cur[h])
      BY <3>2, <2>11 DEF Republish
    <3> QED BY <3>1, <3>2, <3>3, <2>11 DEF Republish
  <2>12. CASE PublishRetrying(h)
    BY <2>1, <2>12 DEF PublishRetrying
  <2>13. CASE GiveUp(h)
    BY <2>1, <2>13 DEF GiveUp
  <2>14. CASE PublishFailed(h)
    BY <2>1, <2>14 DEF PublishFailed
  <2>15. CASE BasicAck(h)
    BY <2>1, <2>15 DEF BasicAck
  <2>16. CASE HandlerFault(h)
    BY <2>1, <2>16 DEF HandlerFault, Raise
  <2>17. CASE HandlerStuck(h)
    BY <2>1, <2>17 DEF HandlerStuck
  <2>18. CASE CheckMember(h)
    BY <2>1, <2>18 DEF CheckMember
  <2> QED
    BY <1>9, <2>2, <2>3, <2>4, <2>5, <2>6, <2>7, <2>8, <2>9, <2>10, <2>11, <2>12, <2>13, <2>14, <2>15, <2>16, <2>17, <2>18 DEF HandlerStep
<1>10. CASE UNCHANGED vars
  BY <1>10 DEF vars, clientVars, bridgeVars, handlerVars, dbVars, eventVars
<1> QED
  BY <1>1, <1>2, <1>3, <1>4, <1>5, <1>6, <1>7, <1>8, <1>9, <1>10 DEF Next

\* No step loses a request the broker has accepted.
LEMMA LossStep == TypeInv /\ OnceInv /\ NoSilentLoss /\ [Next]_vars => NoSilentLoss'
<1> SUFFICES ASSUME TypeInv, OnceInv, NoSilentLoss, [Next]_vars PROVE NoSilentLoss'
  OBVIOUS
<1> USE DEF TypeInv, TypeOK, HoldsDelivery, NoSilentLoss, Settled, Stored, Pending
<1>1. CASE \E p \in InitialMember : RemoveMember(p)
  BY <1>1 DEF RemoveMember, clientVars, bridgeVars, handlerVars, dbVars, eventVars
<1>2. CASE \E e \in Request : SendMessage(e)
  BY <1>2 DEF SendMessage, clientVars, bridgeVars, handlerVars, dbVars, eventVars
<1>3. ASSUME NEW w \in Worker, StartWorker(w) PROVE NoSilentLoss'
  BY <1>3 DEF StartWorker, clientVars, bridgeVars, handlerVars, dbVars, eventVars
<1>4. ASSUME NEW w \in Worker, Subscribe(w) PROVE NoSilentLoss'
  BY <1>4 DEF Subscribe, clientVars, bridgeVars, handlerVars, dbVars, eventVars
<1>5. ASSUME NEW w \in Worker, BridgeEvent(w) PROVE NoSilentLoss'
  <2>1. Head(buffer[w]) \in Request
    BY <1>5 DEF BridgeEvent
  <2>2. \A d \in Delivery : queue[d] > 0 => queue'[d] > 0
    BY <1>5, <2>1, CopyFields DEF BridgeEvent
  <2>3. queue'[FirstCopy(Head(buffer[w]))] > 0
    BY <1>5, <2>1, CopyFields DEF BridgeEvent
  <2> QED
    BY <1>5, <2>1, <2>2, <2>3, CopyFields DEF BridgeEvent, handlerVars, dbVars, eventVars
<1>6. ASSUME NEW w \in Worker, BridgeDies(w) PROVE NoSilentLoss'
  BY <1>6 DEF BridgeDies, clientVars, bridgeVars, handlerVars, dbVars, eventVars
<1>7. ASSUME NEW w \in Worker, Crash(w) PROVE NoSilentLoss'
  <2>1. rows' = rows /\ failed' = failed /\ bridged' = bridged
    BY <1>7 DEF Crash, dbVars, eventVars
  <2>2. ASSUME NEW e, Pending(e) PROVE Pending(e)'
    <3>1. CASE \E d \in Delivery : d.event = e /\ queue[d] > 0
      BY <3>1, <1>7, CrashQueue
    <3>2. ASSUME NEW h \in Handler, pc[h] \notin {"idle", "retried", "done", "close"}, cur[h].event = e
          PROVE  Pending(e)'
      <4>1. CASE Host[h] = w
        BY <3>2, <4>1, <1>7, CrashQueue
      <4>2. CASE Host[h] # w
        <5>1. pc'[h] = pc[h] /\ cur'[h] = cur[h]
          BY <4>2, <1>7 DEF Crash
        <5> QED BY <3>2, <5>1
      <4> QED BY <4>1, <4>2
    <3> QED BY <2>2, <3>1, <3>2
  <2> QED BY <2>1, <2>2
<1>8. ASSUME NEW h \in Handler, NEW d \in Delivery, Deliver(h, d) PROVE NoSilentLoss'
  <2>1. rows' = rows /\ failed' = failed /\ bridged' = bridged
    BY <1>8 DEF Deliver, dbVars, eventVars
  <2>2. ASSUME NEW e, Pending(e) PROVE Pending(e)'
    <3>1. pc'[h] = "check" /\ cur'[h] = d
      BY <1>8 DEF Deliver
    <3>2. \A c \in Delivery : c # d /\ queue[c] > 0 => queue'[c] > 0
      BY <1>8 DEF Deliver
    <3>3. \A g \in Handler : g # h => pc'[g] = pc[g] /\ cur'[g] = cur[g]
      BY <1>8 DEF Deliver
    <3>4. pc[h] = "idle"
      BY <1>8 DEF Deliver
    <3>5. CASE \E c \in Delivery : c.event = e /\ queue[c] > 0
      BY <3>1, <3>2, <3>5
    <3>6. CASE \E g \in Handler : pc[g] \notin {"idle", "retried", "done", "close"} /\ cur[g].event = e
      BY <3>3, <3>4, <3>6
    <3> QED BY <2>2, <3>5, <3>6
  <2> QED BY <2>1, <2>2
<1>9. ASSUME NEW h \in Handler, HandlerStep(h) \/ HandlerFault(h) \/ HandlerStuck(h)
      PROVE  NoSilentLoss'
  <2> USE DEF Goto, clientVars, bridgeVars, handlerVars, dbVars, eventVars
  <2>1. pc[h] # "idle" => cur[h] \in Delivery /\ cur[h].event \in Request
                          /\ cur[h].event.client \in ClientId
    BY DEF Delivery, ClientId
  <2>2. CASE RejectNonMember(h)
    BY <2>1, <2>2 DEF RejectNonMember, Raise
  <2>3. CASE ReuseExisting(h)
    BY <2>1, <2>3 DEF ReuseExisting
  <2>4. CASE InsertMessage(h)
    BY <2>1, <2>4 DEF InsertMessage
  <2>5. CASE TakeDedupKey(h)
    BY <2>1, <2>5 DEF TakeDedupKey
  <2>6. CASE DedupKeyTaken(h)
    BY <2>1, <2>6 DEF DedupKeyTaken, Raise
  <2>7. CASE Commit(h)
    BY <2>1, <2>7 DEF Commit
  <2>8. CASE PublishPersisted(h)
    BY <2>1, <2>8 DEF PublishPersisted
  <2>9. CASE PublishAck(h)
    BY <2>1, <2>9 DEF PublishAck
  <2>10. CASE Notify(h)
    <3>1. Stored(cur[h].event)
      BY <2>10 DEF Notify, OnceInv, PublishInv
    <3> QED BY <2>1, <3>1, <2>10 DEF Notify
  <2>11. CASE Republish(h)
    <3>1. cur[h] \in Delivery /\ cur[h].retry < RetryLimit
      BY <2>1, <2>11 DEF Republish
    <3>2. RetryCopy(cur[h]) \in Delivery /\ RetryCopy(cur[h]).event = cur[h].event
      BY <3>1, CopyFields
    <3>3. queue'[RetryCopy(cur[h])] > 0 /\ \A d \in Delivery : queue[d] > 0 => queue'[d] > 0
      BY <3>2, <2>11 DEF Republish
    <3> QED BY <3>2, <3>3, <2>11 DEF Republish
  <2>12. CASE PublishRetrying(h)
    BY <2>1, <2>12 DEF PublishRetrying
  <2>13. CASE GiveUp(h)
    BY <2>1, <2>13 DEF GiveUp
  <2>14. CASE PublishFailed(h)
    BY <2>1, <2>14 DEF PublishFailed
  <2>15. CASE BasicAck(h)
    BY <2>1, <2>15 DEF BasicAck
  <2>16. CASE HandlerFault(h)
    BY <2>1, <2>16 DEF HandlerFault, Raise
  <2>17. CASE HandlerStuck(h)
    BY <2>1, <2>17 DEF HandlerStuck
  <2>18. CASE CheckMember(h)
    BY <2>1, <2>18 DEF CheckMember
  <2> QED
    BY <1>9, <2>2, <2>3, <2>4, <2>5, <2>6, <2>7, <2>8, <2>9, <2>10, <2>11, <2>12, <2>13, <2>14, <2>15, <2>16, <2>17, <2>18 DEF HandlerStep
<1>10. CASE UNCHANGED vars
  BY <1>10 DEF vars, clientVars, bridgeVars, handlerVars, dbVars, eventVars
<1> QED
  BY <1>1, <1>2, <1>3, <1>4, <1>5, <1>6, <1>7, <1>8, <1>9, <1>10 DEF Next

\* The inductive invariant of the pipeline.
PipelineInv == TypeInv /\ OnceInv /\ RetryInv /\ SentInv /\ NoSilentLoss

\* The inductive invariant holds before anything has been sent.
LEMMA PipelineInit == Init => PipelineInv
<1> SUFFICES ASSUME Init PROVE PipelineInv
  OBVIOUS
<1>1. TypeInv
  BY TypeInit
<1>2. OnceInv
  BY DEF Init, OnceInv, StoreInv, DraftInv, Drafting, PublishInv, AckNamesDurableRow
<1>3. RetryInv /\ SentInv
  BY DEF Init, RetryInv, SentInv, FailedOnlyAfterAllRetries
<1>4. NoSilentLoss
  BY DEF Init, NoSilentLoss
<1> QED BY <1>1, <1>2, <1>3, <1>4 DEF PipelineInv

\* The conjunction the theorems below are read off: every part of it is needed
\* to carry the others over a step of _consume_message_queue.
THEOREM PipelineCorrect == Spec => []PipelineInv
<1>1. PipelineInv /\ [Next]_vars => PipelineInv'
  BY TypeStep, OnceStep, RetryStep, SentStep, LossStep DEF PipelineInv
<1> QED BY PipelineInit, <1>1, PTL DEF Spec

\* One client message id has one committed row, whatever is resent, bridged by
\* several replicas, redelivered or retried (persist_ingress_message).
THEOREM OnceCorrect == Spec => []OneRowPerClientId
<1>1. PipelineInv => OneRowPerClientId
  BY DEF PipelineInv, OnceInv, StoreInv, OneRowPerClientId
<1> QED BY PipelineCorrect, <1>1, PTL

\* Acknowledgements and broadcasts name durable rows (_process_message_event).
THEOREM AckCorrect == Spec => []AckNamesDurableRow
<1>1. PipelineInv => AckNamesDurableRow
  BY DEF PipelineInv, OnceInv
<1> QED BY PipelineCorrect, <1>1, PTL

\* The broker's requests are never lost silently (_consume_message_queue).
THEOREM LossCorrect == Spec => []NoSilentLoss
<1>1. PipelineInv => NoSilentLoss
  BY DEF PipelineInv
<1> QED BY PipelineCorrect, <1>1, PTL

\* message_failed follows more than worker_retry_limit exceptions
\* (_consume_message_queue).
THEOREM FailedCorrect == Spec => []FailedOnlyAfterAllRetries
<1>1. PipelineInv => FailedOnlyAfterAllRetries
  BY DEF PipelineInv, RetryInv
<1> QED BY PipelineCorrect, <1>1, PTL

\* Every step of the pipeline is a step of the store or leaves it as it is.
LEMMA StoreStep == PipelineInv /\ [Next]_vars => [Promise!Next]_(Promise!storeVars)
<1> SUFFICES ASSUME PipelineInv, [Next]_vars, ~ UNCHANGED <<sent, rows, acked, failed>>
             PROVE  Promise!Next
  BY DEF Promise!storeVars
<1> USE DEF clientVars, dbVars, eventVars
<1>1. ASSUME NEW e \in Request, SendMessage(e) PROVE Promise!Next
  BY <1>1 DEF SendMessage, Promise!Send, Promise!Next
<1>2. ASSUME NEW h \in Handler, Commit(h) PROVE Promise!Next
  <2> DEFINE e == cur[h].event
  <2> DEFINE new == [id |-> mid[h], event |-> e]
  <2>1. e \in Request /\ e \in sent
    BY <1>2, CopyFields DEF Commit, PipelineInv, TypeInv, HoldsDelivery, SentInv
  <2>2. \A m \in rows : m.id # mid[h] /\ m.event.client # e.client
    <3>1. mid[h] # 0 /\ dedup[e.client] = 0 /\ \A m \in rows : m.id # mid[h]
      BY <1>2 DEF Commit, PipelineInv, OnceInv, DraftInv, Drafting
    <3>2. \A m \in rows : dedup[m.event.client] # 0
      BY DEF PipelineInv, OnceInv, StoreInv
    <3> QED BY <3>1, <3>2
  <2>3. /\ rows' = rows \cup {new} /\ new \in rows' /\ new.event = e /\ new.id = mid[h]
        /\ sent' = sent /\ acked' = acked /\ failed' = failed
    BY <1>2 DEF Commit
  <2>4. Promise!Store(e)
    BY <2>1, <2>2, <2>3 DEF Promise!Store
  <2> QED BY <2>1, <2>4 DEF Promise!Next
<1>3. ASSUME NEW h \in Handler, PublishAck(h) PROVE Promise!Next
  <2> DEFINE e == cur[h].event
  <2>1. e \in Request /\ e \in sent
    BY <1>3, CopyFields DEF PublishAck, PipelineInv, TypeInv, HoldsDelivery, SentInv
  <2>2. PICK m \in rows : m.id = mid[h] /\ m.event.client = e.client
    BY <1>3 DEF PublishAck, PipelineInv, OnceInv, PublishInv
  <2>3. Promise!Confirm(e, m)
    BY <1>3, <2>1, <2>2 DEF PublishAck, Promise!Confirm
  <2> QED BY <2>1, <2>2, <2>3 DEF Promise!Next
<1>4. ASSUME NEW h \in Handler, PublishFailed(h) PROVE Promise!Next
  <2>1. cur[h].event \in Request /\ cur[h].event \in sent
    BY <1>4, CopyFields DEF PublishFailed, PipelineInv, TypeInv, HoldsDelivery, SentInv
  <2> QED BY <1>4, <2>1 DEF PublishFailed, Promise!Refuse, Promise!Next
<1>5. ASSUME NEW h \in Handler, HandlerStep(h) \/ HandlerFault(h) \/ HandlerStuck(h)
      PROVE  Promise!Next
  BY <1>2, <1>3, <1>4, <1>5
     DEF HandlerStep, Raise, RejectNonMember, CheckMember, ReuseExisting, InsertMessage,
         TakeDedupKey, DedupKeyTaken, PublishPersisted, Notify, Republish, PublishRetrying, GiveUp, BasicAck, HandlerFault, HandlerStuck
<1>6. (\E p \in InitialMember : RemoveMember(p)) => FALSE
  BY DEF RemoveMember
<1>7. ASSUME NEW w \in Worker
      PROVE  ~ (StartWorker(w) \/ Subscribe(w) \/ BridgeEvent(w) \/ BridgeDies(w) \/ Crash(w))
  BY DEF StartWorker, Subscribe, BridgeEvent, BridgeDies, Crash
<1>8. ASSUME NEW h \in Handler, NEW d \in Delivery PROVE ~ Deliver(h, d)
  BY DEF Deliver
<1>9. ~ UNCHANGED vars
  BY DEF vars
<1> QED BY <1>1, <1>5, <1>6, <1>7, <1>8, <1>9 DEF Next

\* The gateway, the bridges, the broker and the workers together implement the
\* once-only store of MessageStore.
THEOREM PipelineImplementsStore == Spec => ImplementsStore
<1>1. Init => Promise!Init
  BY DEF Init, Promise!Init
<1> QED BY <1>1, StoreStep, PipelineCorrect, PTL DEF Spec, ImplementsStore, Promise!Spec

=============================================================================
