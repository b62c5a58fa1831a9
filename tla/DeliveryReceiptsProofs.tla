----------------------- MODULE DeliveryReceiptsProofs -----------------------
(***************************************************************************)
(* What holds of DeliveryReceipts for any recipients, acknowledgements,    *)
(* overlapping transactions, retries and faults.                           *)
(***************************************************************************)
EXTENDS DeliveryReceipts, TLAPS

\* A busy handler has an acknowledgement to work on.
BusyHandler == \A h \in Handler : pc[h] # "idle" => job[h] \in Job

TypeInv == TypeOK /\ BusyHandler

-----------------------------------------------------------------------------
(* _recalculate_message_delivery_state, over any receipts. *)

ReceiptStates == [User -> State \cup {"none"}]

\* The aggregate is a state.
LEMMA AggregateType == ASSUME NEW r \in ReceiptStates PROVE Aggregate(r) \in State
BY DEF Aggregate, State

\* "read" is computed from receipts that are all "read".
LEMMA AggregateRead ==
  ASSUME NEW r \in ReceiptStates, Aggregate(r) = "read"
  PROVE  \A u \in User : r[u] \in {"read", "none"}
<1> DEFINE states == {r[u] : u \in User} \ {"none"}
<1>1. states = {"read"}
  BY DEF Aggregate
<1>2. \A u \in User : r[u] # "none" => r[u] \in states
  OBVIOUS
<1> QED BY <1>1, <1>2

\* "delivered" is computed from receipts that are all "delivered" or "read".
LEMMA AggregateDelivered ==
  ASSUME NEW r \in ReceiptStates, Aggregate(r) = "delivered"
  PROVE  \A u \in User : r[u] \in {"delivered", "read", "none"}
<1> DEFINE states == {r[u] : u \in User} \ {"none"}
<1>1. states \subseteq {"delivered", "read"}
  BY DEF Aggregate
<1>2. \A u \in User : r[u] # "none" => r[u] \in states
  OBVIOUS
<1> QED BY <1>1, <1>2

\* Past "persisted" means there are receipts, all past it.
LEMMA AggregateMarked ==
  ASSUME NEW r \in ReceiptStates PROVE (Aggregate(r) # "persisted") <=> Marked(r)
<1> DEFINE states == {r[u] : u \in User} \ {"none"}
<1>1. Aggregate(r) # "persisted" <=> states # {} /\ states \subseteq {"delivered", "read"}
  BY DEF Aggregate
<1>2. \A u \in User : r[u] # "none" <=> r[u] \in states
  OBVIOUS
<1>3. \A x \in states : \E u \in User : x = r[u] /\ r[u] # "none"
  OBVIOUS
<1>4. \A u \in User : r[u] \in {"persisted", "delivered", "read", "none"}
  BY DEF ReceiptStates, State
<1> HIDE DEF states
<1>5. ASSUME Aggregate(r) # "persisted" PROVE Marked(r)
  BY <1>1, <1>2, <1>3, <1>5 DEF Marked
<1>6. ASSUME Marked(r) PROVE Aggregate(r) # "persisted"
  BY <1>1, <1>2, <1>3, <1>4, <1>6 DEF Marked
<1> QED BY <1>5, <1>6

-----------------------------------------------------------------------------
(* Types *)

\* A stored message starts with every variable of its type.
LEMMA TypeInit == Init => TypeInv
BY LimitAssumption, RecipientAssumption DEF Init, TypeInv, TypeOK, BusyHandler, NotLoaded, State

\* The fields of an acknowledgement.
LEMMA JobFields ==
  ASSUME NEW j \in Job
  PROVE  j.kind \in {"delivered", "read"} /\ j.user \in User /\ j.retry \in 0 .. RetryLimit
BY DEF Job

\* The copy a failed handler queues again.
LEMMA RetryJob ==
  ASSUME NEW j \in Job, j.retry < RetryLimit
  PROVE  [j EXCEPT !.retry = @ + 1] \in Job
BY LimitAssumption DEF Job

\* What a handler sees of the receipts is a state for each user.
LEMMA VisibleType ==
  ASSUME TypeInv, NEW h \in Handler PROVE Visible(h) \in ReceiptStates
BY DEF TypeInv, TypeOK, Visible, ReceiptStates

\* No step of the queue or of a transaction leaves the types.
LEMMA TypeStep == TypeInv /\ [Next]_vars => TypeInv'
<1> SUFFICES ASSUME TypeInv, [Next]_vars PROVE TypeInv'
  OBVIOUS
<1> USE LimitAssumption
<1> USE DEF TypeInv, TypeOK, BusyHandler, dbVars, txVars, Goto
<1>1. CASE UNCHANGED vars
  BY <1>1 DEF vars
<1>2. ASSUME NEW u \in User, NEW k \in {"delivered", "read"}, Acknowledge(u, k) PROVE TypeInv'
  <2> DEFINE j == [kind |-> k, user |-> u, via |-> "queue", retry |-> 0]
  <2>1. j \in Job
    BY DEF Job
  <2>2. queue' = [queue EXCEPT ![j] = @ + 1]
    BY <1>2 DEF Acknowledge
  <2> HIDE DEF j
  <2>3. queue' \in [Job -> Nat]
    BY <2>1, <2>2
  <2> QED BY <1>2, <2>3 DEF Acknowledge
<1>3. ASSUME NEW u \in User, RemoveMember(u) PROVE TypeInv'
  BY <1>3 DEF RemoveMember
<1>4. ASSUME NEW h \in Handler, NEW j \in Job, Take(h, j) PROVE TypeInv'
  BY <1>4 DEF Take
<1>5. ASSUME NEW h \in Handler, NEW u \in User, RestRead(h, u) PROVE TypeInv'
  <2>1. [kind |-> "read", user |-> u, via |-> "rest", retry |-> RetryLimit] \in Job
    BY DEF Job
  <2> QED BY <1>5, <2>1 DEF RestRead
<1>6. ASSUME NEW h \in Handler, Load(h) PROVE TypeInv'
  <2>1. job[h].user \in User
    BY <1>6, JobFields DEF Load
  <2>2. [receipt |-> receipt[job[h].user], readRow |-> job[h].user \in readBy, agg |-> agg]
          \in [receipt: State \cup {"none"}, readRow: BOOLEAN, agg: State]
    BY <2>1
  <2> QED BY <1>6, <2>2 DEF Load
<1>7. ASSUME NEW h \in Handler,
             \/ RejectNonMember(h) \/ Insert(h) \/ InsertConflict(h)
             \/ HandlerFault(h) \/ HandlerStuck(h)
      PROVE  TypeInv'
  <2>1. CASE RejectNonMember(h)
    BY <2>1 DEF RejectNonMember
  <2>2. CASE Insert(h)
    BY <2>2 DEF Insert
  <2>3. CASE InsertConflict(h)
    BY <2>3 DEF InsertConflict
  <2>4. CASE HandlerFault(h)
    BY <2>4 DEF HandlerFault
  <2>5. CASE HandlerStuck(h)
    BY <2>5 DEF HandlerStuck
  <2> QED BY <1>7, <2>1, <2>2, <2>3, <2>4, <2>5
<1>8. ASSUME NEW h \in Handler, Flush(h) PROVE TypeInv'
  <2>1. Written(h) \in State \cup {"none"}
    BY <1>8, JobFields DEF Flush, Written, State
  <2> QED BY <1>8, <2>1 DEF Flush
<1>9. ASSUME NEW h \in Handler, Compute(h) PROVE TypeInv'
  BY <1>9, VisibleType, AggregateType DEF Compute
<1>10. ASSUME NEW h \in Handler, Commit(h) PROVE TypeInv'
  <2>1. job[h].user \in User
    BY <1>10, JobFields DEF Commit
  <2> QED BY <1>10, <2>1, VisibleType DEF Commit, ReceiptStates
<1>11. ASSUME NEW h \in Handler, Publish(h) PROVE TypeInv'
  BY <1>11 DEF Publish
<1>12. ASSUME NEW h \in Handler, Ack(h) PROVE TypeInv'
  BY <1>12 DEF Ack, Finish, NotLoaded, State
<1>13. ASSUME NEW h \in Handler, Crash(h) PROVE TypeInv'
  BY <1>13 DEF Crash, Finish, NotLoaded, State
<1>14. ASSUME NEW h \in Handler, HandleError(h) PROVE TypeInv'
  <2> DEFINE copy == [job[h] EXCEPT !.retry = @ + 1]
  <2>1. job[h].retry < RetryLimit => copy \in Job
    BY <1>14, RetryJob DEF HandleError
  <2>2. queue' = IF job[h].retry < RetryLimit THEN [queue EXCEPT ![copy] = @ + 1] ELSE queue
    BY <1>14 DEF HandleError
  <2> HIDE DEF copy
  <2>3. queue' \in [Job -> Nat]
    BY <2>1, <2>2
  <2> QED BY <1>14, <2>3 DEF HandleError
<1> QED
  BY <1>1, <1>2, <1>3, <1>4, <1>5, <1>6, <1>7, <1>8, <1>9, <1>10, <1>11, <1>12, <1>13, <1>14
  DEF Next, HandlerStep

\* Every variable keeps its type.
THEOREM ReceiptTypes == Spec => []TypeOK
<1>1. Spec => []TypeInv
  BY TypeInit, TypeStep, PTL DEF Spec
<1>2. TypeInv => TypeOK
  BY DEF TypeInv
<1> QED BY <1>1, <1>2, PTL

-----------------------------------------------------------------------------
(* The sender's ticks *)

\* A step that leaves the receipts and what is earned alone keeps EarnedInv when
\* the handler it moves goes where nothing is asked of it.
LEMMA EarnedElsewhere ==
  ASSUME TypeInv, EarnedInv, NEW h \in Handler,
         UNCHANGED <<receipt, readBy, agg, wasDelivered, shown>>,
         pc'[h] \notin {"compute", "commit", "publish"},
         \A g \in Handler \ {h} : /\ pc'[g] = pc[g] /\ job'[g] = job[g]
                                  /\ write'[g] = write[g] /\ result'[g] = result[g]
  PROVE  EarnedInv'
BY DEF EarnedInv, RowInv, TransactionInv, NoFalseDelivery, Earned, ReadAfter, DeliveredAfter

\* No step lets an aggregate run ahead of the recipients.
LEMMA EarnedStep == TypeInv /\ EarnedInv /\ [Next]_vars => EarnedInv'
<1> SUFFICES ASSUME TypeInv, EarnedInv, [Next]_vars PROVE EarnedInv'
  OBVIOUS
<1> USE RecipientAssumption
<1> USE DEF TypeInv, TypeOK, BusyHandler, dbVars, txVars, Goto
<1>1. CASE \/ UNCHANGED vars
           \/ \E u \in User : RemoveMember(u)
           \/ \E u \in User : \E k \in {"delivered", "read"} : Acknowledge(u, k)
  BY <1>1 DEF vars, RemoveMember, Acknowledge, EarnedInv, RowInv, TransactionInv,
              NoFalseDelivery, Earned, ReadAfter, DeliveredAfter
<1>2. ASSUME NEW h \in Handler, NEW j \in Job, Take(h, j) PROVE EarnedInv'
  BY <1>2, EarnedElsewhere DEF Take
<1>3. ASSUME NEW h \in Handler, NEW u \in User, RestRead(h, u) PROVE EarnedInv'
  BY <1>3, EarnedElsewhere DEF RestRead
<1>4. ASSUME NEW h \in Handler, Load(h) PROVE EarnedInv'
  <2>1. CASE pc'[h] = "publish"
    <3>1. result'[h] = agg /\ Earned(agg)
      BY <1>4 DEF Load, EarnedInv, NoFalseDelivery
    <3> QED BY <1>4, <2>1, <3>1 DEF Load, EarnedInv, RowInv, TransactionInv,
              NoFalseDelivery, Earned, ReadAfter, DeliveredAfter
  <2>2. CASE pc'[h] # "publish"
    BY <1>4, <2>2, EarnedElsewhere DEF Load
  <2> QED BY <2>1, <2>2
<1>5. ASSUME NEW h \in Handler,
             \/ RejectNonMember(h) \/ Insert(h) \/ InsertConflict(h) \/ HandlerFault(h)
             \/ HandlerStuck(h) \/ HandleError(h) \/ Ack(h) \/ Crash(h)
      PROVE  EarnedInv'
  BY <1>5, EarnedElsewhere
  DEF RejectNonMember, Insert, InsertConflict, HandlerFault, HandlerStuck, HandleError, Ack,
      Crash, Finish
<1>6. ASSUME NEW h \in Handler, Flush(h) PROVE EarnedInv'
  <2>1. write'[h] \in {"none", job'[h].kind}
    BY <1>6 DEF Flush, Written
  <2>2. \A g \in Handler \ {h} : pc'[g] = pc[g] /\ write'[g] = write[g]
    BY <1>6 DEF Flush
  <2> QED BY <1>6, <2>1, <2>2 DEF Flush, EarnedInv, RowInv, TransactionInv,
            NoFalseDelivery, Earned, ReadAfter, DeliveredAfter
<1>7. ASSUME NEW h \in Handler, Compute(h) PROVE EarnedInv'
  <2>1. Visible(h) \in ReceiptStates /\ result'[h] = Aggregate(Visible(h))
    BY <1>7, VisibleType DEF Compute
  <2>2. \A u \in Recipient :
          /\ Visible(h)[u] # "none"
          /\ Visible(h)[u] = "read" => u \in ReadAfter(h)
          /\ Visible(h)[u] = "delivered" => u \in ReadAfter(h) \cup DeliveredAfter(h)
    BY <1>7, JobFields DEF Compute, Visible, EarnedInv, RowInv, TransactionInv,
       ReadAfter, DeliveredAfter
  <2>3. result'[h] = "read" => Recipient \subseteq ReadAfter(h)
    BY <2>1, <2>2, AggregateRead
  <2>4. result'[h] = "delivered" => Recipient \subseteq ReadAfter(h) \cup DeliveredAfter(h)
    BY <2>1, <2>2, AggregateDelivered
  <2>5. ReadAfter(h)' = ReadAfter(h) /\ DeliveredAfter(h)' = DeliveredAfter(h)
    BY <1>7 DEF Compute, ReadAfter, DeliveredAfter
  <2>6. \A g \in Handler \ {h} : pc'[g] = pc[g] /\ result'[g] = result[g]
    BY <1>7 DEF Compute
  <2>7. TransactionInv'
    <3> SUFFICES ASSUME NEW g \in Handler PROVE
          /\ pc'[g] \in {"compute", "commit"} => write'[g] \in {"none", job'[g].kind}
          /\ pc'[g] = "commit" =>
               /\ result'[g] = "read" => Recipient \subseteq ReadAfter(g)'
               /\ result'[g] = "delivered"
                    => Recipient \subseteq ReadAfter(g)' \cup DeliveredAfter(g)'
          /\ pc'[g] = "publish" => Earned(result[g])'
      BY DEF TransactionInv
    <3>1. CASE g = h
      BY <1>7, <2>3, <2>4, <2>5, <3>1 DEF Compute, EarnedInv, TransactionInv
    <3>2. CASE g # h
      BY <1>7, <2>6, <3>2 DEF Compute, EarnedInv, TransactionInv, Earned, ReadAfter,
         DeliveredAfter
    <3> QED BY <3>1, <3>2
  <2> QED BY <1>7, <2>7 DEF Compute, EarnedInv, RowInv, NoFalseDelivery, Earned
<1>8. ASSUME NEW h \in Handler, Commit(h) PROVE EarnedInv'
  <2>1. readBy' = ReadAfter(h) /\ wasDelivered' = DeliveredAfter(h)
    BY <1>8 DEF Commit, ReadAfter, DeliveredAfter
  <2>2. readBy \subseteq readBy' /\ wasDelivered \subseteq wasDelivered'
    BY <2>1 DEF ReadAfter, DeliveredAfter
  <2>3. RowInv'
    <3>1. receipt' = Visible(h) /\ job[h].user \in User
      BY <1>8, JobFields DEF Commit
    <3>2. write[h] \in {"none", job[h].kind}
      BY <1>8 DEF Commit, EarnedInv, TransactionInv
    <3> QED BY <2>1, <2>2, <3>1, <3>2, JobFields DEF RowInv, Visible, EarnedInv,
              ReadAfter, DeliveredAfter
  <2>4. Earned(result[h])'
    BY <1>8, <2>1 DEF Commit, EarnedInv, TransactionInv, Earned
  <2>5. NoFalseDelivery'
    BY <1>8, <2>2, <2>4 DEF Commit, EarnedInv, NoFalseDelivery, Earned
  <2>6. TransactionInv'
    <3> SUFFICES ASSUME NEW g \in Handler PROVE
          /\ pc'[g] \in {"compute", "commit"} => write'[g] \in {"none", job'[g].kind}
          /\ pc'[g] = "commit" =>
               /\ result'[g] = "read" => Recipient \subseteq ReadAfter(g)'
               /\ result'[g] = "delivered"
                    => Recipient \subseteq ReadAfter(g)' \cup DeliveredAfter(g)'
          /\ pc'[g] = "publish" => Earned(result[g])'
      BY DEF TransactionInv
    <3>1. CASE g = h
      BY <1>8, <2>4, <3>1 DEF Commit
    <3>2. CASE g # h
      <4>1. pc'[g] = pc[g] /\ UNCHANGED <<job, write, result>>
        BY <1>8, <3>2 DEF Commit
      <4>2. ReadAfter(g) \subseteq ReadAfter(g)' /\ DeliveredAfter(g) \subseteq DeliveredAfter(g)'
        BY <2>2, <4>1 DEF ReadAfter, DeliveredAfter
      <4> QED BY <2>2, <4>1, <4>2 DEF EarnedInv, TransactionInv, Earned
    <3> QED BY <3>1, <3>2
  <2> QED BY <2>3, <2>5, <2>6 DEF EarnedInv
<1>9. ASSUME NEW h \in Handler, Publish(h) PROVE EarnedInv'
  <2>1. Earned(result[h])
    BY <1>9 DEF Publish, EarnedInv, TransactionInv
  <2> QED BY <1>9, <2>1 DEF Publish, EarnedInv, RowInv, TransactionInv, NoFalseDelivery,
            Earned, ReadAfter, DeliveredAfter
<1> QED
  BY <1>1, <1>2, <1>3, <1>4, <1>5, <1>6, <1>7, <1>8, <1>9 DEF Next, HandlerStep

\* The invariant holds of a message that has just been stored.
LEMMA EarnedInit == Init => EarnedInv
BY DEF Init, EarnedInv, RowInv, TransactionInv, NoFalseDelivery, Earned

\* The invariant the theorem below is read off.
THEOREM EarnedCorrect == Spec => []EarnedInv
BY TypeInit, TypeStep, EarnedInit, EarnedStep, PTL DEF Spec

\* The stored and the broadcast aggregate claim nothing that did not happen
\* (_recalculate_message_delivery_state in overlapping transactions).
THEOREM NoFalseDeliveryCorrect == Spec => []NoFalseDelivery
<1>1. EarnedInv => NoFalseDelivery
  BY DEF EarnedInv
<1> QED BY EarnedCorrect, <1>1, PTL

-----------------------------------------------------------------------------
(* Nothing goes back to "persisted" *)

\* A transaction writes "delivered" or "read", or leaves the row as it is.
LEMMA VisibleRow ==
  ASSUME TypeInv, EarnedInv, NEW h \in Handler, pc[h] \in {"compute", "commit"},
         NEW u \in User
  PROVE  Visible(h)[u] \in {receipt[u], "delivered", "read"}
<1>1. job[h].kind \in {"delivered", "read"} /\ write[h] \in {"none", job[h].kind}
  BY JobFields DEF TypeInv, BusyHandler, EarnedInv, TransactionInv
<1> QED BY <1>1 DEF Visible

\* Marked receipts stay marked under what a transaction writes.
LEMMA MarkedVisible ==
  ASSUME TypeInv, EarnedInv, NEW h \in Handler, pc[h] \in {"compute", "commit"},
         Marked(receipt)
  PROVE  Marked(Visible(h))
BY VisibleRow DEF Marked

\* What h sees stays marked when another transaction commits.
LEMMA MarkedOther ==
  ASSUME TypeInv, EarnedInv, NEW h \in Handler, NEW g \in Handler,
         pc[h] \in {"compute", "commit"}, pc[g] = "commit", g # h, Commit(g),
         Marked(Visible(h))
  PROVE  Marked(Visible(h)')
<1>1. receipt' = Visible(g) /\ UNCHANGED <<job, write>>
  BY DEF Commit
<1>2. \A u \in User : receipt'[u] \in {receipt[u], "delivered", "read"}
  BY <1>1, VisibleRow
<1>3. \A u \in User : Visible(h)'[u] \in {Visible(h)[u], "delivered", "read"}
  BY <1>1, <1>2 DEF Visible
<1> QED BY <1>3 DEF Marked

\* A step that commits nothing and moves one handler to where nothing is asked.
LEMMA MarkedElsewhere ==
  ASSUME TypeInv, MarkedInv, NEW h \in Handler, UNCHANGED <<receipt, agg>>,
         pc'[h] \notin {"insert", "flush", "compute", "commit"},
         \A g \in Handler \ {h} : /\ pc'[g] = pc[g] /\ job'[g] = job[g] /\ seen'[g] = seen[g]
                                  /\ write'[g] = write[g] /\ result'[g] = result[g]
  PROVE  MarkedInv'
<1>1. \A g \in Handler \ {h} : Visible(g)' = Visible(g)
  BY DEF Visible
<1> QED BY <1>1 DEF MarkedInv

\* No step stores, loads or computes an aggregate past "persisted" without such
\* receipts.
LEMMA MarkedStep == TypeInv /\ EarnedInv /\ MarkedInv /\ [Next]_vars => MarkedInv'
<1> SUFFICES ASSUME TypeInv, EarnedInv, MarkedInv, [Next]_vars PROVE MarkedInv'
  OBVIOUS
<1> USE DEF TypeInv, TypeOK, BusyHandler, dbVars, txVars, Goto
<1>1. CASE \/ UNCHANGED vars
           \/ \E u \in User : RemoveMember(u)
           \/ \E u \in User : \E k \in {"delivered", "read"} : Acknowledge(u, k)
  <2>1. UNCHANGED <<receipt, agg, pc, job, seen, write, result>>
    BY <1>1 DEF vars, RemoveMember, Acknowledge
  <2>2. \A g \in Handler : Visible(g)' = Visible(g)
    BY <2>1 DEF Visible
  <2> QED BY <2>1, <2>2 DEF MarkedInv
<1>2. ASSUME NEW h \in Handler, NEW j \in Job, Take(h, j) PROVE MarkedInv'
  BY <1>2, MarkedElsewhere DEF Take
<1>3. ASSUME NEW h \in Handler, NEW u \in User, RestRead(h, u) PROVE MarkedInv'
  BY <1>3, MarkedElsewhere DEF RestRead
<1>4. ASSUME NEW h \in Handler, Load(h) PROVE MarkedInv'
  <2>1. seen'[h].agg = agg /\ pc'[h] \in {"insert", "flush", "publish"}
    BY <1>4 DEF Load
  <2>2. \A g \in Handler \ {h} : /\ pc'[g] = pc[g] /\ seen'[g] = seen[g]
                                 /\ result'[g] = result[g]
    BY <1>4 DEF Load
  <2>3. \A g \in Handler : Visible(g)' = Visible(g)
    BY <1>4 DEF Load, Visible
  <2> QED BY <1>4, <2>1, <2>2, <2>3 DEF Load, MarkedInv
<1>5. ASSUME NEW h \in Handler,
             \/ RejectNonMember(h) \/ InsertConflict(h) \/ HandlerFault(h) \/ HandlerStuck(h)
             \/ HandleError(h) \/ Publish(h) \/ Ack(h) \/ Crash(h)
      PROVE  MarkedInv'
  BY <1>5, MarkedElsewhere
  DEF RejectNonMember, InsertConflict, HandlerFault, HandlerStuck, HandleError, Publish, Ack,
      Crash, Finish
<1>6. ASSUME NEW h \in Handler, Flush(h) PROVE MarkedInv'
  <2>1. pc'[h] = "compute" /\ \A g \in Handler \ {h} : pc'[g] = pc[g]
    BY <1>6 DEF Flush
  <2>2. \A g \in Handler \ {h} : Visible(g)' = Visible(g)
    BY <1>6 DEF Flush, Visible
  <2> QED BY <1>6, <2>1, <2>2 DEF Flush, MarkedInv
<1>7. ASSUME NEW h \in Handler, Compute(h) PROVE MarkedInv'
  <2>1. result'[h] = Aggregate(Visible(h)) /\ pc[h] = "compute" /\ pc'[h] = "commit"
    BY <1>7 DEF Compute
  <2>2. \A g \in Handler \ {h} : pc'[g] = pc[g] /\ result'[g] = result[g]
    BY <1>7 DEF Compute
  <2>3. \A g \in Handler : Visible(g)' = Visible(g)
    BY <1>7 DEF Compute, Visible
  <2>4. result'[h] # "persisted" <=> Marked(Visible(h))
    BY <2>1, VisibleType, AggregateMarked
  <2>5. seen[h].agg # "persisted" => Marked(Visible(h))
    BY <2>1, MarkedVisible DEF MarkedInv
  <2> QED BY <1>7, <2>1, <2>2, <2>3, <2>4, <2>5 DEF Compute, MarkedInv
<1>8. ASSUME NEW h \in Handler, Commit(h) PROVE MarkedInv'
  <2>1. /\ receipt' = Visible(h) /\ pc[h] = "commit" /\ pc'[h] = "publish"
        /\ UNCHANGED <<job, seen, write, result>>
    BY <1>8 DEF Commit
  <2>2. Marked(receipt) => Marked(receipt')
    BY <2>1, MarkedVisible
  <2>3. agg' # "persisted" => Marked(receipt')
    BY <1>8, <2>1, <2>2 DEF Commit, MarkedInv
  <2>4. \A g \in Handler \ {h} : pc'[g] = pc[g]
    BY <1>8 DEF Commit
  <2>5. \A g \in Handler \ {h} : pc[g] = "commit" /\ Marked(Visible(g)) => Marked(Visible(g)')
    BY <1>8, <2>1, MarkedOther
  <2> QED BY <2>1, <2>2, <2>3, <2>4, <2>5 DEF MarkedInv
<1>9. ASSUME NEW h \in Handler, Insert(h) PROVE MarkedInv'
  <2>1. /\ pc[h] = "insert" /\ pc'[h] = "flush"
        /\ UNCHANGED <<receipt, agg, job, seen, write, result>>
        /\ \A g \in Handler \ {h} : pc'[g] = pc[g]
    BY <1>9 DEF Insert
  <2>2. \A g \in Handler : Visible(g)' = Visible(g)
    BY <2>1 DEF Visible
  <2> QED BY <2>1, <2>2 DEF MarkedInv
<1> QED
  BY <1>1, <1>2, <1>3, <1>4, <1>5, <1>6, <1>7, <1>8, <1>9 DEF Next, HandlerStep

\* Nothing has been loaded or computed when a message has just been stored.
LEMMA MarkedInit == Init => MarkedInv
BY DEF Init, MarkedInv

\* The body of NeverUndelivered: only a commit moves receipts or the aggregate.
LEMMA ForwardStep ==
  TypeInv /\ EarnedInv /\ MarkedInv /\ [Next]_vars =>
    /\ \A u \in User : receipt[u] \in {"delivered", "read"} => receipt'[u] \in {"delivered", "read"}
    /\ readBy \subseteq readBy'
    /\ agg # "persisted" => agg' # "persisted"
<1> SUFFICES ASSUME TypeInv, EarnedInv, MarkedInv, [Next]_vars
             PROVE  /\ \A u \in User : receipt[u] \in {"delivered", "read"}
                                       => receipt'[u] \in {"delivered", "read"}
                    /\ readBy \subseteq readBy'
                    /\ agg # "persisted" => agg' # "persisted"
  OBVIOUS
<1>1. CASE UNCHANGED <<receipt, readBy, agg>>
  BY <1>1
<1>2. ASSUME NEW h \in Handler, Commit(h)
      PROVE  /\ \A u \in User : receipt[u] \in {"delivered", "read"}
                                => receipt'[u] \in {"delivered", "read"}
             /\ readBy \subseteq readBy'
             /\ agg # "persisted" => agg' # "persisted"
  <2>1. receipt' = Visible(h) /\ pc[h] = "commit"
    BY <1>2 DEF Commit
  <2>2. readBy \subseteq readBy'
    BY <1>2 DEF Commit
  <2>3. agg # "persisted" => agg' # "persisted"
    BY <1>2, <2>1 DEF Commit, MarkedInv
  <2> QED BY <2>1, <2>2, <2>3, VisibleRow
<1>3. UNCHANGED <<receipt, readBy, agg>> \/ \E h \in Handler : Commit(h)
  BY DEF Next, HandlerStep, vars, dbVars, RemoveMember, Acknowledge, Take, RestRead, Load,
         RejectNonMember, Insert, Flush, InsertConflict, Compute, Publish, HandlerFault,
         HandlerStuck, HandleError, Ack, Crash, Finish
<1> QED BY <1>1, <1>2, <1>3

\* Acknowledged receipts stay acknowledged, and the aggregate past "persisted"
\* (mark_delivered and mark_read in overlapping transactions).
THEOREM NeverUndeliveredCorrect == Spec => NeverUndelivered
<1>1. Spec => [](TypeInv /\ EarnedInv /\ MarkedInv)
  BY TypeInit, TypeStep, EarnedInit, EarnedStep, MarkedInit, MarkedStep, PTL DEF Spec
<1>2. TypeInv /\ EarnedInv /\ MarkedInv /\ [Next]_vars =>
        [ /\ \A u \in User : receipt[u] \in {"delivered", "read"}
                             => receipt'[u] \in {"delivered", "read"}
          /\ readBy \subseteq readBy'
          /\ agg # "persisted" => agg' # "persisted" ]_vars
  BY ForwardStep
<1> QED BY <1>1, <1>2, PTL DEF Spec, NeverUndelivered

=============================================================================
