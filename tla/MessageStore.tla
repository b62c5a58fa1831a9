---------------------------- MODULE MessageStore ----------------------------
(***************************************************************************)
(* What the ingress pipeline promises, with no gateway, no broker and no   *)
(* worker in it: a request a client sent is stored at most once per client *)
(* message id; an acknowledgement names a stored message of that client    *)
(* message id, never one still in flight; a request may be refused, which  *)
(* does not undo that another copy of it was stored; nothing stored or     *)
(* acknowledged is ever taken back.                                        *)
(* MessagePipeline is shown to implement this specification.               *)
(***************************************************************************)
CONSTANTS Request   \* the send_message requests clients may make

VARIABLES
  requested,   \* requests a client has sent at least once
  stored,      \* durable messages: records [id, event]
  confirmed,   \* acknowledgements sent: records [event, id]
  refused      \* requests reported to their sender as failed

storeVars == <<requested, stored, confirmed, refused>>

Init ==
  /\ requested = {}
  /\ stored = {}
  /\ confirmed = {}
  /\ refused = {}

\* A client sends a request, or sends it again.
Send(e) ==
  /\ requested' = requested \cup {e}
  /\ UNCHANGED <<stored, confirmed, refused>>

\* The first request with a client message id to be stored wins it for good.
Store(e) ==
  /\ e \in requested
  /\ \E new \in stored' :
       /\ new.event = e
       /\ \A m \in stored : m.event.client # e.client /\ m.id # new.id
       /\ stored' = stored \cup {new}
  /\ UNCHANGED <<requested, confirmed, refused>>

\* The sender of a request is told which message its client message id became.
Confirm(e, m) ==
  /\ e \in requested
  /\ m.event.client = e.client
  /\ confirmed' = confirmed \cup {[event |-> e, id |-> m.id]}
  /\ UNCHANGED <<requested, stored, refused>>

\* The sender is told that the request failed.
Refuse(e) ==
  /\ e \in requested
  /\ refused' = refused \cup {e}
  /\ UNCHANGED <<requested, stored, confirmed>>

Next ==
  \E e \in Request :
    \/ Send(e)
    \/ Store(e)
    \/ \E m \in stored : Confirm(e, m)
    \/ Refuse(e)

Spec == Init /\ [][Next]_storeVars

=============================================================================
