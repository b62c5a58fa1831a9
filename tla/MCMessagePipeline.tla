-------------------------- MODULE MCMessagePipeline --------------------------
(***************************************************************************)
(* Instances of MessagePipeline for TLC: two worker replicas with one      *)
(* handler each, and a request that may be sent again.                     *)
(***************************************************************************)
EXTENDS MessagePipeline, TLC

CONSTANTS u1, c1, k1, w1, w2, h1, h2

MCHost == h1 :> w1 @@ h2 :> w2

\* One request of one member, which a client may send twice.
MCRequest == {[client |-> k1, user |-> u1, conversation |-> c1]}
MCMember == {<<u1, c1>>}

=============================================================================
