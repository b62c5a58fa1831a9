---------------------- MODULE MCConversationMembership ----------------------
(***************************************************************************)
(* Instances of ConversationMembership for TLC: a group of its creator a   *)
(* and perhaps b, a socket of b, and two requests at once.                 *)
(***************************************************************************)
EXTENDS ConversationMembership, TLC

CONSTANTS a, b, r1, r2, s1

MCOwner == s1 :> b

=============================================================================
