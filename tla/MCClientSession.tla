--------------------------- MODULE MCClientSession ---------------------------
(***************************************************************************)
(* Instances of ClientSession for TLC: two tabs with a caller each, beside *)
(* their timers.                                                           *)
(***************************************************************************)
EXTENDS ClientSession, TLC

CONSTANTS w1, w2, c1, c2

MCHome == c1 :> w1 @@ c2 :> w2

=============================================================================
