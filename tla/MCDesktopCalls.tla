--------------------------- MODULE MCDesktopCalls ---------------------------
(***************************************************************************)
(* Instances of DesktopCalls for TLC: calls in both directions, one after  *)
(* the other or at once.                                                   *)
(***************************************************************************)
EXTENDS DesktopCalls, TLC

CONSTANTS p1, r1

=============================================================================
