-------------------------- MODULE MCDesktopSocket --------------------------
(***************************************************************************)
(* Instances of DesktopSocket for TLC: two WebSockets, so that one can     *)
(* linger at the server while the next is open, and two sign-ins.          *)
(***************************************************************************)
EXTENDS DesktopSocket, TLC

CONSTANTS v1, v2, c1, c2, none

=============================================================================
