------------------------- MODULE MCDeliveryReceipts -------------------------
(***************************************************************************)
(* Instances of DeliveryReceipts for TLC: two users and two transactions   *)
(* open at once.                                                           *)
(***************************************************************************)
EXTENDS DeliveryReceipts

CONSTANTS a, b, h1, h2

=============================================================================
