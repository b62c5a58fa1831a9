---------------------------- MODULE MCMobileChat ----------------------------
(***************************************************************************)
(* Instances of MobileChat for TLC: a message of the user and one of       *)
(* another user.                                                           *)
(***************************************************************************)
EXTENDS MobileChat, TLC

CONSTANTS a, o1, o2

=============================================================================
