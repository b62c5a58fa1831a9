------------------------ MODULE MCDesktopTranscript ------------------------
(***************************************************************************)
(* Instances of DesktopTranscript for TLC: a message of the user and one   *)
(* or two of others, in pages of one row.                                  *)
(***************************************************************************)
EXTENDS DesktopTranscript, TLC

CONSTANTS a, o1, o2, s1, s2

=============================================================================
