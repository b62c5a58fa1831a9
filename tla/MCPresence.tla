----------------------------- MODULE MCPresence -----------------------------
(***************************************************************************)
(* A phone that reconnects with its session while the gateway still holds  *)
(* the old socket, one maintenance loop, one reader, one fault.            *)
(***************************************************************************)
EXTENDS Presence

CONSTANTS s1, s2, s3, phone, desk

MCSessionOf == [s \in Socket |-> IF s = s3 THEN desk ELSE phone]
=============================================================================
