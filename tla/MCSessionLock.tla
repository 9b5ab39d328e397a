---------------------------- MODULE MCSessionLock ----------------------------
(* Instances of SessionLock for TLC. *)
EXTENDS SessionLock

CONSTANTS d1, d2, l1, l2
=============================================================================
