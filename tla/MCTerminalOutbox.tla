-------------------------- MODULE MCTerminalOutbox --------------------------
(* Instances of TerminalOutbox for TLC. *)
EXTENDS TerminalOutbox

CONSTANTS r1, r2, t1, t2

MCVerdictLive == {"cancelled", "orphaned"}
MCVerdict == {"completed", "cancelled", "orphaned"}
=============================================================================
