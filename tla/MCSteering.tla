----------------------------- MODULE MCSteering -----------------------------
(* Instances of Steering for TLC. *)
EXTENDS Steering

MCRun == {1, 2, 3}
MCTwoRuns == {1, 2}
=============================================================================
