---------------------------- MODULE RunLifecycle ----------------------------
(***************************************************************************)
(* What the durable run store promises to the clients of a session,        *)
(* without processes, leases, liveness or tools: a session is a queue      *)
(* whose runs are started in the order of their enqueue_seq and one at a   *)
(* time, a run may pause for an answer, and its verdict is final.          *)
(***************************************************************************)
EXTENDS Integers

CONSTANTS Run, SessionOf

VARIABLE phase

Verdict == {"completed", "failed", "cancelled", "orphaned"}
Active  == {"queued", "executing", "parked"}

Init == phase = [r \in Run |-> "absent"]

Enter(r, from, to) == phase[r] = from /\ phase' = [phase EXCEPT ![r] = to]

\* A message is submitted, or an orphaned one is submitted again
Submit(r) == Enter(r, "absent", "queued")

\* A run starts: nothing of its session executes and nothing older is queued
Start(r) ==
  /\ \A q \in Run \ {r} : SessionOf[q] = SessionOf[r] =>
       /\ phase[q] # "executing"
       /\ phase[q] = "queued" => r < q
  /\ Enter(r, "queued", "executing")

\* A run asks the user, gets an answer, and loses the answer again
Park(r)   == Enter(r, "executing", "parked")
Resume(r) == Enter(r, "parked", "queued")
Revert(r) == Enter(r, "queued", "parked")

\* A verdict on one or several runs
Conclude(S, v) ==
  /\ \A r \in S : phase[r] \in Active
  /\ phase' = [r \in Run |-> IF r \in S THEN v ELSE phase[r]]

Next ==
  \/ \E r \in Run : Submit(r) \/ Start(r) \/ Park(r) \/ Resume(r) \/ Revert(r)
  \/ \E S \in SUBSET Run, v \in Verdict : Conclude(S, v)

Spec == Init /\ [][Next]_phase

=============================================================================
