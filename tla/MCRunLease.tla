----------------------------- MODULE MCRunLease -----------------------------
(* Instances of RunLease for TLC. *)
EXTENDS RunLease, TLC

CONSTANTS w1, w2, s1

MCRun == {1, 2}
MCSessionOf == [r \in MCRun |-> s1]

\* One run only
MCOneRun == {1}
MCOneSessionOf == [r \in MCOneRun |-> s1]

MCSymmetry == Permutations({w1, w2})

=============================================================================
