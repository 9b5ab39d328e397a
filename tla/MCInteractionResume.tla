------------------------- MODULE MCInteractionResume -------------------------
(* Instances of InteractionResume for TLC *)
EXTENDS InteractionResume, TLC

\* Answers are interchangeable in the runs without fairness
HandlerSymmetry == Permutations(Handler)
=============================================================================
