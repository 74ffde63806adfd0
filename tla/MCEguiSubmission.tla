-------------------------- MODULE MCEguiSubmission --------------------------
(* EguiSubmission on small instances. *)
EXTENDS EguiSubmission, TLC

Symmetry == Permutations(Session)
=============================================================================
