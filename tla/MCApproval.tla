----------------------------- MODULE MCApproval -----------------------------
(* Approval on small instances. *)
EXTENDS Approval, TLC

\* A large removal and large receipts, which fit only after it.
LargeChanges == [r \in Request |-> IF r = 1 THEN -2 ELSE 2]
Symmetry == Permutations(Session)
=============================================================================
