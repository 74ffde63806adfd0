-------------------------------- MODULE MCDesk --------------------------------
(* The desk on small instances. *)
EXTENDS MCApproval, Desk

CONSTANTS l1, l2, otherLine

\* Two units of one line and one of another; receipts of one unit, of two, of
\* none, of too many, of a line of another order.
TwoLines == [l \in {l1, l2} |-> IF l = l1 THEN 2 ELSE 1]
Receipts == {[l \in {l1} |-> 1], [l \in {l1} |-> 2], [l \in {l2} |-> 1],
             [l \in {l1} |-> 0], [l \in {l2} |-> 2], [l \in {otherLine} |-> 1]}
=============================================================================
