-------------------------- MODULE MCReorderAlerts --------------------------
(* ReorderAlerts on small instances. *)
EXTENDS ReorderAlerts, TLC

UpAndDown == {-1, 1}
=============================================================================
