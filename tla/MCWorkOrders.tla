---------------------------- MODULE MCWorkOrders ----------------------------
(***************************************************************************)
(* Instances of WorkOrders for TLC.  Request slots and orders are          *)
(* interchangeable: no action and no property tells one from another.      *)
(***************************************************************************)
EXTENDS WorkOrders, TLC

Symmetry == Permutations(Requests) \cup Permutations(Orders)
=============================================================================
