---------------------------- MODULE MCEstimates ----------------------------
(***************************************************************************)
(* Instances of Estimates for TLC.  Request slots and orders are           *)
(* interchangeable: no action and no property tells one from another.      *)
(***************************************************************************)
EXTENDS Estimates, TLC

Symmetry == Permutations(Requests) \cup Permutations(Orders)
=============================================================================
