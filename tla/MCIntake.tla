------------------------------ MODULE MCIntake ------------------------------
(***************************************************************************)
(* An instance of Intake for TLC: two shops share the database.  No action *)
(* and no property tells one customer, diagnosis or request from another.  *)
(***************************************************************************)
EXTENDS Intake, TLC
CONSTANTS ann, bob, w1, c1, c2, d1, d2, r1, r2

\* A manager and the owner of another shop.
MCTenant == (ann :> "T1") @@ (bob :> "T2")
MCRole == (ann :> "MANAGER") @@ (bob :> "OWNER")
Symmetry == Permutations({c1, c2}) \cup Permutations({d1, d2}) \cup Permutations({r1, r2})
=============================================================================
