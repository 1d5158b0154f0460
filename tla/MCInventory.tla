---------------------------- MODULE MCInventory ----------------------------
(***************************************************************************)
(* Instances of Inventory for TLC.  Parts, part numbers and request slots  *)
(* are interchangeable in every safety property.                           *)
(***************************************************************************)
EXTENDS Inventory, TLC

Symmetry == Permutations(Requests) \cup Permutations(Parts)
            \cup Permutations(PartNumbers)

\* Receipts and withdrawals small enough to be refused, to overflow and to
\* be undone by each other.
TestQuantities == {-1, 2}
=============================================================================
