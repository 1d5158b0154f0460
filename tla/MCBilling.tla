----------------------------- MODULE MCBilling -----------------------------
(***************************************************************************)
(* Instances of Billing for TLC: one invoice of 2, or of nothing, paid by  *)
(* a half, by an event without an amount, and by one whose amount is       *)
(* negative.  Request slots are interchangeable.                           *)
(***************************************************************************)
EXTENDS Billing, TLC

CONSTANTS i1, half, whole, back

TestPays == [x \in Transactions |-> i1]
TestAmount == [x \in Transactions |->
                CASE x = whole -> 0 [] x = back -> -1 [] OTHER -> 1]

SlotSymmetry == Permutations(Requests)
=============================================================================
