------------------------------ MODULE Stockroom ------------------------------
(***************************************************************************)
(* What PartsService promises of the parts of a tenant: a part has a       *)
(* number nobody else has, if any; stock is moved in one step, never below *)
(* zero or beyond the column, and every movement is in the ledger.         *)
(***************************************************************************)
EXTENDS Integers, Sequences

CONSTANTS Parts, PartNumbers, Quantities, MaxStock
VARIABLES partNumber, stock, ledger

vars == <<partNumber, stock, ledger>>

Init ==
  /\ partNumber = [p \in Parts |-> "ABSENT"]
  /\ stock = [p \in Parts |-> 0]
  /\ ledger = [p \in Parts |-> <<>>]

Write(p, n) ==
  /\ n \in PartNumbers => \A o \in Parts \ {p} : partNumber[o] # n
  /\ partNumber' = [partNumber EXCEPT ![p] = n]
  /\ UNCHANGED <<stock, ledger>>

Create(p, n) == partNumber[p] = "ABSENT" /\ Write(p, n)

Renumber(p, n) == partNumber[p] # "ABSENT" /\ Write(p, n)

Move(p, quantity) ==
  /\ partNumber[p] # "ABSENT"
  /\ stock[p] + quantity \in 0..MaxStock
  /\ stock' = [stock EXCEPT ![p] = @ + quantity]
  /\ ledger' = [ledger EXCEPT ![p] = Append(@, quantity)]
  /\ UNCHANGED partNumber

Next == \E p \in Parts :
  \/ \E n \in PartNumbers \cup {"NULL"} : Create(p, n)
  \/ \E n \in PartNumbers : Renumber(p, n)
  \/ \E quantity \in Quantities : Move(p, quantity)

Spec == Init /\ [][Next]_vars
=============================================================================
