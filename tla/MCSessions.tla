----------------------------- MODULE MCSessions -----------------------------
EXTENDS Sessions, TLC

\* Every registration makes a tenant of its own.
MCTenant == [u \in Users |-> u]

Symmetry == Permutations(Tokens) \cup Permutations(Links) \cup Permutations(Requests)
=============================================================================
