----------------------------- MODULE MCBrowser -----------------------------
EXTENDS Browser, TLC
CONSTANTS t1, t2, ann, bob, p1, p2, p3

\* No property tells tabs, people or tokens apart.
Symmetry == Permutations(Tabs) \cup Permutations(Accounts) \cup Permutations(Pairs)
=============================================================================
