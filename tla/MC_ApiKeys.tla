----------------------------- MODULE MC_ApiKeys -----------------------------
EXTENDS ApiKeys, TLC
CONSTANTS p1

\* Requests are interchangeable, and so are keys; the owner is one player.
Symmetry == Permutations(Requests) \cup Permutations(Keys)
=============================================================================
