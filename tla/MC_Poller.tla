------------------------------ MODULE MC_Poller ------------------------------
(* Instances of Poller for TLC. *)
EXTENDS Poller, TLC

CONSTANTS p1, o1

\* Every order passes every filter, or one player's filter turns one away.
AllWanted == Players \X Orders
OneFiltered == AllWanted \ {<<p1, o1>>}

Symmetry == Permutations(Orders) \cup Permutations(Pollers)
=============================================================================
