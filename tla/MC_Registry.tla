---------------------------- MODULE MC_Registry ----------------------------
(* Instances of Registry for TLC.  Players, items and workers are never      *)
(* compared except for equality and no operator chooses among them, so       *)
(* their permutations are symmetries of the safety properties.               *)
EXTENDS Registry, TLC

Symmetry == Permutations(Players) \cup Permutations(Items) \cup Permutations(Workers)
=============================================================================
