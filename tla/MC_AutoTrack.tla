---------------------------- MODULE MC_AutoTrack ----------------------------
EXTENDS AutoTrack, TLC

\* Items are interchangeable, and so are resyncs.
Symmetry == Permutations(Items) \cup Permutations(Syncs)
=============================================================================
