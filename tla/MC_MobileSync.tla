---------------------------- MODULE MC_MobileSync -----------------------------
EXTENDS MobileSync, TLC

Symmetry == Permutations(Theirs) \cup Permutations(Mine) \cup Permutations(Syncs)
===============================================================================
