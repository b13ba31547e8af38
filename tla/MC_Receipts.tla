----------------------------- MODULE MC_Receipts ------------------------------
EXTENDS Receipts, TLC

\* Members are alike, and so are handlers.
Symmetry == Permutations(Handlers) \cup Permutations(Members)
===============================================================================
