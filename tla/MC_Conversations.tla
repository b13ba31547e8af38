--------------------------- MODULE MC_Conversations ---------------------------
(* Small instances of Conversations. *)
EXTENDS Conversations, TLC

Symmetry == Permutations(Users)
===============================================================================
