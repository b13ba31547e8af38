--------------------------- MODULE MC_ChatPipeline ----------------------------
(* Small instances of ChatPipeline, and its mutants. *)
EXTENDS ChatPipeline, TLC

Symmetry == Permutations(Ids) \cup Permutations(Handlers)
===============================================================================
