------------------------------- MODULE MC_Calls -------------------------------
(* One caller with one tab and a callee with two. *)
EXTENDS Calls, TLC
CONSTANTS alice, bob, a, b1, b2
TabOwner == a :> alice @@ b1 :> bob @@ b2 :> bob
Symmetry == Permutations({b1, b2})
===============================================================================
