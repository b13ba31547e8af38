------------------------------- MODULE MC_Rooms -------------------------------
(* Small instances of Rooms and Mesh: alice has two tabs. *)
EXTENDS Mesh

CONSTANTS alice, bob, carol, a1, a2, b1, c1

TabOwner == [c \in Conns |-> IF c = b1 THEN bob ELSE IF c = c1 THEN carol ELSE alice]
===============================================================================
