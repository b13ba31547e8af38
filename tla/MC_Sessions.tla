------------------------------ MODULE MC_Sessions ------------------------------
(* Small instances of Sessions: two calls in the first tab, one in the second. *)
EXTENDS Sessions

CONSTANTS t1, t2, c1, c2, c3

TabOfCall == [c \in Calls |-> IF c = c3 THEN t2 ELSE t1]
===============================================================================
