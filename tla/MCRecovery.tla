----------------------------- MODULE MCRecovery -----------------------------
(* Instances of Recovery for TLC: records of one and two cells. *)
EXTENDS Recovery, TLC
CONSTANTS w1, w2, w3, w4, q1, q2

SizeThree == [w \in Writers |-> IF w = w2 THEN 2 ELSE 1]

MCSymmetry == Permutations({q1, q2}) \cup Permutations(Writers \ {w2})
=============================================================================
