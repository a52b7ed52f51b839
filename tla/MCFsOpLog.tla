----------------------------- MODULE MCFsOpLog -----------------------------
(* Instances of FsOpLog for TLC: records of one and two cells. *)
EXTENDS FsOpLog
CONSTANTS w1, w2, w3, w4

SizeThree == [w \in Writers |-> IF w = w2 THEN 2 ELSE 1]
====
