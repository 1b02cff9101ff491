------------------------------ MODULE MCRecovery ------------------------------
(* A master and a follower; the writes are alike. *)
EXTENDS Recovery, TLC

CONSTANTS s1, s2, w1, w2, w3

Alike == Permutations(Write)

============================================================================
