------------------------------ MODULE MCRestart ------------------------------
EXTENDS Restart, TLC

CONSTANTS set1, set2, del

(* Two Sets of one key, which are alike, and the Delete of a longer key    *)
(* that begins with it.                                                    *)
MCKey == {<<"x">>, <<"x", "z">>, <<"y">>}
MCKeyOf == [o \in Op |-> IF o = del THEN <<"x", "z">> ELSE <<"x">>]
MCValueOf == [o \in Op |-> IF o = del THEN None ELSE <<o>>]
Alike == Permutations({set1, set2})

(* The Sets of two keys. *)
MCTwoKeyOf == [o \in Op |-> IF o = set1 THEN <<"x">> ELSE <<"y">>]

MCNoFollowers == [f \in Follower |-> 0]

==============================================================================
