--------------------------- MODULE MCClientRequests ---------------------------
EXTENDS ClientRequests, TLC

CONSTANTS set, del, get, g1, g2

(* The Set of a key, the Delete of another that begins with it, and a Get  *)
(* of the first.                                                           *)
MCKey == {<<"x">>, <<"x", "z">>}
MCKeyOf == [o \in Op |-> IF o = del THEN <<"x", "z">> ELSE <<"x">>]
MCValueOf == [o \in Op |-> IF o = del THEN None ELSE <<"1">>]
MCReadKey == [c \in Reader |-> <<"x">>]
MCNoFollowers == [f \in Follower |-> 0]

============================================================================
