--------------------------- MODULE MCLogReplication ---------------------------
EXTENDS LogReplication, TLC

CONSTANTS set1, set2, del, f1, f2

Calls(f) == [o \in Op |-> f[o]]

(* A Set whose value has a ':', so that its command does not parse, and    *)
(* the Delete of a key that begins with that of the Set; a second Set.     *)
MCKeyOf == Calls((set1 :> <<"x">>) @@ (set2 :> <<"x">>) @@ (del :> <<"x", "z">>))
MCValueOf == Calls((set1 :> <<"1", "1">>) @@ (set2 :> <<"2">>) @@ (del :> None))

(* Three Sets of one key. *)
MCOneKeyOf == [o \in Op |-> <<"x">>]
MCOneValueOf == Calls((set1 :> <<"1">>) @@ (set2 :> <<"2">>) @@ (del :> <<"3">>))

MCKey == {<<"x">>, <<"x", "z">>}

(* What a Set that is over wrote does not come back once a later Set of    *)
(* the key is answered OK (the three Sets are alike, so one pair will do). *)
(* It does not hold: a call that has checked an entry (state_machine.go    *)
(* 107) executes it (148) at any later time.                               *)
NewestVisible == Replaced(set2, set1)

(* Followers in the leader's term. *)
MCSameTerm == [f \in Follower |-> 0]

=============================================================================
