----------------------------- MODULE VoteRegister -----------------------------
(***************************************************************************)
(* What the election relies on in every voter, and all it relies on: a     *)
(* process casts its votes one by one, each in a later term than the one   *)
(* before, and a cast vote stays as it is until the process ends.          *)
(***************************************************************************)
EXTENDS Integers

CONSTANTS Term,      \* a set of numbers
          Candidate

VARIABLES votes,   \* the <<term, candidate>> pairs cast so far
          process  \* counts the processes this voter has been

Init == votes = {} /\ process = 0

Cast(t, c) ==
  /\ \A v \in votes : v[1] < t
  /\ votes' = votes \cup {<<t, c>>}
  /\ UNCHANGED process

(* A new process knows nothing of its predecessor's votes. *)
Forget ==
  /\ votes' = {}
  /\ process' = process + 1

Next ==
  \/ \E t \in Term, c \in Candidate : Cast(t, c)
  \/ Forget

Spec == Init /\ [][Next]_<<votes, process>>

=============================================================================
