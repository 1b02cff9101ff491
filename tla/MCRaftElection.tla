--------------------------- MODULE MCRaftElection ---------------------------
EXTENDS RaftElection, TLC

CONSTANTS n1, n2, n3

(* Three servers that know each other and learn, from the master's answer, *)
(* the list that names the caller too; it may come late, or not at all.    *)
MCThree == {n1, n2, n3}
MCOthers == [n \in MCThree |-> MCThree \ {n}]
MCReplies == {MCThree}

(* The same three when each has had that answer, so that it is its own     *)
(* peer.                                                                   *)
MCFullPeers == [n \in MCThree |-> MCThree]

(* n1 may be a candidate in terms 1 and 2, the master n3, whose election   *)
(* timer runs too, in term 2.                                              *)
MCThreeElections == {<<n1, 1>>, <<n1, 2>>, <<n3, 2>>}

(* A cluster of two: a master that never asks itself for its peers and one *)
(* other server, the only candidate, that learns the list from the reply.  *)
MCTwo == {n1, n2}
MCTwoPeers == (n1 :> {}) @@ (n2 :> {n1})
MCTwoReplies == {MCTwo}
MCTwoElections == {<<n2, 1>>}

=============================================================================
