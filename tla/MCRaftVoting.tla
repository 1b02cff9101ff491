---------------------------- MODULE MCRaftVoting ----------------------------
(* Three node ids, of which n1 is the node under study.                    *)
EXTENDS RaftVoting, TLC

CONSTANTS n1, n2, n3

MCNode == {n1, n2, n3}

(* The other candidates are interchangeable. *)
MCSymmetry == Permutations({n2, n3})

=============================================================================
