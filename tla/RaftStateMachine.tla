-------------------------- MODULE RaftStateMachine --------------------------
(***************************************************************************)
(* The field of RaftStateMachine that its voting (RaftVoting) and its log  *)
(* (FollowerLog) share (ddbr-server/infra/raft_state_machine.go).          *)
(***************************************************************************)
EXTENDS Integers

CONSTANT MaxTerm      \* bound on the terms of requests and elections
VARIABLE currentTerm  \* sm.currentTerm

Terms == 0 .. MaxTerm

=============================================================================
