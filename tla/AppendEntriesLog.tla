--------------------------- MODULE AppendEntriesLog ---------------------------
(***************************************************************************)
(* What an AppendEntries request does to a follower's log                  *)
(* (RaftStateMachine.AppendEntries, raft_state_machine.go), as operators   *)
(* on a log and a request.                                                 *)
(*                                                                         *)
(* A log is a sequence of entries [term, index, cmd].  A request has the   *)
(* fields term, prev (PrevLogIndex), prevTerm, entries (a sequence of      *)
(* commands: the entries' own terms are not sent) and commit               *)
(* (LeaderCommit).                                                         *)
(***************************************************************************)
EXTENDS Integers, Sequences, FiniteSetsExt

(* The entry before the new ones is present, with the leader's term.       *)
Consistent(log, req) ==
  /\ req.prev <= Len(log)
  /\ req.prev > 0 => log[req.prev].term = req.prevTerm

(* Every received command becomes an entry of the request's term.          *)
NewEntries(req) ==
  [i \in 1 .. Len(req.entries) |->
     [term |-> req.term, index |-> req.prev + i, cmd |-> req.entries[i]]]

(* New entries whose place in the log holds an entry of another term.      *)
Conflicts(log, new) ==
  {i \in DOMAIN new : /\ new[i].index \in DOMAIN log
                      /\ log[new[i].index].term # new[i].term}

(* Faulty variant: the cut also removes the entry before the conflict. *)
TruncateTooMuch(log, new) ==
  IF Conflicts(log, new) = {} THEN log
  ELSE SubSeq(log, 1, new[Min(Conflicts(log, new))].index - 2)

(* The log cut before the first conflict.                                  *)
Truncate(log, new) ==
  IF Conflicts(log, new) = {} THEN log
  ELSE SubSeq(log, 1, new[Min(Conflicts(log, new))].index - 1)

(* Faulty variant: entries the log already has are appended again. *)
AppendNewAll(log, new) == Truncate(log, new) \o new

(* The new entries are taken from position len(log) + 1 of the REQUEST.    *)
AppendNew(log, new) ==
  LET kept == Truncate(log, new)
  IN  kept \o SubSeq(new, Len(kept) + 1, Len(new))

(* The commit index after a request with entries that left this log.       *)
FollowerCommit(log, commitIndex, req) ==
  IF req.commit > commitIndex THEN Min({req.commit, Len(log)}) ELSE commitIndex

----------------------------------------------------------------------------
(* The rule of Raft for the same request: everything the request carries   *)
(* is in the log afterwards, right behind the entry at PrevLogIndex.       *)
RaftAppend(log, req) ==
  LET new == NewEntries(req)
  IN  IF Conflicts(log, new) = {} /\ req.prev + Len(new) <= Len(log)
      THEN log
      ELSE SubSeq(log, 1, req.prev) \o new

=============================================================================
