---------------------------- MODULE LogReplication ----------------------------
(***************************************************************************)
(* The write path of the leader: Set and Delete (kv_impl.go), the leader's *)
(* RaftState (raft_state.go), ReplicateLogs and commitLog (replication.go) *)
(* and the key-value StateMachine (state_machine.go), with followers that  *)
(* answer AppendEntries.                                                   *)
(*                                                                         *)
(* Every client call runs in a goroutine of its own, and so does every     *)
(* request to a follower.  Each action is one section under RaftState.Mu   *)
(* or StateMachine.mu, so calls interleave wherever the code lets go of a  *)
(* lock.  A request or a reply may be late or lost; ReplicateLogs goes on  *)
(* after 3 s with the replies it has.  The election (RaftElection) may     *)
(* take configs.IsMaster from the node and give it back at any time.       *)
(***************************************************************************)
EXTENDS AppendEntriesLog, Commands

CONSTANTS Op,            \* client calls, each a Set or a Delete
          Key,
          KeyOf,         \* the key of each call, as parts (see Commands)
          ValueOf,       \* the value of a Set, as parts; None for a Delete
          Follower,      \* RaftState.Peers of the leader
          LeaderTerm,    \* RaftState.CurrentTerm at the start
          FollowerTerm   \* currentTerm of each follower at the start

ASSUME ReplicationConstants ==
  /\ KeyOf \in [Op -> Key]
  /\ LeaderTerm \in Nat /\ FollowerTerm \in [Follower -> Nat]

VARIABLES
  IsMaster,                                     \* configs.IsMaster
  CurrentTerm, Logs, CommitIndex, LastApplied,  \* RaftState of the leader
  NextIndex, MatchIndex,                        \* ... per follower; 0 = not in the map
  data, lastAppliedIndex,                       \* StateMachine of the leader
  pc, call,                                     \* the goroutine of each client call
  rpc,                                          \* the doPreCommit goroutines
  fTerm, fLogs, fCommit                         \* RaftStateMachine of each follower

leaderVars == <<CurrentTerm, Logs, CommitIndex, LastApplied, NextIndex, MatchIndex>>
storeVars == <<data, lastAppliedIndex>>
followerVars == <<fTerm, fLogs, fCommit>>
vars == <<IsMaster, leaderVars, storeVars, pc, call, rpc, followerVars>>

Init ==
  /\ IsMaster = TRUE
  /\ CurrentTerm = LeaderTerm
  /\ Logs = <<>>
  /\ CommitIndex = 0
  /\ LastApplied = 0
  /\ NextIndex = [f \in Follower |-> 0]
  /\ MatchIndex = [f \in Follower |-> 0]
  /\ data = [k \in Key |-> None]
  /\ lastAppliedIndex = 0
  /\ pc = [o \in Op |-> "idle"]
  /\ call = [o \in Op |-> [index |-> 0, term |-> 0, count |-> 0, todo |-> <<>>]]
  /\ rpc = [o \in Op |-> [f \in Follower |-> [step |-> "none"]]]
  /\ fTerm = FollowerTerm
  /\ fLogs = [f \in Follower |-> <<>>]
  /\ fCommit = [f \in Follower |-> 0]

Goto(o, where) == pc' = [pc EXCEPT ![o] = where]

(* The command of a call; an entry names the call it comes from. *)
Cmd(o) == Command(KeyOf[o], ValueOf[o])

LastIndex == IF Logs = <<>> THEN 0 ELSE Logs[Len(Logs)].index

----------------------------------------------------------------------------
(* Set and Delete, up to the local append.                                 *)

(* Not the leader: the call is turned away. *)
Refuse(o) ==
  /\ pc[o] = "idle" /\ ~IsMaster
  /\ Goto(o, "refused")
  /\ UNCHANGED <<IsMaster, leaderVars, storeVars, call, rpc, followerVars>>

(* GetLastLogIndex gives the index of the new entry. *)
ReadLastIndex(o) ==
  /\ pc[o] = "idle" /\ IsMaster
  /\ call' = [call EXCEPT ![o].index = LastIndex + 1]
  /\ Goto(o, "term")
  /\ UNCHANGED <<IsMaster, leaderVars, storeVars, rpc, followerVars>>

(* GetCurrentTerm *)
ReadTerm(o) ==
  /\ pc[o] = "term"
  /\ call' = [call EXCEPT ![o].term = CurrentTerm]
  /\ Goto(o, "append")
  /\ UNCHANGED <<IsMaster, leaderVars, storeVars, rpc, followerVars>>

SameIndex(i) == {p \in DOMAIN Logs : Logs[p].index = i}

(* Faulty variant: an index already taken is not looked for. *)
LogWithTakenIndex(entry) == Append(Logs, entry)

(* Faulty variant: an entry with the same index is always cut off. *)
LogWithReplacement(entry) ==
  LET same == SameIndex(entry.index)
  IN  IF same = {} THEN Append(Logs, entry)
      ELSE Append(SubSeq(Logs, 1, Min(same) - 1), entry)

(* The log after RaftState.AppendLog: an entry with this index and term is *)
(* taken for a repetition, one with another term is cut off with all that  *)
(* follow it.                                                              *)
LogWith(entry) ==
  LET same == SameIndex(entry.index)
  IN  IF same = {} THEN Append(Logs, entry)
      ELSE IF Logs[Min(same)].term = entry.term THEN Logs
      ELSE Append(SubSeq(Logs, 1, Min(same) - 1), entry)

AppendLog(o) ==
  /\ pc[o] = "append"
  /\ Logs' = LogWith([term |-> call[o].term, index |-> call[o].index, cmd |-> o])
  /\ Goto(o, "replicate")
  /\ UNCHANGED <<IsMaster, CurrentTerm, CommitIndex, LastApplied, NextIndex, MatchIndex,
                 storeVars, call, rpc, followerVars>>

(* ReplicateLogs gives up if the node is no longer the leader, though the  *)
(* entry is in the log.  Else it starts one goroutine per follower, or     *)
(* commits at once when there is none.                                     *)
ReplicateLogs(o) ==
  /\ pc[o] = "replicate"
  /\ IF ~IsMaster THEN Goto(o, "failed") /\ UNCHANGED <<call, rpc>>
     ELSE /\ call' = [call EXCEPT ![o].count = 1]
          /\ rpc' = [rpc EXCEPT ![o] = [f \in Follower |-> [step |-> "start"]]]
          /\ Goto(o, IF Follower = {} THEN "commit" ELSE "wait")
  /\ UNCHANGED <<IsMaster, leaderVars, storeVars, followerVars>>

----------------------------------------------------------------------------
(* doPreCommit, one goroutine per call and follower.                       *)

(* A follower not in NextIndex starts at the last entry of the log. *)
NextFor(f) ==
  IF NextIndex[f] # 0 THEN NextIndex[f] ELSE IF Logs = <<>> THEN 1 ELSE LastIndex

(* The entries from next up to the call's own, as commands. *)
Slice(next, last) ==
  LET found == SubSeq(Logs, next, Min({last, Len(Logs)}))
  IN  [i \in 1 .. Len(found) |-> found[i].cmd]

(* First section under RaftState.Mu: next index and term. *)
StartPreCommit(o, f) ==
  /\ rpc[o][f].step = "start"
  /\ NextIndex' = [NextIndex EXCEPT ![f] = NextFor(f)]
  /\ rpc' = [rpc EXCEPT ![o][f] =
               [step |-> "slice", next |-> NextFor(f), term |-> CurrentTerm]]
  /\ UNCHANGED <<IsMaster, CurrentTerm, Logs, CommitIndex, LastApplied, MatchIndex, storeVars,
                 pc, call, followerVars>>

(* Second section: the entries, the entry before them and the commit       *)
(* index, and with them the request.                                       *)
SendPreCommit(o, f) ==
  /\ rpc[o][f].step = "slice"
  /\ LET next == rpc[o][f].next IN
     rpc' = [rpc EXCEPT ![o][f] =
       [step |-> "request", term |-> @.term, prev |-> next - 1,
        prevTerm |-> IF next - 1 \in DOMAIN Logs THEN Logs[next - 1].term ELSE 0,
        entries |-> Slice(next, call[o].index), commit |-> CommitIndex]]
  /\ UNCHANGED <<IsMaster, leaderVars, storeVars, pc, call, followerVars>>

(* The follower's AppendEntries. *)
FollowerAppend(o, f) ==
  /\ rpc[o][f].step = "request"
  /\ LET r == rpc[o][f]
         ok == r.term >= fTerm[f] /\ (r.entries # <<>> => Consistent(fLogs[f], r))
     IN /\ IF ok /\ r.entries # <<>>
           THEN /\ fLogs' = [fLogs EXCEPT ![f] = AppendNew(@, NewEntries(r))]
                /\ fCommit' = [fCommit EXCEPT ![f] = FollowerCommit(fLogs'[f], @, r)]
           ELSE UNCHANGED <<fLogs, fCommit>>
        /\ fTerm' = [fTerm EXCEPT ![f] = IF r.term > @ THEN r.term ELSE @]
        /\ rpc' = [rpc EXCEPT ![o][f] =
                     [step |-> "reply", success |-> ok, term |-> fTerm[f]]]
  /\ UNCHANGED <<IsMaster, leaderVars, storeVars, pc, call>>

(* The reply: MatchIndex and NextIndex follow a success, a failure moves   *)
(* NextIndex back or adopts the follower's term.  RaftState.IsMaster is    *)
(* cleared with it, but Set asks configs.IsMaster, which is not: the calls *)
(* go on.                                                                  *)
PreCommitReply(o, f) ==
  /\ rpc[o][f].step = "reply"
  /\ rpc' = [rpc EXCEPT ![o][f] = [step |-> "done"]]
  /\ IF rpc[o][f].success
     THEN /\ MatchIndex' = [MatchIndex EXCEPT ![f] = call[o].index]
          /\ NextIndex' = [NextIndex EXCEPT ![f] = call[o].index + 1]
          /\ call' = [call EXCEPT ![o].count = @ + 1]
          /\ UNCHANGED CurrentTerm
     ELSE /\ IF rpc[o][f].term > CurrentTerm
             THEN CurrentTerm' = rpc[o][f].term /\ UNCHANGED NextIndex
             ELSE /\ NextIndex' = [NextIndex EXCEPT ![f] = IF @ > 1 THEN @ - 1 ELSE 1]
                  /\ UNCHANGED CurrentTerm
          /\ UNCHANGED <<MatchIndex, call>>
  /\ UNCHANGED <<IsMaster, Logs, CommitIndex, LastApplied, storeVars, pc, followerVars>>

----------------------------------------------------------------------------
(* ReplicateLogs after its wait, and commitLog.                            *)

SuccessThreshold == Cardinality(Follower) \div 2 + 1

(* Faulty variant: no timeout, all goroutines have to end. *)
CountAllReplies(o) ==
  /\ pc[o] = "wait"
  /\ \A f \in Follower : rpc[o][f].step = "done"
  /\ Goto(o, IF call[o].count >= SuccessThreshold THEN "commit" ELSE "failed")
  /\ UNCHANGED <<IsMaster, leaderVars, storeVars, call, rpc, followerVars>>

(* All goroutines have ended or 3 s have passed. *)
CountReplies(o) ==
  /\ pc[o] = "wait"
  /\ Goto(o, IF call[o].count >= SuccessThreshold THEN "commit" ELSE "failed")
  /\ UNCHANGED <<IsMaster, leaderVars, storeVars, call, rpc, followerVars>>

(* SetCommitIndex.  The confirmations sent here carry no entries, so no    *)
(* follower does anything but look at the term.                            *)
CommitLog(o) ==
  /\ pc[o] = "commit"
  /\ CommitIndex' = call[o].index
  /\ Goto(o, "collect")
  /\ UNCHANGED <<IsMaster, CurrentTerm, Logs, LastApplied, NextIndex, MatchIndex, storeVars,
                 call, rpc, followerVars>>

(* ApplyCommittedLogs, first section: Logs[i] of the slice, for i from     *)
(* LastApplied + 1 to CommitIndex, is the entry at place i + 1.            *)
CollectEntries(o) ==
  /\ pc[o] = "collect"
  /\ call' = [call EXCEPT ![o].todo =
       IF LastApplied >= CommitIndex THEN <<>>
       ELSE SubSeq(Logs, LastApplied + 2, Min({CommitIndex + 1, Len(Logs)}))]
  /\ Goto(o, "apply")
  /\ UNCHANGED <<IsMaster, leaderVars, storeVars, rpc, followerVars>>

(* ApplyLogToStateMachine looks at lastAppliedIndex and parses. *)
CheckEntry(o) ==
  /\ pc[o] = "apply" /\ call[o].todo # <<>>
  /\ LET e == Head(call[o].todo) IN
     Goto(o, IF e.index <= lastAppliedIndex THEN "applied"
             ELSE IF Parses(Cmd(e.cmd)) THEN "execute" ELSE "failed")
  /\ UNCHANGED <<IsMaster, leaderVars, storeVars, call, rpc, followerVars>>

(* The command takes effect, on the key that parsing gives. *)
ExecuteEntry(o) ==
  /\ pc[o] = "execute"
  /\ LET cmd == Cmd(Head(call[o].todo).cmd)
     IN  data' = [data EXCEPT ![KeyIn(cmd)] = ValueIn(cmd)]
  /\ Goto(o, "record")
  /\ UNCHANGED <<IsMaster, leaderVars, lastAppliedIndex, call, rpc, followerVars>>

(* SetLastAppliedIndex of the StateMachine. *)
RecordEntry(o) ==
  /\ pc[o] = "record"
  /\ lastAppliedIndex' = Head(call[o].todo).index
  /\ Goto(o, "applied")
  /\ UNCHANGED <<IsMaster, leaderVars, data, call, rpc, followerVars>>

(* SetLastApplied of RaftState, and the next round of the loop. *)
PassEntry(o) ==
  /\ pc[o] = "applied"
  /\ LastApplied' = Head(call[o].todo).index
  /\ call' = [call EXCEPT ![o].todo = Tail(@)]
  /\ Goto(o, "apply")
  /\ UNCHANGED <<IsMaster, CurrentTerm, Logs, CommitIndex, NextIndex, MatchIndex, storeVars,
                 rpc, followerVars>>

(* commitLog returns CommitIndex; Set compares it with its own index. *)
CheckCommitted(o) ==
  /\ pc[o] = "apply" /\ call[o].todo = <<>>
  /\ Goto(o, IF CommitIndex < call[o].index THEN "failed" ELSE "put")
  /\ UNCHANGED <<IsMaster, leaderVars, storeVars, call, rpc, followerVars>>

(* Faulty variant: Set leaves the write to ApplyCommittedLogs. *)
AnswerOnly(o) ==
  /\ pc[o] = "put"
  /\ Goto(o, "acked")
  /\ UNCHANGED <<IsMaster, leaderVars, storeVars, call, rpc, followerVars>>

(* Set writes its value once more, directly, and answers OK. *)
PutAndAnswer(o) ==
  /\ pc[o] = "put"
  /\ data' = [data EXCEPT ![KeyOf[o]] = ValueOf[o]]
  /\ Goto(o, "acked")
  /\ UNCHANGED <<IsMaster, leaderVars, lastAppliedIndex, call, rpc, followerVars>>

(* SetIsMaster of the election, on a goroutine of its own. *)
OfficeChanges ==
  /\ IsMaster' = ~IsMaster
  /\ UNCHANGED <<leaderVars, storeVars, pc, call, rpc, followerVars>>

----------------------------------------------------------------------------
CallStep(o) ==
  \/ ReadTerm(o) \/ AppendLog(o) \/ ReplicateLogs(o) \/ CountReplies(o)
  \/ CommitLog(o) \/ CollectEntries(o) \/ CheckEntry(o) \/ ExecuteEntry(o)
  \/ RecordEntry(o) \/ PassEntry(o) \/ CheckCommitted(o) \/ PutAndAnswer(o)

Next ==
  \/ OfficeChanges
  \/ \E o \in Op : Refuse(o)
  \/ \E o \in Op : ReadLastIndex(o)
  \/ \E o \in Op : CallStep(o)
  \/ \E o \in Op, f \in Follower : StartPreCommit(o, f)
  \/ \E o \in Op, f \in Follower : SendPreCommit(o, f)
  \/ \E o \in Op, f \in Follower : FollowerAppend(o, f)
  \/ \E o \in Op, f \in Follower : PreCommitReply(o, f)

Spec == Init /\ [][Next]_vars

(* The goroutine of a call that has started keeps running. *)
FairSpec == Spec /\ \A o \in Op : WF_vars(CallStep(o))

----------------------------------------------------------------------------
Entries == [term : Nat, index : Nat, cmd : Op]

(* Every variable of the write path has its declared range; a call counts  *)
(* itself and each follower at most once.                                  *)
TypeOK ==
  /\ IsMaster \in BOOLEAN
  /\ CurrentTerm \in Nat
  /\ Logs \in Seq(Entries)
  /\ CommitIndex \in Nat /\ LastApplied \in Nat /\ lastAppliedIndex \in Nat
  /\ NextIndex \in [Follower -> Nat] /\ MatchIndex \in [Follower -> Nat]
  /\ DOMAIN data = Key
  /\ pc \in [Op -> {"idle", "refused", "term", "append", "replicate", "wait", "commit",
                    "collect", "apply", "execute", "record", "applied", "put", "acked",
                    "failed"}]
  /\ call \in [Op -> [index : Nat, term : Nat, count : 0 .. Cardinality(Follower) + 1,
                      todo : Seq(Entries)]]
  /\ fTerm \in [Follower -> Nat]
  /\ fLogs \in [Follower -> Seq(Entries)]
  /\ fCommit \in [Follower -> Nat]

(* While the leader's term stands, its log has no gap and no index that    *)
(* names a place in it (commit index, applied indexes, a follower's match  *)
(* and next index) points beyond it, although a call chooses its index     *)
(* two lock sections before it appends.                                    *)
IndexesWithinLog ==
  /\ \A i \in DOMAIN Logs : Logs[i].index = i
  /\ CommitIndex <= Len(Logs)
  /\ LastApplied <= Len(Logs) /\ lastAppliedIndex <= Len(Logs)
  /\ \A f \in Follower : MatchIndex[f] <= Len(Logs) /\ NextIndex[f] <= Len(Logs) + 1

(* The leader's log only grows at its end (AppendLog cuts it on a conflict *)
(* of terms, which takes a change of CurrentTerm).                         *)
LogAppendOnly ==
  [][/\ Len(Logs') >= Len(Logs)
     /\ SubSeq(Logs', 1, Len(Logs)) = Logs]_vars

(* What a call may write into the store: its value under its key, at the   *)
(* end of Set or Delete, and whatever its command says when it is applied. *)
Writes(o) ==
  {<<KeyOf[o], ValueOf[o]>>}
    \cup {w \in {<<KeyIn(Cmd(o)), ValueIn(Cmd(o))>>} : Parses(Cmd(o))}

(* Once a write is answered OK, a read of its key returns what some call   *)
(* that has been made writes to that key: the write itself, another call   *)
(* on the key, or a Delete whose key has this one before its first ':'     *)
(* (kv_impl.go 85, state_machine.go 122-161).  Nothing brings back what    *)
(* was there before all of them, although the log may have dropped the     *)
(* entry, or stop at one that does not parse.                              *)
AckedVisible ==
  \A o \in Op : pc[o] = "acked" =>
    \E p \in Op : pc[p] \notin {"idle", "refused"} /\ <<KeyOf[o], data[KeyOf[o]]>> \in Writes(p)

(* If p was answered OK before the call o on the same key was made, a read *)
(* does not return the value of p once o is answered OK.                   *)
Replaced(o, p) ==
  [](pc[p] = "acked" /\ pc[o] = "idle"
       => [](pc[o] = "acked" => data[KeyOf[o]] # ValueOf[p]))

(* No call is under way for ever: every call that starts is answered,      *)
(* whatever the followers do (a call that has started is not idle again).  *)
CallsAnswered ==
  \A o \in Op : []<>(pc[o] \in {"idle", "refused", "acked", "failed"})

=============================================================================
