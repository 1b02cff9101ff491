----------------------------- MODULE FollowerLog -----------------------------
(***************************************************************************)
(* The log of one follower: the AppendEntries RPC of its RaftStateMachine  *)
(* and the goroutines that apply entries to its key-value StateMachine     *)
(* (raft_state_machine.go, state_machine.go, log_service.go).              *)
(*                                                                         *)
(* Two kinds of goroutine apply: applyCommittedLogs, one at a time because *)
(* it holds sm.mu, and the one that JoinCluster starts to fetch the log of *)
(* a leader, once in the life of the process and without sm.mu.  Both call *)
(* ApplyLogToStateMachine, which has the lock of the StateMachine three    *)
(* times, to check, to execute and to record an index, and not in between. *)
(*                                                                         *)
(* The requests are those of one leader per term, each with a log of its   *)
(* own that the follower does not know: a request carries a slice of it,   *)
(* cut anywhere, and may be delayed or repeated.                           *)
(***************************************************************************)
EXTENDS RaftStateMachine, AppendEntriesLog

CONSTANTS BadCommand,  \* commands that ApplyLogToStateMachine cannot parse
          MaxLen,      \* bound on the index of a sent entry
          MaxBatch,    \* bound on the entries of one request
          MaxAppliers, \* bound on the goroutines waiting to apply
          MaxSync      \* bound on the entries of the answer to SyncLogs

(* A command is named by the term and the index it was first appended at.  *)
Command == (1 .. MaxTerm) \X (1 .. MaxLen)

ASSUME FollowerConstants ==
  /\ BadCommand \subseteq Command
  /\ MaxTerm \in Nat \ {0} /\ MaxLen \in Nat \ {0} /\ MaxBatch \in Nat \ {0}
  /\ MaxAppliers \in Nat \ {0} /\ MaxSync \in Nat

(* The goroutine with sm.mu, and the one of JoinCluster. *)
Applier == {"loop", "sync"}

VARIABLES
  logs, commitIndex, lastApplied,               \* the fields of the same names
  lastAppliedIndex,                             \* of the key-value StateMachine
  appliers,                                     \* applyCommittedLogs goroutines waiting
  applying,                                     \* loop index of the one that has sm.mu, or 0
  sync,                                         \* the entries at .. end of the log of a
                                                \* leader that are left to apply
  synced,                                       \* the sync has begun, or there is none
  step,                                         \* where each applier stands in
                                                \* ApplyLogToStateMachine
  leaderLog,                                    \* the log of each term's leader
  applied,                                      \* history: what was executed, in order,
                                                \* and by which applier
  overlapped                                    \* history: an applier passed the check while
                                                \* the other was behind it

applyVars == <<sync, synced, step, applied, overlapped>>
logVars == <<currentTerm, logs, commitIndex, lastApplied, lastAppliedIndex, appliers,
             applying, leaderLog, applyVars>>

(* The terms of the entries of a leader's log, first to last.              *)
LeaderLogs(t) ==
  {f \in [1 .. MaxLen -> 1 .. t] : \A i \in 1 .. MaxLen - 1 : f[i] <= f[i + 1]}

(* What doPreCommit and sendCommitConfirmation of the leader of term t     *)
(* send: the commands behind entry p, n of them, n = 0 for a confirmation. *)
Request(t, p, n, c) ==
  [term |-> t, prev |-> p,
   prevTerm |-> IF p = 0 THEN 0 ELSE leaderLog[t][p],
   entries |-> [i \in 1 .. n |-> <<leaderLog[t][p + i], p + i>>],
   commit |-> c]

Slices == {s \in (0 .. MaxLen) \X (0 .. MaxBatch) : s[1] + s[2] <= MaxLen}

Requests ==
  {Request(t, s[1], s[2], c) : t \in 1 .. MaxTerm, s \in Slices, c \in 0 .. MaxLen}

(* A server started as master has executed the log it saved, and its       *)
(* key-value StateMachine knows the last index of it; it does not sync.    *)
(* Its RaftStateMachine, which may come to follow a new leader, starts     *)
(* empty.                                                                  *)
LogInit ==
  /\ currentTerm = 0
  /\ logs = <<>>
  /\ commitIndex = 0
  /\ lastApplied = 0
  /\ lastAppliedIndex \in 0 .. MaxLen
  /\ appliers = 0
  /\ applying = 0
  /\ leaderLog \in {f \in [1 .. MaxTerm -> LeaderLogs(MaxTerm)] :
                      \A t \in 1 .. MaxTerm : f[t] \in LeaderLogs(t)}
  /\ applied = IF lastAppliedIndex = 0 THEN <<>>
               ELSE <<[by |-> "start", index |-> lastAppliedIndex]>>
  /\ sync = [log |-> 1, at |-> 1, end |-> 0]
  /\ synced \in BOOLEAN /\ (synced <=> lastAppliedIndex > 0)
  /\ step = [a \in Applier |-> "check"]
  /\ overlapped = FALSE

AdoptTerm(r) == currentTerm' = IF r.term > currentTerm THEN r.term ELSE currentTerm

(* What the response says in Success. *)
Accepts(r) ==
  /\ r.term >= currentTerm
  /\ r.entries # <<>> => Consistent(logs, r)

(* The log that an accepted request with entries leaves behind. *)
LogsAfter(r) == AppendNew(logs, NewEntries(r))

(* AppendEntries, under sm.mu.  A request without entries stops after the  *)
(* term check.                                                             *)
AppendEntries(r) ==
  /\ applying = 0
  /\ AdoptTerm(r)
  /\ IF Accepts(r) /\ r.entries # <<>>
     THEN /\ logs' = LogsAfter(r)
          /\ commitIndex' = FollowerCommit(logs', commitIndex, r)
          /\ appliers' = IF r.commit > commitIndex THEN appliers + 1 ELSE appliers
          /\ appliers' <= MaxAppliers
     ELSE UNCHANGED <<logs, commitIndex, appliers>>
  /\ UNCHANGED <<lastApplied, lastAppliedIndex, applying, leaderLog, applyVars>>

(* applyCommittedLogs gets sm.mu and keeps it until its loop ends. *)
BeginApply ==
  /\ appliers > 0 /\ applying = 0
  /\ appliers' = appliers - 1
  /\ applying' = IF lastApplied >= commitIndex THEN 0 ELSE lastApplied + 1
  /\ UNCHANGED <<currentTerm, logs, commitIndex, lastApplied, lastAppliedIndex,
                 leaderLog, applyVars>>

InLoop == applying <= commitIndex /\ applying <= Len(logs)

(* The end of the loop. *)
EndApply ==
  /\ applying > 0 /\ ~InLoop
  /\ applying' = 0
  /\ UNCHANGED <<currentTerm, logs, commitIndex, lastApplied, lastAppliedIndex, appliers,
                 leaderLog, applyVars>>

(* SyncLogsWithLeader: a leader's answer, n entries behind entry p of its  *)
(* log.                                                                    *)
StartSync(t, p, n) ==
  /\ ~synced
  /\ synced' = TRUE
  /\ sync' = [log |-> t, at |-> p + 1, end |-> p + n]
  /\ UNCHANGED <<currentTerm, logs, commitIndex, lastApplied, lastAppliedIndex, appliers,
                 applying, leaderLog, step, applied, overlapped>>

(* The applier has an entry to apply, and which. *)
Applies(a) == IF a = "loop" THEN applying > 0 /\ InLoop ELSE sync.at <= sync.end
EntryOf(a) ==
  IF a = "loop" THEN logs[applying]
  ELSE [term |-> leaderLog[sync.log][sync.at], index |-> sync.at,
        cmd |-> <<leaderLog[sync.log][sync.at], sync.at>>]

GoTo(a, pc) == step' = [step EXCEPT ![a] = pc]

(* On to the next entry: the loop notes in lastApplied that this one is    *)
(* done.                                                                   *)
NextEntry(a) ==
  IF a = "loop"
  THEN /\ applying' = applying + 1 /\ lastApplied' = EntryOf(a).index
       /\ UNCHANGED sync
  ELSE sync' = [sync EXCEPT !.at = @ + 1] /\ UNCHANGED <<applying, lastApplied>>

(* The loop passes over an entry at or below lastApplied. *)
PassEntry ==
  /\ step["loop"] = "check" /\ Applies("loop")
  /\ EntryOf("loop").index <= lastApplied
  /\ applying' = applying + 1
  /\ UNCHANGED <<currentTerm, logs, commitIndex, lastApplied, lastAppliedIndex, appliers,
                 leaderLog, applyVars>>

Checks(a) ==
  /\ step[a] = "check" /\ Applies(a)
  /\ a = "loop" => EntryOf(a).index > lastApplied

(* An entry the StateMachine already executed: both go on with the next.   *)
SkipEntry(a) ==
  /\ Checks(a) /\ EntryOf(a).index <= lastAppliedIndex
  /\ NextEntry(a)
  /\ UNCHANGED <<currentTerm, logs, commitIndex, lastAppliedIndex, appliers, leaderLog,
                 synced, step, applied, overlapped>>

(* A command that cannot be parsed ends the loop; the sync goes on.        *)
BadEntry(a) ==
  /\ Checks(a) /\ EntryOf(a).index > lastAppliedIndex /\ EntryOf(a).cmd \in BadCommand
  /\ IF a = "loop" THEN applying' = 0 /\ UNCHANGED <<sync, lastApplied>> ELSE NextEntry(a)
  /\ UNCHANGED <<currentTerm, logs, commitIndex, lastAppliedIndex, appliers, leaderLog,
                 synced, step, applied, overlapped>>

(* Faulty variant: the caller does not compare with lastApplied, nor       *)
(* ApplyLogToStateMachine with lastAppliedIndex.                           *)
CheckNothing(a) ==
  /\ step[a] = "check" /\ Applies(a) /\ EntryOf(a).cmd \notin BadCommand
  /\ GoTo(a, "execute")
  /\ overlapped' = (overlapped \/ \E b \in Applier \ {a} : step[b] # "check")
  /\ UNCHANGED <<currentTerm, logs, commitIndex, lastApplied, lastAppliedIndex, appliers,
                 applying, leaderLog, sync, synced, applied>>

(* The check of ApplyLogToStateMachine, with the parsing behind it. *)
CheckEntry(a) ==
  /\ Checks(a) /\ EntryOf(a).index > lastAppliedIndex /\ EntryOf(a).cmd \notin BadCommand
  /\ GoTo(a, "execute")
  /\ overlapped' = (overlapped \/ \E b \in Applier \ {a} : step[b] # "check")
  /\ UNCHANGED <<currentTerm, logs, commitIndex, lastApplied, lastAppliedIndex, appliers,
                 applying, leaderLog, sync, synced, applied>>

(* StateMachine.Set or Delete. *)
ExecuteEntry(a) ==
  /\ step[a] = "execute"
  /\ GoTo(a, "record")
  /\ applied' = Append(applied, [by |-> a, index |-> EntryOf(a).index])
  /\ UNCHANGED <<currentTerm, logs, commitIndex, lastApplied, lastAppliedIndex, appliers,
                 applying, leaderLog, sync, synced, overlapped>>

(* Faulty variant: the index is not recorded. *)
RecordNothing(a) ==
  /\ step[a] = "record"
  /\ GoTo(a, "check")
  /\ NextEntry(a)
  /\ UNCHANGED <<currentTerm, logs, commitIndex, lastAppliedIndex, appliers, leaderLog,
                 synced, applied, overlapped>>

(* SetLastAppliedIndex, to whatever index was executed, and on.            *)
RecordEntry(a) ==
  /\ step[a] = "record"
  /\ GoTo(a, "check")
  /\ lastAppliedIndex' = EntryOf(a).index
  /\ NextEntry(a)
  /\ UNCHANGED <<currentTerm, logs, commitIndex, appliers, leaderLog, synced, applied,
                 overlapped>>

ApplyLogToStateMachine(a) ==
  SkipEntry(a) \/ BadEntry(a) \/ CheckEntry(a) \/ ExecuteEntry(a) \/ RecordEntry(a)

LogNext ==
  \/ \E r \in Requests : AppendEntries(r)
  \/ BeginApply
  \/ PassEntry
  \/ EndApply
  \/ \E t \in 1 .. MaxTerm, s \in Slices : s[2] \in 1 .. MaxSync /\ StartSync(t, s[1], s[2])
  \/ \E a \in Applier : ApplyLogToStateMachine(a)

LogSpec == LogInit /\ [][LogNext]_logVars

----------------------------------------------------------------------------
(* Every variable of the follower has its declared range.                  *)
LogTypeOK ==
  /\ currentTerm \in Terms
  /\ logs \in Seq([term : 1 .. MaxTerm, index : 1 .. MaxLen, cmd : Command])
  /\ Len(logs) <= MaxLen
  /\ commitIndex \in 0 .. MaxLen
  /\ lastApplied \in 0 .. MaxLen
  /\ lastAppliedIndex \in 0 .. MaxLen
  /\ appliers \in 0 .. MaxAppliers
  /\ applying \in 0 .. MaxLen + 1
  /\ sync \in [log : 1 .. MaxTerm, at : 1 .. MaxLen + 1, end : 0 .. MaxLen]
  /\ synced \in BOOLEAN /\ overlapped \in BOOLEAN
  /\ step \in [Applier -> {"check", "execute", "record"}]
  /\ applied \in Seq([by : Applier \cup {"start"}, index : 1 .. MaxLen])

(* Whatever slice comes next, an accepted request does not touch the log   *)
(* up to PrevLogIndex: truncation and append only happen behind the entry  *)
(* that was checked.                                                       *)
CheckedPrefixKept ==
  applying = 0 =>
    \A r \in Requests : Accepts(r) /\ r.entries # <<>> =>
      SubSeq(LogsAfter(r), 1, r.prev) = SubSeq(logs, 1, r.prev)

Aligned == \A i \in DOMAIN logs : logs[i].index = i

(* On a log without gaps, a request that starts at the first entry         *)
(* (PrevLogIndex 0) would leave the log Raft's rule asks for.              *)
FullRequestMatchesRaft ==
  applying = 0 /\ Aligned =>
    \A r \in Requests : Accepts(r) /\ r.prev = 0 /\ r.entries # <<>> =>
      LogsAfter(r) = RaftAppend(logs, r)

(* However often the log is cut and rewritten, and whatever was executed   *)
(* before the start, neither applier executes an index twice, or one after *)
(* a higher one, although the other may set lastAppliedIndex back under    *)
(* it: an entry is executed twice at most.                                 *)
OrderPerApplier ==
  \A i, j \in DOMAIN applied :
    i < j /\ applied[i].by = applied[j].by => applied[i].index < applied[j].index

(* As long as no applier passes the check of ApplyLogToStateMachine while  *)
(* the other is between the check and the record of an entry, the two      *)
(* together, and the replay at the start, execute no index twice and none  *)
(* out of order.                                                           *)
AppliedOnceInOrder ==
  ~overlapped =>
    \A i, j \in DOMAIN applied : i < j => applied[i].index < applied[j].index

(* What the comment at the check promises, "to prevent repeated            *)
(* application": no entry is executed twice.  The code does not keep it    *)
(* when a sync and applyCommittedLogs overlap.                             *)
NeverRepeated ==
  \A i, j \in DOMAIN applied : applied[i].index = applied[j].index => i = j

=============================================================================
