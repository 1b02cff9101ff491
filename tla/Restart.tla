------------------------------- MODULE Restart -------------------------------
(***************************************************************************)
(* The leader's store through stops, crashes and starts: the write path of *)
(* LogReplication, step by step and with its concurrent calls, together    *)
(* with recoverFromStorage and PersistRaftState (init_manager.go) and the  *)
(* clean-up on SIGTERM (main.go).                                          *)
(*                                                                         *)
(* The end of a process and the start of the next are one step, since      *)
(* nothing happens between them.  The rewriting of the file is one step    *)
(* too; Recovery takes it apart.  The leader stands alone: no follower has *)
(* joined, so no request outlives the process that sent it.                *)
(***************************************************************************)
EXTENDS LogReplication

CONSTANT MaxRestarts   \* bound

ASSUME RestartConstants == Follower = {} /\ MaxRestarts \in Nat

VARIABLES
  restarts,   \* how many there were
  file,       \* the log that raft_state.json gives: empty if it is missing or no JSON
  cleanup,    \* the goroutine of the signal: no signal yet, save, saved, failed
  found,      \* the log that the running process found
  earlier,    \* the calls made before it was started
  owed        \* the writes acknowledged when SIGTERM came to a process that then
              \* saved its state and ended

processVars == <<restarts, file, cleanup, found, earlier, owed>>
restartVars == <<processVars, vars>>

RestartInit ==
  /\ Init
  /\ restarts = 0
  /\ file = <<>> /\ cleanup = "none"
  /\ found = <<>> /\ earlier = {} /\ owed = {}

----------------------------------------------------------------------------
(* The end of a process.                                                   *)

(* SIGTERM; the server goes on. *)
Signal ==
  /\ cleanup = "none"
  /\ cleanup' = "save"
  /\ owed' = {o \in Op : pc[o] = "acked"}
  /\ UNCHANGED <<restarts, file, found, earlier, vars>>

(* PersistRaftState *)
Save ==
  /\ cleanup = "save"
  /\ cleanup' = "saved"
  /\ file' = Logs
  /\ UNCHANGED <<restarts, found, earlier, owed, vars>>

(* ... with an error of WriteFile, which is only logged.  The file is left *)
(* as it was, or cannot be read any more.                                  *)
SaveFails ==
  /\ cleanup = "save"
  /\ cleanup' = "failed"
  /\ file' \in {file, <<>>}
  /\ UNCHANGED <<restarts, found, earlier, owed, vars>>

----------------------------------------------------------------------------
(* recoverFromStorage                                                      *)

(* The entries that ApplyLogToStateMachine takes, and those for a key. *)
Parsed(log) == {i \in DOMAIN log : Parses(Cmd(log[i].cmd))}
Hits(log, k) == {i \in Parsed(log) : KeyIn(Cmd(log[i].cmd)) = k}

EffectAt(log, i) == ValueIn(Cmd(log[i].cmd))

(* Faulty variant: a later entry for a key is not applied. *)
ReplayFirst(log) ==
  [k \in Key |-> IF Hits(log, k) = {} THEN None ELSE EffectAt(log, Min(Hits(log, k)))]

(* The store after all entries of a log, in order, on an empty one; those  *)
(* that do not parse are passed over.                                      *)
Replay(log) ==
  [k \in Key |-> IF Hits(log, k) = {} THEN None ELSE EffectAt(log, Max(Hits(log, k)))]

(* LastApplied and lastAppliedIndex after that. *)
ReplayedUpTo(log) == IF Parsed(log) = {} THEN 0 ELSE Max(Parsed(log))

(* The process is gone, with the calls under way, and the next one starts  *)
(* as master from the file.                                                *)
NewProcess ==
  /\ restarts < MaxRestarts /\ restarts' = restarts + 1
  /\ IsMaster' = TRUE
  /\ Logs' = file
  /\ CommitIndex' = Len(file)
  /\ LastApplied' = ReplayedUpTo(file) /\ lastAppliedIndex' = ReplayedUpTo(file)
  /\ data' = Replay(file)
  /\ pc' = [o \in Op |-> IF pc[o] \in {"idle", "acked", "refused"} THEN pc[o] ELSE "failed"]
  /\ call' = [o \in Op |-> [index |-> 0, term |-> 0, count |-> 0, todo |-> <<>>]]
  /\ cleanup' = "none"
  /\ found' = file
  /\ earlier' = {o \in Op : pc[o] # "idle"}
  /\ UNCHANGED <<CurrentTerm, NextIndex, MatchIndex, rpc, followerVars, file>>

(* cleanup has returned: os.Exit. *)
Exit ==
  /\ cleanup \in {"saved", "failed"}
  /\ NewProcess
  /\ owed' = IF cleanup = "saved" THEN owed ELSE {}

(* The process is killed. *)
Crash == NewProcess /\ owed' = {}

RestartNext ==
  \/ Next /\ UNCHANGED processVars
  \/ Signal \/ Save \/ SaveFails \/ Exit \/ Crash

RestartSpec == RestartInit /\ [][RestartNext]_restartVars

----------------------------------------------------------------------------
(* What a process found in its file is undone by calls made since its      *)
(* start only: for the key of every entry that parses the store has what   *)
(* that entry or a later one of the file says, or what a new call writes.  *)
(* ApplyCommittedLogs, which begins behind LastApplied and takes the entry *)
(* one further than it means to, brings back nothing of an earlier life,   *)
(* however its calls overlap (init_manager.go 177-204, raft_state.go       *)
(* 741-788, state_machine.go 104-170).                                     *)
NothingOlder ==
  \A i \in Parsed(found) :
    LET k == KeyIn(Cmd(found[i].cmd)) IN
    \/ \E j \in Hits(found, k) : j >= i /\ data[k] = EffectAt(found, j)
    \/ \E p \in Op \ earlier : pc[p] \notin {"idle", "refused"} /\ <<k, data[k]>> \in Writes(p)

(* A write acknowledged before SIGTERM is not lost when the process saves  *)
(* its state and ends: for the next process too the key has what some call *)
(* writes to it.  It does not hold: of two calls that draw one index the   *)
(* log keeps one entry, and both are acknowledged.                         *)
AckedSurvives ==
  cleanup = "none" =>
    \A o \in owed : \E p \in Op :
      pc[p] \notin {"idle", "refused"} /\ <<KeyOf[o], data[KeyOf[o]]>> \in Writes(p)

==============================================================================
