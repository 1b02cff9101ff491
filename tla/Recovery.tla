------------------------------- MODULE Recovery -------------------------------
(***************************************************************************)
(* Start, save and log sync of the servers: InitializeResources,           *)
(* recoverFromStorage, PersistRaftState and JoinCluster (init_manager.go), *)
(* SyncLogsWithLeader (log_service.go), SyncLogs (vote_service.go) and the *)
(* clean-up on SIGTERM (main.go), together with the part of Set that ends  *)
(* in the log.  What the store makes of a log is in Restart and            *)
(* FollowerLog.                                                            *)
(*                                                                         *)
(* Master is the process started with -master, the others are followers.   *)
(* Writes are named, and any number of them are under way at a time.  An   *)
(* entry's index is its place in RaftState.Logs.  Terms are left out: all  *)
(* entries are of one term, since no follower here reports a newer one     *)
(* (LogReplication has the leader whose term is raised).  A process may be *)
(* killed between any two steps.  What a gateway answers to a registration *)
(* is in GatewayRegistry; here any answer may come.                        *)
(***************************************************************************)
EXTENDS Naturals, FiniteSets, SequencesExt

CONSTANTS Node, Master,
          Write,      \* client calls
          MaxStarts   \* bound: starts of all nodes together

ASSUME RecoveryConstants ==
  /\ Master \in Node
  /\ MaxStarts \in Nat

(* The goroutines that save the state: SyncLogsWithLeader and cleanup. *)
Saver == {"sync", "cleanup"}

VARIABLES
  up,          \* where each process is: off, starting, serving, stopping
  starts,      \* how many starts there were
  isMaster,    \* configs.IsMaster
  Logs,        \* RaftState.Logs
  index,       \* the index each write under way on the master has drawn; 0 = none
  sync,        \* SyncLogsWithLeader
  saver,       \* PersistRaftState in each goroutine, with the copy it writes
  file,        \* raft_state.json: missing, empty, mixed, or good with a log
  promised,    \* the entries the master had when SIGTERM came
  kept,        \* ... when the process had saved them and ended
  lost         \* the master came back, or will, with less than it had

memory == <<isMaster, Logs>>
ghosts == <<promised, kept, lost>>
vars == <<up, starts, memory, index, sync, saver, file, ghosts>>

NoSync == [step |-> "none"]
NoSave == [step |-> "none"]

Init ==
  /\ up = [n \in Node |-> "off"]
  /\ starts = 0
  /\ isMaster = [n \in Node |-> FALSE]
  /\ Logs = [n \in Node |-> <<>>]
  /\ index = [w \in Write |-> 0]
  /\ sync = [n \in Node |-> NoSync]
  /\ saver = [n \in Node |-> [p \in Saver |-> NoSave]]
  /\ file = [n \in Node |-> [state |-> "missing", log |-> <<>>]]
  /\ promised = {} /\ kept = {} /\ lost = FALSE

Serving(n) == up[n] \in {"serving", "stopping"}

----------------------------------------------------------------------------
(* InitializeResources                                                     *)

(* The log that recoverFromStorage finds; without a file, or with one that *)
(* does not parse, the node starts fresh: log is empty unless the file is  *)
(* good.                                                                   *)
Recovered(n) == file[n].log

(* LoadConfig and InitializeRaftState: the memory of a new process. *)
Start(n) ==
  /\ up[n] = "off" /\ starts < MaxStarts
  /\ up' = [up EXCEPT ![n] = "starting"]
  /\ starts' = starts + 1
  /\ isMaster' = [isMaster EXCEPT ![n] = n = Master]
  /\ Logs' = [Logs EXCEPT ![n] = Recovered(n)]
  /\ UNCHANGED <<index, sync, saver, file, ghosts>>

(* What dies with a process. *)
Dies(n) ==
  /\ up' = [up EXCEPT ![n] = "off"]
  /\ sync' = [sync EXCEPT ![n] = NoSync]
  /\ saver' = [saver EXCEPT ![n] = [p \in Saver |-> NoSave]]
  /\ index' = IF n = Master THEN [w \in Write |-> 0] ELSE index
  /\ isMaster' = [isMaster EXCEPT ![n] = FALSE]
  /\ Logs' = [Logs EXCEPT ![n] = <<>>]
  /\ UNCHANGED starts

(* RegisterNodeAndGetInfo reads the answer before the error: a failed call *)
(* ends the process.                                                       *)
RegisterPanics(n) ==
  /\ up[n] = "starting"
  /\ Dies(n)
  /\ UNCHANGED <<file, ghosts>>

(* Registration and JoinCluster.  A master stays one if the answer names   *)
(* no leader, else it gives way.  Whoever did not stay master starts the   *)
(* log sync, unless there is no leader or the call to it fails; the server *)
(* starts in any case.                                                     *)
Join(n, stays, joined) ==
  /\ up[n] = "starting"
  /\ stays => n = Master /\ ~joined
  /\ up' = [up EXCEPT ![n] = "serving"]
  /\ isMaster' = [isMaster EXCEPT ![n] = stays]
  /\ sync' = [sync EXCEPT ![n] = IF joined THEN [step |-> "start"] ELSE NoSync]
  /\ UNCHANGED <<starts, Logs, index, saver, file, ghosts>>

----------------------------------------------------------------------------
(* Set on the master.                                                      *)

(* GetLastLogIndex.  A write that was lost may be called again. *)
TakeIndex(w) ==
  /\ Serving(Master) /\ isMaster[Master]
  /\ index[w] = 0 /\ w \notin ToSet(Logs[Master])
  /\ index' = [index EXCEPT ![w] = Len(Logs[Master]) + 1]
  /\ UNCHANGED <<up, starts, memory, sync, saver, file, ghosts>>

(* AppendLog: an entry whose index is taken counts as a repetition and is  *)
(* dropped.  Nothing in the rest of Set touches the log, whether the call  *)
(* succeeds or not.                                                        *)
AppendLog(w) ==
  /\ index[w] # 0
  /\ Logs' = [Logs EXCEPT ![Master] = IF index[w] <= Len(@) THEN @ ELSE Append(@, w)]
  /\ index' = [index EXCEPT ![w] = 0]
  /\ UNCHANGED <<up, starts, isMaster, sync, saver, file, ghosts>>

----------------------------------------------------------------------------
(* SyncLogsWithLeader                                                      *)

SetSync(n, s) == sync' = [sync EXCEPT ![n] = s]

(* A process started as master has RaftState.IsMaster, and ends here even  *)
(* if it gave way.  The others ask the first server of the list they were  *)
(* given, whichever that is.                                               *)
SyncAsk(n, m) ==
  /\ sync[n].step = "start"
  /\ SetSync(n, IF n = Master THEN NoSync
                ELSE [step |-> "request", to |-> m, last |-> Len(Logs[n])])
  /\ UNCHANGED <<up, starts, memory, index, saver, file, ghosts>>

(* Faulty variant: the last entry the follower has is sent again. *)
EntriesFromLast(log, last) == SubSeq(log, IF last = 0 THEN 1 ELSE last, Len(log))

(* The entries SyncLogs answers with: those with a greater index. *)
EntriesToSync(log, last) == SubSeq(log, last + 1, Len(log))

(* SyncLogs on the server asked; only a leader gives entries. *)
SyncLogs(n) ==
  /\ sync[n].step = "request"
  /\ LET m == sync[n].to
         found == EntriesToSync(Logs[m], sync[n].last)
     IN /\ Serving(m)
        /\ SetSync(n, IF isMaster[m] /\ found # <<>>
                      THEN [step |-> "reply", entries |-> found] ELSE NoSync)
  /\ UNCHANGED <<up, starts, memory, index, saver, file, ghosts>>

(* No answer within 5 s, or an error. *)
SyncFails(n) ==
  /\ sync[n].step \in {"request", "reply"}
  /\ SetSync(n, NoSync)
  /\ UNCHANGED <<up, starts, memory, index, saver, file, ghosts>>

(* The entries, once applied, are added to the log, and the state is       *)
(* saved.                                                                  *)
SyncMerge(n) ==
  /\ sync[n].step = "reply"
  /\ Logs' = [Logs EXCEPT ![n] = @ \o sync[n].entries]
  /\ SetSync(n, NoSync)
  /\ saver' = [saver EXCEPT ![n]["sync"] = [step |-> "read"]]
  /\ UNCHANGED <<up, starts, isMaster, index, file, ghosts>>

----------------------------------------------------------------------------
(* PersistRaftState                                                        *)

SetSaver(n, p, s) == saver' = [saver EXCEPT ![n][p] = s]

(* GetLogs *)
SaveRead(n, p) ==
  /\ saver[n][p].step = "read"
  /\ SetSaver(n, p, [step |-> "open", log |-> Logs[n]])
  /\ UNCHANGED <<up, starts, memory, index, sync, file, ghosts>>

(* WriteFile empties the file ... *)
SaveOpen(n, p) ==
  /\ saver[n][p].step = "open"
  /\ file' = [file EXCEPT ![n] = [state |-> "empty", log |-> <<>>]]
  /\ SetSaver(n, p, [step |-> "write", log |-> saver[n][p].log])
  /\ UNCHANGED <<up, starts, memory, index, sync, ghosts>>

(* ... and writes from its beginning: what a longer log of the other saver *)
(* left behind stays at the end, and the file is no JSON.                  *)
Written(old, log) ==
  IF old.state # "mixed" /\ Len(old.log) <= Len(log)
  THEN [state |-> "good", log |-> log] ELSE [state |-> "mixed", log |-> <<>>]

SaveWrite(n, p) ==
  /\ saver[n][p].step = "write"
  /\ file' = [file EXCEPT ![n] = Written(@, saver[n][p].log)]
  /\ SetSaver(n, p, IF p = "cleanup" THEN [step |-> "done"] ELSE NoSave)
  /\ UNCHANGED <<up, starts, memory, index, sync, ghosts>>

(* WriteFile returns an error, which is only logged: it could not open the *)
(* file, or not write all of it, which leaves nothing that can be read.    *)
SaveFails(n, p) ==
  /\ \/ saver[n][p].step = "open" /\ UNCHANGED file
     \/ /\ saver[n][p].step = "write"
        /\ \E s \in {"empty", "mixed"} :
             file' = [file EXCEPT ![n] = [state |-> s, log |-> <<>>]]
  /\ SetSaver(n, p, IF p = "cleanup" THEN [step |-> "failed"] ELSE NoSave)
  /\ UNCHANGED <<up, starts, memory, index, sync, ghosts>>

----------------------------------------------------------------------------
(* The end of a process.                                                   *)

(* SIGTERM: cleanup runs beside the server, which goes on serving. *)
Signal(n) ==
  /\ up[n] = "serving"
  /\ up' = [up EXCEPT ![n] = "stopping"]
  /\ SetSaver(n, "cleanup", [step |-> "read"])
  /\ promised' = IF n = Master THEN ToSet(Logs[n]) ELSE promised
  /\ UNCHANGED <<starts, memory, index, sync, file, kept, lost>>

(* What of a log is gone once the process is. *)
Forgets(n) == n = Master /\ Recovered(n) # Logs[n]

(* The process ends, and what it kept is s. *)
Ends(n, s) ==
  /\ Dies(n)
  /\ kept' = IF n = Master THEN s ELSE kept
  /\ lost' = (lost \/ Forgets(n))
  /\ promised' = IF n = Master THEN {} ELSE promised
  /\ UNCHANGED file

(* What was kept before and still is, unless the file is no longer good. *)
StillKept(n) == IF file[n].state = "good" THEN kept ELSE {}

(* Faulty variant: the process ends without waiting for the file. *)
ExitEarly(n) ==
  /\ up[n] = "stopping" /\ saver[n]["cleanup"].step = "open"
  /\ Ends(n, promised)

(* cleanup has returned, with or without an error: os.Exit. *)
Exit(n) ==
  /\ up[n] = "stopping" /\ saver[n]["cleanup"].step \in {"done", "failed"}
  /\ Ends(n, IF saver[n]["cleanup"].step = "done" THEN promised ELSE StillKept(n))

(* The process is killed: what was not saved before is gone, and all of it *)
(* if the file is just being written.                                      *)
Crash(n) ==
  /\ up[n] # "off"
  /\ Ends(n, StillKept(n))

Next ==
  \/ \E n \in Node :
       \/ Start(n) \/ RegisterPanics(n)
       \/ \E stays, joined \in BOOLEAN : Join(n, stays, joined)
       \/ \E m \in Node : SyncAsk(n, m)
       \/ SyncLogs(n) \/ SyncFails(n) \/ SyncMerge(n)
       \/ \E p \in Saver : SaveRead(n, p) \/ SaveOpen(n, p) \/ SaveWrite(n, p) \/ SaveFails(n, p)
       \/ Signal(n) \/ Exit(n) \/ Crash(n)
  \/ \E w \in Write : TakeIndex(w) \/ AppendLog(w)

Spec == Init /\ [][Next]_vars

----------------------------------------------------------------------------
SaveOf(log) == {NoSave, [step |-> "read"], [step |-> "done"], [step |-> "failed"]}
                 \cup [step : {"open", "write"}, log : log]

(* Every variable has the shape the code gives it: no log outgrows the     *)
(* writes there are, and no index drawn lies more than one beyond it.      *)
TypeOK ==
  LET L == SeqOf(Write, Cardinality(Write)) IN
  /\ up \in [Node -> {"off", "starting", "serving", "stopping"}]
  /\ starts \in 0 .. MaxStarts
  /\ isMaster \in [Node -> BOOLEAN]
  /\ Logs \in [Node -> L]
  /\ index \in [Write -> 0 .. Len(Logs[Master]) + 1]
  /\ saver \in [Node -> [Saver -> SaveOf(L)]]
  /\ file \in [Node -> [state : {"missing", "empty", "mixed", "good"}, log : L]]
  /\ kept \subseteq Write /\ promised \subseteq Write

(* Every entry in the log when SIGTERM comes is in the file once the       *)
(* process has ended by itself with the save done, and stays there through *)
(* later starts, crashes and failed saves until one of them hits the very  *)
(* rewriting of the file (main.go 97-124, init_manager.go 211-239).        *)
KeptOnDisk == up[Master] = "off" => kept \subseteq ToSet(Recovered(Master))

MasterLog == IF up[Master] = "off" THEN Recovered(Master) ELSE Logs[Master]

(* What a follower has, in memory or on disk, is the beginning of the      *)
(* master's log, through any starts, crashes and late answers, as long as  *)
(* the master itself has lost nothing (log_service.go 126-146: the merge   *)
(* relies on it).                                                          *)
SyncedPrefix ==
  ~lost => \A n \in Node : /\ IsPrefix(Logs[n], MasterLog)
                           /\ IsPrefix(Recovered(n), MasterLog)

============================================================================
