---------------------------- MODULE RecoveryProofs ----------------------------
(***************************************************************************)
(* Proofs about Recovery, for any set of nodes and writes and any number   *)
(* of starts: what a clean stop saved stays on disk, and what a follower   *)
(* has is the beginning of the master's log.                               *)
(***************************************************************************)
EXTENDS Recovery, SequenceTheorems, WellFoundedInduction, TLAPS

----------------------------------------------------------------------------
(* Sequences.                                                              *)

(* What it means to be a prefix, item by item. *)
LEMMA PrefixIff ==
  ASSUME NEW s \in Seq(Write), NEW t \in Seq(Write)
  PROVE  IsPrefix(s, t) <=> Len(s) <= Len(t) /\ \A i \in 1 .. Len(s) : s[i] = t[i]
<1>1. Len(s) \in Nat /\ Len(t) \in Nat
  OBVIOUS
<1>2. CASE Len(s) <= Len(t)
  <2>1. /\ SubSeq(s, 1, Len(s)) \in Seq(Write) /\ Len(SubSeq(s, 1, Len(s))) = Len(s)
        /\ \A i \in 1 .. Len(s) : SubSeq(s, 1, Len(s))[i] = s[i]
    OBVIOUS
  <2>2. /\ SubSeq(t, 1, Len(s)) \in Seq(Write) /\ Len(SubSeq(t, 1, Len(s))) = Len(s)
        /\ \A i \in 1 .. Len(s) : SubSeq(t, 1, Len(s))[i] = t[i]
    BY <1>1, <1>2
  <2>3. SubSeq(s, 1, Len(s)) = SubSeq(t, 1, Len(s)) <=> \A i \in 1 .. Len(s) : s[i] = t[i]
    BY <2>1, <2>2
  <2>4. QED
    BY <1>2, <2>3 DEF IsPrefix
<1>3. CASE ~(Len(s) <= Len(t))
  BY <1>3 DEF IsPrefix
<1>4. QED
  BY <1>2, <1>3

(* The empty log, the log itself, longer logs. *)
LEMMA PrefixFacts ==
  /\ \A s \in Seq(Write) : IsPrefix(s, s) /\ IsPrefix(<<>>, s)
  /\ \A s, t, u \in Seq(Write) : IsPrefix(s, t) /\ IsPrefix(t, u) => IsPrefix(s, u)
  /\ \A t \in Seq(Write), w \in Write : IsPrefix(t, Append(t, w))
<1>1. ASSUME NEW s \in Seq(Write) PROVE IsPrefix(s, s) /\ IsPrefix(<<>>, s)
  <2> DEFINE empty == <<>>
  <2>1. empty \in Seq(Write) /\ Len(empty) = 0
    OBVIOUS
  <2> HIDE DEF empty
  <2>2. Len(empty) <= Len(s) /\ \A i \in 1 .. Len(empty) : empty[i] = s[i]
    BY <2>1
  <2>3. IsPrefix(empty, s)
    BY <2>1, <2>2, PrefixIff
  <2>4. IsPrefix(s, s)
    BY PrefixIff
  <2>5. QED
    BY <2>3, <2>4 DEF empty
<1>2. ASSUME NEW s \in Seq(Write), NEW t \in Seq(Write), NEW u \in Seq(Write),
             IsPrefix(s, t), IsPrefix(t, u)
      PROVE  IsPrefix(s, u)
  <2>1. Len(s) <= Len(t) /\ \A i \in 1 .. Len(s) : s[i] = t[i]
    BY <1>2, PrefixIff
  <2>2. Len(t) <= Len(u) /\ \A i \in 1 .. Len(t) : t[i] = u[i]
    BY <1>2, PrefixIff
  <2>3. Len(s) <= Len(u) /\ \A i \in 1 .. Len(s) : s[i] = u[i]
    BY <2>1, <2>2
  <2>4. QED
    BY <2>3, PrefixIff
<1>3. ASSUME NEW t \in Seq(Write), NEW w \in Write PROVE IsPrefix(t, Append(t, w))
  <2>1. /\ Append(t, w) \in Seq(Write) /\ Len(t) <= Len(Append(t, w))
        /\ \A i \in 1 .. Len(t) : t[i] = Append(t, w)[i]
    OBVIOUS
  <2>2. QED
    BY <2>1, PrefixIff
<1>4. QED
  BY <1>1, <1>2, <1>3

(* A prefix and the rest make the whole: what SyncLogs answers fits the    *)
(* end of the follower's log.                                              *)
LEMMA RestFits ==
  ASSUME NEW s \in Seq(Write), NEW t \in Seq(Write), IsPrefix(s, t)
  PROVE  /\ EntriesToSync(t, Len(s)) \in Seq(Write)
         /\ s \o EntriesToSync(t, Len(s)) = t
<1> DEFINE rest == SubSeq(t, Len(s) + 1, Len(t))
<1>1. /\ Len(s) \in Nat /\ Len(t) \in Nat /\ Len(s) <= Len(t)
      /\ \A i \in 1 .. Len(s) : s[i] = t[i]
  BY PrefixIff
<1>2. /\ rest \in Seq(Write) /\ Len(rest) = Len(t) - Len(s)
      /\ \A i \in 1 .. Len(rest) : rest[i] = t[Len(s) + i]
  BY <1>1
<1> HIDE DEF rest
<1>3. /\ s \o rest \in Seq(Write) /\ Len(s \o rest) = Len(t)
      /\ \A i \in 1 .. Len(t) : (s \o rest)[i] = t[i]
  BY <1>1, <1>2
<1>4. s \o rest = t
  BY <1>3, SeqEqual
<1>5. QED
  BY <1>2, <1>4 DEF EntriesToSync, rest

----------------------------------------------------------------------------
(* Types, as far as logs and files are concerned.                          *)

SyncOf == {NoSync, [step |-> "start"]}
            \cup [step : {"request"}, to : Node, last : Nat]
            \cup [step : {"reply"}, entries : Seq(Write)]

FileOf == [state : {"missing", "empty", "mixed", "good"}, log : Seq(Write)]

LogTypes ==
  /\ up \in [Node -> {"off", "starting", "serving", "stopping"}]
  /\ isMaster \in [Node -> BOOLEAN]
  /\ Logs \in [Node -> Seq(Write)]
  /\ index \in [Write -> Nat]
  /\ sync \in [Node -> SyncOf]
  /\ saver \in [Node -> [Saver -> SaveOf(Seq(Write))]]
  /\ file \in [Node -> FileOf]

(* What each step of a sync carries. *)
LEMMA SyncFacts ==
  /\ NoSync \in SyncOf /\ [step |-> "start"] \in SyncOf /\ NoSync.step = "none"
  /\ \A m \in Node, l \in Nat : [step |-> "request", to |-> m, last |-> l] \in SyncOf
  /\ \A e \in Seq(Write) : [step |-> "reply", entries |-> e] \in SyncOf
  /\ \A r \in SyncOf :
       /\ r.step \in {"none", "start", "request", "reply"}
       /\ r.step = "none" => r = NoSync
       /\ r.step = "request" => r.to \in Node /\ r.last \in Nat
       /\ r.step = "reply" => r.entries \in Seq(Write)
  BY DEF SyncOf, NoSync

(* What each step of a save carries. *)
LEMMA SaveFacts ==
  LET S == SaveOf(Seq(Write)) IN
  /\ NoSave \in S /\ NoSave.step = "none"
  /\ [step |-> "read"] \in S /\ [step |-> "done"] \in S /\ [step |-> "failed"] \in S
  /\ \A l \in Seq(Write) : [step |-> "open", log |-> l] \in S /\ [step |-> "write", log |-> l] \in S
  /\ \A r \in S :
       /\ r.step \in {"none", "read", "open", "write", "done", "failed"}
       /\ r.step = "none" => r = NoSave
       /\ r.step \in {"open", "write"} => r.log \in Seq(Write)
  BY DEF SaveOf, NoSave

(* What a file may hold. *)
LEMMA FileFacts ==
  /\ \A l \in Seq(Write), st \in {"missing", "empty", "mixed", "good"} :
       [state |-> st, log |-> l] \in FileOf
  /\ \A f \in FileOf : f.log \in Seq(Write) /\ f.state \in {"missing", "empty", "mixed", "good"}
  /\ <<>> \in Seq(Write)
  /\ \A f \in FileOf, l \in Seq(Write) : Written(f, l) \in FileOf
  BY DEF FileOf, Written

(* The memory of a process that has ended. *)
LEMMA DeadTypes ==
  ASSUME LogTypes, NEW n \in Node, Dies(n), file' = file
  PROVE  LogTypes'
  BY SyncFacts, SaveFacts, FileFacts DEF Dies, LogTypes

(* At the start there is nothing, in memory or on disk. *)
LEMMA LogTypesInit == Init => LogTypes
<1> SUFFICES ASSUME Init PROVE LogTypes
  OBVIOUS
<1> DEFINE empty == <<>>
<1>1. empty \in Seq(Write) /\ [state |-> "missing", log |-> empty] \in FileOf
  BY FileFacts
<1> HIDE DEF empty
<1>2. Logs = [n \in Node |-> empty] /\ file = [n \in Node |-> [state |-> "missing", log |-> empty]]
  BY DEF Init, empty
<1>3. Logs \in [Node -> Seq(Write)] /\ file \in [Node -> FileOf]
  BY <1>1, <1>2
<1>4. /\ up \in [Node -> {"off", "starting", "serving", "stopping"}]
      /\ index \in [Write -> Nat]
      /\ sync \in [Node -> SyncOf]
      /\ saver \in [Node -> [Saver -> SaveOf(Seq(Write))]]
  BY SyncFacts, SaveFacts DEF Init
<1>5. isMaster \in [Node -> BOOLEAN]
  BY DEF Init
<1>6. QED
  BY <1>3, <1>4, <1>5 DEF LogTypes

(* Every step keeps logs and files what they are. *)
LEMMA LogTypesStep == LogTypes /\ [Next]_vars => LogTypes'
<1> SUFFICES ASSUME LogTypes, [Next]_vars PROVE LogTypes'
  OBVIOUS
<1> USE DEF LogTypes, memory, ghosts
<1>1. ASSUME NEW n \in Node, Start(n) PROVE LogTypes'
  BY <1>1, FileFacts DEF Start, Recovered
<1>2. ASSUME NEW n \in Node, RegisterPanics(n) PROVE LogTypes'
  BY <1>2, DeadTypes DEF RegisterPanics
<1>3. ASSUME NEW n \in Node, NEW stays \in BOOLEAN, NEW joined \in BOOLEAN,
                Join(n, stays, joined)
         PROVE  LogTypes'
  BY <1>3, SyncFacts DEF Join
<1>4. ASSUME NEW n \in Node, NEW m \in Node, SyncAsk(n, m) PROVE LogTypes'
  <2>1. Len(Logs[n]) \in Nat
    OBVIOUS
  <2>2. QED
    BY <1>4, <2>1, SyncFacts DEF SyncAsk, SetSync
<1>5. ASSUME NEW n \in Node, SyncLogs(n) PROVE LogTypes'
  <2>1. sync[n].to \in Node /\ sync[n].last \in Nat
    BY <1>5, SyncFacts DEF SyncLogs
  <2>2. EntriesToSync(Logs[sync[n].to], sync[n].last) \in Seq(Write)
    BY <2>1 DEF EntriesToSync
  <2>3. QED
    BY <1>5, <2>2, SyncFacts DEF SyncLogs, SetSync
<1>6. ASSUME NEW n \in Node, SyncFails(n) PROVE LogTypes'
  BY <1>6, SyncFacts DEF SyncFails, SetSync
<1>7. ASSUME NEW n \in Node, SyncMerge(n) PROVE LogTypes'
  <2>1. sync[n].entries \in Seq(Write)
    BY <1>7, SyncFacts DEF SyncMerge
  <2>2. Logs[n] \o sync[n].entries \in Seq(Write)
    BY <2>1
  <2>3. QED
    BY <1>7, <2>2, SyncFacts, SaveFacts DEF SyncMerge, SetSync
<1>8. ASSUME NEW n \in Node, NEW p \in Saver, SaveRead(n, p) PROVE LogTypes'
  BY <1>8, SaveFacts DEF SaveRead, SetSaver
<1>9. ASSUME NEW n \in Node, NEW p \in Saver, SaveOpen(n, p) PROVE LogTypes'
  BY <1>9, SaveFacts, FileFacts DEF SaveOpen, SetSaver
<1>10. ASSUME NEW n \in Node, NEW p \in Saver, SaveWrite(n, p) PROVE LogTypes'
  BY <1>10, SaveFacts, FileFacts DEF SaveWrite, SetSaver
<1>11. ASSUME NEW n \in Node, Signal(n) PROVE LogTypes'
  BY <1>11, SaveFacts DEF Signal, SetSaver
<1>12. ASSUME NEW n \in Node, Exit(n) PROVE LogTypes'
  BY <1>12, DeadTypes DEF Exit, Ends
<1>13. ASSUME NEW n \in Node, Crash(n) PROVE LogTypes'
  BY <1>13, DeadTypes DEF Crash, Ends
<1>14. ASSUME NEW w \in Write, TakeIndex(w) PROVE LogTypes'
  <2>1. Len(Logs[Master]) + 1 \in Nat
    BY RecoveryConstants
  <2>2. QED
    BY <1>14, <2>1 DEF TakeIndex
<1>15. ASSUME NEW w \in Write, AppendLog(w) PROVE LogTypes'
  <2>1. Append(Logs[Master], w) \in Seq(Write)
    BY RecoveryConstants
  <2>2. QED
    BY <1>15, <2>1 DEF AppendLog
<1>16. ASSUME NEW n \in Node, NEW p \in Saver, SaveFails(n, p) PROVE LogTypes'
  <2>1. saver' \in [Node -> [Saver -> SaveOf(Seq(Write))]]
    BY <1>16, SaveFacts DEF SaveFails, SetSaver
  <2>2. file' \in [Node -> FileOf]
    <3>1. PICK f \in FileOf : file' = file \/ file' = [file EXCEPT ![n] = f]
      BY <1>16, FileFacts DEF SaveFails
    <3>2. QED
      BY <3>1
  <2>3. QED
    BY <1>16, <2>1, <2>2 DEF SaveFails
<1>17. CASE UNCHANGED vars
  BY <1>17 DEF vars
<1>18. QED
  BY <1>1, <1>2, <1>3, <1>4, <1>5, <1>6, <1>7, <1>8, <1>9, <1>10, <1>11, <1>12,
     <1>13, <1>14, <1>15, <1>16, <1>17 DEF Next

----------------------------------------------------------------------------
(* The places of a process.                                                *)

(* A process that does not serve yet neither syncs nor saves, and only one *)
(* that was told to stop cleans up.  The master never syncs, so that what  *)
(* it saves is saved by cleanup alone; only it may lead; until it serves   *)
(* its log is the one it found.  A request names the length of the log as  *)
(* it still is when the answer comes.                                      *)
PlaceInv ==
  /\ \A n \in Node :
       /\ up[n] \in {"off", "starting"} => sync[n] = NoSync /\ saver[n]["sync"] = NoSave
       /\ up[n] # "stopping" => saver[n]["cleanup"] = NoSave
       /\ isMaster[n] => n = Master
       /\ sync[n].step = "request" => sync[n].last = Len(Logs[n])
  /\ sync[Master].step \in {"none", "start"} /\ saver[Master]["sync"] = NoSave
  /\ up[Master] = "starting" => Logs[Master] = file[Master].log
  /\ up[Master] \in {"off", "starting"} => \A w \in Write : index[w] = 0

(* What an append adds to a log. *)
LEMMA AppendSet ==
  ASSUME NEW log \in Seq(Write), NEW w \in Write
  PROVE  ToSet(Append(log, w)) = ToSet(log) \cup {w}
<1>1. /\ DOMAIN Append(log, w) = 1 .. Len(log) + 1 /\ DOMAIN log = 1 .. Len(log)
      /\ Len(log) \in Nat /\ Append(log, w)[Len(log) + 1] = w
      /\ \A i \in 1 .. Len(log) : Append(log, w)[i] = log[i]
  OBVIOUS
<1>2. QED
  BY <1>1 DEF ToSet

(* The end of a process leaves the others where they are. *)
LEMMA DeadPlaces ==
  ASSUME LogTypes, PlaceInv, NEW n \in Node, Dies(n), file' = file
  PROVE  PlaceInv'
<1>1. /\ up'[n] = "off" /\ sync'[n] = NoSync /\ ~isMaster'[n] /\ Logs'[n] = <<>>
      /\ saver'[n]["sync"] = NoSave /\ saver'[n]["cleanup"] = NoSave
  BY DEF Dies, LogTypes, Saver
<1>2. \A m \in Node : m # n =>
        /\ up'[m] = up[m] /\ sync'[m] = sync[m] /\ saver'[m] = saver[m]
        /\ isMaster'[m] = isMaster[m] /\ Logs'[m] = Logs[m]
  BY DEF Dies, LogTypes
<1>3. index' = IF n = Master THEN [w \in Write |-> 0] ELSE index
  BY DEF Dies
<1>4. NoSync.step = "none"
  BY SyncFacts
<1>5. QED
  BY <1>1, <1>2, <1>3, <1>4, RecoveryConstants DEF PlaceInv

(* Every step keeps each process in its place. *)
LEMMA PlaceStep == LogTypes /\ PlaceInv /\ [Next]_vars => PlaceInv'
<1> SUFFICES ASSUME LogTypes, PlaceInv, [Next]_vars PROVE PlaceInv'
  OBVIOUS
<1> Master \in Node
  BY RecoveryConstants
<1> USE DEF LogTypes, memory, ghosts, PlaceInv, Saver
<1>1. ASSUME NEW n \in Node, Start(n) PROVE PlaceInv'
  BY <1>1, SyncFacts DEF Start, Recovered
<1>2. ASSUME NEW n \in Node, RegisterPanics(n) PROVE PlaceInv'
  BY <1>2, DeadPlaces DEF RegisterPanics
<1>3. ASSUME NEW n \in Node, NEW stays \in BOOLEAN, NEW joined \in BOOLEAN,
                Join(n, stays, joined)
         PROVE  PlaceInv'
  BY <1>3, SyncFacts DEF Join
<1>4. ASSUME NEW n \in Node, NEW m \in Node, SyncAsk(n, m) PROVE PlaceInv'
  BY <1>4, SyncFacts DEF SyncAsk, SetSync
<1>5. ASSUME NEW n \in Node, SyncLogs(n) PROVE PlaceInv'
  BY <1>5, SyncFacts DEF SyncLogs, SetSync
<1>6. ASSUME NEW n \in Node, SyncFails(n) PROVE PlaceInv'
  BY <1>6, SyncFacts DEF SyncFails, SetSync
<1>7. ASSUME NEW n \in Node, SyncMerge(n) PROVE PlaceInv'
  BY <1>7, SyncFacts, SaveFacts DEF SyncMerge, SetSync
<1>8. ASSUME NEW n \in Node, NEW p \in Saver, SaveRead(n, p) PROVE PlaceInv'
  BY <1>8, SaveFacts DEF SaveRead, SetSaver
<1>9. ASSUME NEW n \in Node, NEW p \in Saver, SaveOpen(n, p) PROVE PlaceInv'
  BY <1>9, SaveFacts DEF SaveOpen, SetSaver
<1>10. ASSUME NEW n \in Node, NEW p \in Saver, SaveWrite(n, p) PROVE PlaceInv'
  BY <1>10, SaveFacts DEF SaveWrite, SetSaver
<1>11. ASSUME NEW n \in Node, Signal(n) PROVE PlaceInv'
  BY <1>11, SaveFacts DEF Signal, SetSaver
<1>12. ASSUME NEW n \in Node, Exit(n) PROVE PlaceInv'
  BY <1>12, DeadPlaces DEF Exit, Ends
<1>13. ASSUME NEW n \in Node, Crash(n) PROVE PlaceInv'
  BY <1>13, DeadPlaces DEF Crash, Ends
<1>14. ASSUME NEW w \in Write, TakeIndex(w) PROVE PlaceInv'
  BY <1>14 DEF TakeIndex, Serving
<1>15. ASSUME NEW w \in Write, AppendLog(w) PROVE PlaceInv'
  <2>1. \A n \in Node : n # Master => Logs'[n] = Logs[n]
    BY <1>15 DEF AppendLog
  <2>2. up[Master] \notin {"off", "starting"}
    BY <1>15 DEF AppendLog
  <2>3. QED
    BY <1>15, <2>1, <2>2 DEF AppendLog
<1>16. ASSUME NEW n \in Node, NEW p \in Saver, SaveFails(n, p) PROVE PlaceInv'
  BY <1>16, SaveFacts DEF SaveFails, SetSaver
<1>17. CASE UNCHANGED vars
  BY <1>17 DEF vars
<1>18. QED
  BY <1>1, <1>2, <1>3, <1>4, <1>5, <1>6, <1>7, <1>8, <1>9, <1>10, <1>11, <1>12,
     <1>13, <1>14, <1>15, <1>16, <1>17 DEF Next

----------------------------------------------------------------------------
(* What is kept.                                                           *)

(* What the master kept is in its file, and in its log while it runs; what *)
(* it promised when it was told to stop is followed through log, copy and  *)
(* file.                                                                   *)
KeptInv ==
  LET s == saver[Master]["cleanup"]
      disk == ToSet(file[Master].log)
  IN
  /\ up[Master] \in {"off", "starting"} => kept \subseteq disk
  /\ up[Master] # "off" => kept \subseteq ToSet(Logs[Master])
  /\ file[Master].state = "good" => kept \subseteq disk
  /\ s.step # "none" => kept \subseteq promised
  /\ s.step = "read" => promised \subseteq ToSet(Logs[Master])
  /\ s.step \in {"open", "write"} => promised \subseteq ToSet(s.log)
  /\ s.step = "write" => file[Master] = [state |-> "empty", log |-> <<>>]
  /\ s.step = "done" => promised \subseteq disk

(* Every step keeps what was promised and kept where it is. *)
LEMMA KeptStep == LogTypes /\ PlaceInv /\ KeptInv /\ [Next]_vars => KeptInv'
<1> SUFFICES ASSUME LogTypes, PlaceInv, KeptInv, [Next]_vars PROVE KeptInv'
  OBVIOUS
<1> Master \in Node
  BY RecoveryConstants
<1> USE DEF LogTypes, memory, ghosts, PlaceInv, KeptInv, Saver
<1>1. ASSUME NEW n \in Node, Start(n) PROVE KeptInv'
  <2>1. /\ \A m \in Node : up'[m] = IF m = n THEN "starting" ELSE up[m]
        /\ \A m \in Node : Logs'[m] = IF m = n THEN file[m].log ELSE Logs[m]
        /\ UNCHANGED <<saver, file, promised, kept>>
    BY <1>1 DEF Start, Recovered
  <2>2. up[n] = "off"
    BY <1>1 DEF Start
  <2>3. CASE n = Master
    <3>1. /\ kept \subseteq ToSet(file[Master].log)
          /\ saver[Master]["cleanup"].step = "none"
      BY <2>2, <2>3, SaveFacts
    <3>2. /\ up'[Master] = "starting" /\ Logs'[Master] = file[Master].log
          /\ saver' = saver /\ file' = file /\ kept' = kept
      BY <2>1, <2>3
    <3>3. QED
      BY <3>1, <3>2
  <2>4. CASE n # Master
    BY <2>1, <2>4
  <2>5. QED
    BY <2>3, <2>4
<1>2. ASSUME NEW n \in Node, RegisterPanics(n) PROVE KeptInv'
  BY <1>2, SaveFacts DEF RegisterPanics, Dies
<1>3. ASSUME NEW n \in Node, NEW stays \in BOOLEAN, NEW joined \in BOOLEAN,
                Join(n, stays, joined)
         PROVE  KeptInv'
  BY <1>3 DEF Join
<1>4. ASSUME NEW n \in Node, NEW m \in Node, SyncAsk(n, m) PROVE KeptInv'
  BY <1>4 DEF SyncAsk, SetSync
<1>5. ASSUME NEW n \in Node, SyncLogs(n) PROVE KeptInv'
  BY <1>5 DEF SyncLogs, SetSync
<1>6. ASSUME NEW n \in Node, SyncFails(n) PROVE KeptInv'
  BY <1>6 DEF SyncFails, SetSync
<1>7. ASSUME NEW n \in Node, SyncMerge(n) PROVE KeptInv'
  BY <1>7, SaveFacts DEF SyncMerge, SetSync
<1>8. ASSUME NEW n \in Node, NEW p \in Saver, SaveRead(n, p) PROVE KeptInv'
  BY <1>8, SaveFacts DEF SaveRead, SetSaver
<1>9. ASSUME NEW n \in Node, NEW p \in Saver, SaveOpen(n, p) PROVE KeptInv'
  BY <1>9, SaveFacts DEF SaveOpen, SetSaver
<1>10. ASSUME NEW n \in Node, NEW p \in Saver, SaveWrite(n, p) PROVE KeptInv'
  <2>1. CASE n = Master
    <3> DEFINE log == saver[Master]["cleanup"].log
    <3>1. p = "cleanup" /\ saver[Master]["cleanup"].step = "write"
      BY <1>10, <2>1, SaveFacts DEF SaveWrite
    <3>2. log \in Seq(Write) /\ file[Master] = [state |-> "empty", log |-> <<>>]
      BY <3>1, SaveFacts
    <3>3. Written(file[Master], log) = [state |-> "good", log |-> log]
      BY <3>2 DEF Written
    <3>4. /\ file'[Master] = [state |-> "good", log |-> log]
          /\ saver'[Master]["cleanup"] = [step |-> "done"]
      BY <1>10, <2>1, <3>1, <3>3 DEF SaveWrite, SetSaver
    <3>5. promised \subseteq ToSet(log) /\ kept \subseteq promised
      BY <3>1
    <3> HIDE DEF log
    <3>6. QED
      BY <1>10, <3>1, <3>4, <3>5 DEF SaveWrite
  <2>2. CASE n # Master
    BY <1>10, <2>2 DEF SaveWrite, SetSaver
  <2>3. QED
    BY <2>1, <2>2
<1>11. ASSUME NEW n \in Node, Signal(n) PROVE KeptInv'
  BY <1>11, SaveFacts DEF Signal, SetSaver
<1>12. ASSUME NEW n \in Node, Exit(n) PROVE KeptInv'
  <2>1. CASE n = Master
    <3> DEFINE left == IF saver[n]["cleanup"].step = "done" THEN promised ELSE StillKept(n)
    <3>1. /\ up'[Master] = "off" /\ saver'[Master]["cleanup"] = NoSave
          /\ kept' = left /\ file' = file
      BY <1>12, <2>1 DEF Exit, Ends, Dies
    <3>2. left \subseteq ToSet(file[Master].log)
      BY <2>1 DEF StillKept
    <3> HIDE DEF left
    <3>3. QED
      BY <3>1, <3>2, SaveFacts
  <2>2. CASE n # Master
    BY <1>12, <2>2 DEF Exit, Ends, Dies
  <2>3. QED
    BY <2>1, <2>2
<1>13. ASSUME NEW n \in Node, Crash(n) PROVE KeptInv'
  <2>1. CASE n = Master
    <3>1. /\ up'[Master] = "off" /\ saver'[Master]["cleanup"] = NoSave
          /\ kept' = StillKept(n) /\ file' = file
      BY <1>13, <2>1 DEF Crash, Ends, Dies
    <3>2. StillKept(n) \subseteq ToSet(file[Master].log)
      BY <2>1 DEF StillKept
    <3>3. QED
      BY <3>1, <3>2, SaveFacts
  <2>2. CASE n # Master
    BY <1>13, <2>2 DEF Crash, Ends, Dies
  <2>3. QED
    BY <2>1, <2>2
<1>14. ASSUME NEW w \in Write, TakeIndex(w) PROVE KeptInv'
  BY <1>14 DEF TakeIndex
<1>15. ASSUME NEW w \in Write, AppendLog(w) PROVE KeptInv'
  <2>1. /\ ToSet(Logs[Master]) \subseteq ToSet(Logs[Master])'
        /\ UNCHANGED <<up, saver, file, promised, kept>>
    BY <1>15, AppendSet DEF AppendLog
  <2>2. up[Master] \notin {"off", "starting"}
    BY <1>15 DEF AppendLog
  <2>3. QED
    BY <2>1, <2>2
<1>16. ASSUME NEW n \in Node, NEW p \in Saver, SaveFails(n, p) PROVE KeptInv'
  <2>1. CASE n = Master
    <3>1. p = "cleanup" /\ saver'[Master]["cleanup"] = [step |-> "failed"]
      BY <1>16, <2>1, SaveFacts DEF SaveFails, SetSaver
    <3>2. /\ UNCHANGED <<up, Logs, promised, kept>>
          /\ file'[Master] = file[Master] \/ file'[Master].state # "good"
      BY <1>16, <2>1 DEF SaveFails
    <3>3. up[Master] \notin {"off", "starting"} /\ saver[Master]["cleanup"].step # "none"
      BY <1>16, <2>1, <3>1, SaveFacts DEF SaveFails
    <3>4. QED
      BY <3>1, <3>2, <3>3
  <2>2. CASE n # Master
    BY <1>16, <2>2 DEF SaveFails, SetSaver
  <2>3. QED
    BY <2>1, <2>2
<1>17. CASE UNCHANGED vars
  BY <1>17 DEF vars
<1>18. QED
  BY <1>1, <1>2, <1>3, <1>4, <1>5, <1>6, <1>7, <1>8, <1>9, <1>10, <1>11, <1>12,
     <1>13, <1>14, <1>15, <1>16, <1>17 DEF Next

(* The places and what is kept, in every reachable state. *)
THEOREM KeptInvariant == Spec => [](LogTypes /\ PlaceInv /\ KeptInv)
<1>1. Init => PlaceInv
  BY RecoveryConstants, SyncFacts, SaveFacts DEF Init, PlaceInv, Saver
<1>2. Init => KeptInv
  BY RecoveryConstants, SaveFacts DEF Init, KeptInv, Saver
<1>3. QED
  BY <1>1, <1>2, LogTypesInit, LogTypesStep, PlaceStep, KeptStep, PTL DEF Spec

(* Every entry the master has when SIGTERM comes is in the file once the   *)
(* process has ended by itself with the save done, and stays there until a *)
(* crash or a failed save hits the rewriting of the file.                  *)
THEOREM KeptStaysOnDisk == Spec => []KeptOnDisk
<1>1. KeptInv => KeptOnDisk
  BY DEF KeptInv, KeptOnDisk, Recovered
<1>2. QED
  BY <1>1, KeptInvariant, PTL

----------------------------------------------------------------------------
(* What followers have.                                                    *)

(* As long as the master has lost nothing, every copy of a log there is,   *)
(* in memory, on disk, in a saver's hands, is the beginning of its log,    *)
(* and an answer on its way extends the follower's log to such a one.      *)
PrefixInv ==
  ~lost =>
    \A n \in Node :
      /\ IsPrefix(Logs[n], MasterLog) /\ IsPrefix(file[n].log, MasterLog)
      /\ \A p \in Saver : saver[n][p].step \in {"open", "write"} =>
           IsPrefix(saver[n][p].log, MasterLog)
      /\ sync[n].step = "reply" => IsPrefix(Logs[n] \o sync[n].entries, MasterLog)

(* The master's log is a log. *)
LEMMA MasterLogType == LogTypes => MasterLog \in Seq(Write)
  BY RecoveryConstants, FileFacts DEF LogTypes, MasterLog, Recovered

(* While the master has lost nothing its log only gets longer: a restart   *)
(* either finds all of it or is counted as a loss.                         *)
LogGrows == ~lost' => ~lost /\ IsPrefix(MasterLog, MasterLog')

(* No step takes anything from the master's log without saying so. *)
LEMMA LogGrowsStep == LogTypes /\ PlaceInv /\ [Next]_vars => LogGrows
<1> SUFFICES ASSUME LogTypes, PlaceInv, [Next]_vars PROVE LogGrows
  OBVIOUS
<1> Master \in Node
  BY RecoveryConstants
<1> IsPrefix(MasterLog, MasterLog)
  BY MasterLogType, PrefixFacts
<1> USE DEF LogTypes, memory, ghosts, LogGrows
<1>1. ASSUME NEW n \in Node, Start(n) PROVE LogGrows
  <2>1. MasterLog' = MasterLog /\ lost' = lost
    BY <1>1 DEF Start, MasterLog, Recovered
  <2>2. QED
    BY <2>1
<1>2. ASSUME NEW n \in Node, RegisterPanics(n) PROVE LogGrows
  <2>1. n = Master => Logs[Master] = file[Master].log
    BY <1>2 DEF RegisterPanics, PlaceInv
  <2>2. MasterLog' = MasterLog /\ lost' = lost
    BY <1>2, <2>1 DEF RegisterPanics, Dies, MasterLog, Recovered
  <2>3. QED
    BY <2>2
<1>3. ASSUME NEW n \in Node, NEW stays \in BOOLEAN, NEW joined \in BOOLEAN,
                Join(n, stays, joined)
         PROVE  LogGrows
  <2>1. MasterLog' = MasterLog /\ lost' = lost
    BY <1>3 DEF Join, MasterLog, Recovered
  <2>2. QED
    BY <2>1
<1>4. ASSUME NEW n \in Node, NEW m \in Node, SyncAsk(n, m) PROVE LogGrows
  <2>1. MasterLog' = MasterLog /\ lost' = lost
    BY <1>4 DEF SyncAsk, MasterLog, Recovered
  <2>2. QED
    BY <2>1
<1>5. ASSUME NEW n \in Node, SyncLogs(n) PROVE LogGrows
  <2>1. MasterLog' = MasterLog /\ lost' = lost
    BY <1>5 DEF SyncLogs, MasterLog, Recovered
  <2>2. QED
    BY <2>1
<1>6. ASSUME NEW n \in Node, SyncFails(n) PROVE LogGrows
  <2>1. MasterLog' = MasterLog /\ lost' = lost
    BY <1>6 DEF SyncFails, MasterLog, Recovered
  <2>2. QED
    BY <2>1
<1>7. ASSUME NEW n \in Node, SyncMerge(n) PROVE LogGrows
  <2>1. n # Master
    BY <1>7 DEF SyncMerge, PlaceInv
  <2>2. MasterLog' = MasterLog /\ lost' = lost
    BY <1>7, <2>1 DEF SyncMerge, MasterLog, Recovered
  <2>3. QED
    BY <2>2
<1>8. ASSUME NEW n \in Node, NEW p \in Saver, SaveRead(n, p) PROVE LogGrows
  <2>1. MasterLog' = MasterLog /\ lost' = lost
    BY <1>8 DEF SaveRead, MasterLog, Recovered
  <2>2. QED
    BY <2>1
<1>9. ASSUME NEW n \in Node, NEW p \in Saver, SaveOpen(n, p) PROVE LogGrows
  <2>1. n = Master => up[Master] # "off"
    BY <1>9, SaveFacts DEF SaveOpen, PlaceInv, Saver
  <2>2. MasterLog' = MasterLog /\ lost' = lost
    BY <1>9, <2>1 DEF SaveOpen, MasterLog, Recovered
  <2>3. QED
    BY <2>2
<1>10. ASSUME NEW n \in Node, NEW p \in Saver, SaveWrite(n, p) PROVE LogGrows
  <2>1. n = Master => up[Master] # "off"
    BY <1>10, SaveFacts DEF SaveWrite, PlaceInv, Saver
  <2>2. MasterLog' = MasterLog /\ lost' = lost
    BY <1>10, <2>1 DEF SaveWrite, MasterLog, Recovered
  <2>3. QED
    BY <2>2
<1>11. ASSUME NEW n \in Node, Signal(n) PROVE LogGrows
  <2>1. MasterLog' = MasterLog /\ lost' = lost
    BY <1>11 DEF Signal, MasterLog, Recovered
  <2>2. QED
    BY <2>1
<1>12. ASSUME NEW n \in Node, Exit(n) PROVE LogGrows
  <2>1. SUFFICES ASSUME ~lost' PROVE LogGrows
    BY DEF LogGrows
  <2>2. ~lost /\ ~Forgets(n)
    BY <1>12, <2>1 DEF Exit, Ends
  <2>3. up[n] # "off" /\ (n = Master => Logs[Master] = file[Master].log)
    BY <1>12, <2>2 DEF Exit, Forgets, Recovered
  <2>4. MasterLog' = MasterLog
    BY <1>12, <2>3 DEF Exit, Ends, Dies, MasterLog, Recovered
  <2>5. QED
    BY <2>2, <2>4
<1>13. ASSUME NEW n \in Node, Crash(n) PROVE LogGrows
  <2>1. SUFFICES ASSUME ~lost' PROVE LogGrows
    BY DEF LogGrows
  <2>2. ~lost /\ ~Forgets(n)
    BY <1>13, <2>1 DEF Crash, Ends
  <2>3. up[n] # "off" /\ (n = Master => Logs[Master] = file[Master].log)
    BY <1>13, <2>2 DEF Crash, Forgets, Recovered
  <2>4. MasterLog' = MasterLog
    BY <1>13, <2>3 DEF Crash, Ends, Dies, MasterLog, Recovered
  <2>5. QED
    BY <2>2, <2>4
<1>14. ASSUME NEW w \in Write, TakeIndex(w) PROVE LogGrows
  <2>1. MasterLog' = MasterLog /\ lost' = lost
    BY <1>14 DEF TakeIndex, MasterLog, Recovered
  <2>2. QED
    BY <2>1
<1>15. ASSUME NEW w \in Write, AppendLog(w) PROVE LogGrows
  <2>1. up[Master] # "off"
    BY <1>15 DEF AppendLog, PlaceInv
  <2>2. /\ MasterLog = Logs[Master] /\ lost' = lost
        /\ MasterLog' = Logs[Master] \/ MasterLog' = Append(Logs[Master], w)
    BY <1>15, <2>1 DEF AppendLog, MasterLog
  <2>3. IsPrefix(Logs[Master], Append(Logs[Master], w))
    BY PrefixFacts
  <2>4. QED
    BY <2>2, <2>3
<1>16. ASSUME NEW n \in Node, NEW p \in Saver, SaveFails(n, p) PROVE LogGrows
  <2>1. n = Master => up[Master] # "off"
    BY <1>16, SaveFacts DEF SaveFails, PlaceInv, Saver
  <2>2. MasterLog' = MasterLog /\ lost' = lost
    BY <1>16, <2>1 DEF SaveFails, MasterLog, Recovered
  <2>3. QED
    BY <2>2
<1>17. CASE UNCHANGED vars
  BY <1>17 DEF vars, MasterLog, Recovered
<1>18. QED
  BY <1>1, <1>2, <1>3, <1>4, <1>5, <1>6, <1>7, <1>8, <1>9, <1>10, <1>11, <1>12,
     <1>13, <1>14, <1>15, <1>16, <1>17 DEF Next

(* What is a prefix of the master's log before a step is one after it. *)
LEMMA PrefixStays ==
  ASSUME LogTypes, LogTypes', LogGrows, ~lost', NEW s \in Seq(Write), IsPrefix(s, MasterLog)
  PROVE  IsPrefix(s, MasterLog')
<1>1. MasterLog \in Seq(Write) /\ MasterLog' \in Seq(Write)
  BY RecoveryConstants, FileFacts DEF LogTypes, MasterLog, Recovered
<1>2. QED
  BY <1>1, PrefixFacts DEF LogGrows

(* Every copy there is before a step is, if nothing is lost in it, within  *)
(* the master's log after it.                                              *)
CopiesFit ==
  /\ IsPrefix(<<>>, MasterLog')
  /\ \A n \in Node :
       /\ IsPrefix(Logs[n], MasterLog') /\ IsPrefix(file[n].log, MasterLog')
       /\ \A p \in Saver : saver[n][p].step \in {"open", "write"} =>
            IsPrefix(saver[n][p].log, MasterLog')
       /\ sync[n].step = "reply" => IsPrefix(Logs[n] \o sync[n].entries, MasterLog')

(* A log that gets longer keeps its prefixes. *)
LEMMA CopiesStillFit ==
  ASSUME LogTypes, LogTypes', PrefixInv, LogGrows, ~lost'
  PROVE  CopiesFit
<1>1. ~lost /\ \A s \in Seq(Write) : IsPrefix(s, MasterLog) => IsPrefix(s, MasterLog')
  BY PrefixStays DEF LogGrows
<1>2. MasterLog' \in Seq(Write)
  BY RecoveryConstants, FileFacts DEF LogTypes, MasterLog, Recovered
<1>3. IsPrefix(<<>>, MasterLog')
  BY <1>2, PrefixFacts
<1>4. ASSUME NEW n \in Node
      PROVE  IsPrefix(Logs[n], MasterLog') /\ IsPrefix(file[n].log, MasterLog')
  <2>1. Logs[n] \in Seq(Write) /\ file[n].log \in Seq(Write)
    BY FileFacts DEF LogTypes
  <2>2. QED
    BY <1>1, <2>1 DEF PrefixInv
<1>5. ASSUME NEW n \in Node, NEW p \in Saver, saver[n][p].step \in {"open", "write"}
      PROVE  IsPrefix(saver[n][p].log, MasterLog')
  <2>1. saver[n][p] \in SaveOf(Seq(Write))
    BY DEF LogTypes
  <2>2. saver[n][p].log \in Seq(Write)
    BY <1>5, <2>1, SaveFacts
  <2>3. QED
    BY <1>1, <1>5, <2>2 DEF PrefixInv
<1>6. ASSUME NEW n \in Node, sync[n].step = "reply"
      PROVE  IsPrefix(Logs[n] \o sync[n].entries, MasterLog')
  <2>1. sync[n].entries \in Seq(Write) /\ Logs[n] \in Seq(Write)
    BY <1>6, SyncFacts DEF LogTypes
  <2>2. Logs[n] \o sync[n].entries \in Seq(Write)
    BY <2>1
  <2>3. QED
    BY <1>1, <1>6, <2>2 DEF PrefixInv
<1>7. QED
  BY <1>3, <1>4, <1>5, <1>6 DEF CopiesFit

(* A step that makes no new copy keeps all of them within it. *)
LEMMA NoNewCopy ==
  ASSUME LogTypes, LogTypes', PrefixInv, LogGrows, Logs' = Logs, file' = file,
         \A n \in Node :
           /\ sync'[n] = sync[n] \/ sync'[n].step # "reply"
           /\ \A p \in Saver : \/ saver'[n][p] = saver[n][p]
                               \/ saver'[n][p].step \notin {"open", "write"}
  PROVE  PrefixInv'
<1> SUFFICES ASSUME ~lost' PROVE PrefixInv'
  BY DEF PrefixInv
<1>1. CopiesFit
  BY CopiesStillFit
<1>2. QED
  BY <1>1 DEF PrefixInv, CopiesFit

(* The end of a process leaves an empty log behind. *)
LEMMA DeadPrefix ==
  ASSUME LogTypes, LogTypes', PrefixInv, LogGrows, NEW n \in Node, Dies(n), file' = file
  PROVE  PrefixInv'
<1> SUFFICES ASSUME ~lost' PROVE PrefixInv'
  BY DEF PrefixInv
<1>1. CopiesFit
  BY CopiesStillFit
<1>2. /\ Logs'[n] = <<>> /\ sync'[n].step = "none"
      /\ \A p \in Saver : saver'[n][p].step = "none"
  BY SyncFacts, SaveFacts DEF Dies, LogTypes
<1>3. \A m \in Node : m # n =>
        Logs'[m] = Logs[m] /\ sync'[m] = sync[m] /\ saver'[m] = saver[m]
  BY DEF Dies, LogTypes
<1>4. QED
  BY <1>1, <1>2, <1>3 DEF PrefixInv, CopiesFit

(* Every step keeps all copies within the master's log. *)
LEMMA PrefixStep ==
  LogTypes /\ PlaceInv /\ PrefixInv /\ [Next]_vars => PrefixInv'
<1> SUFFICES ASSUME LogTypes, PlaceInv, PrefixInv, [Next]_vars PROVE PrefixInv'
  OBVIOUS
<1> Master \in Node
  BY RecoveryConstants
<1> LogTypes' /\ LogGrows
  BY LogTypesStep, LogGrowsStep
<1>0. ~lost' => CopiesFit
  BY CopiesStillFit
<1> USE DEF memory, ghosts
<1>1. ASSUME NEW n \in Node, Start(n) PROVE PrefixInv'
  <2> SUFFICES ASSUME ~lost' PROVE PrefixInv'
    BY DEF PrefixInv
  <2>1. /\ Logs'[n] = file[n].log /\ sync[n].step = "none"
        /\ \A m \in Node : m # n => Logs'[m] = Logs[m]
        /\ file' = file /\ sync' = sync /\ saver' = saver
    BY <1>1, SyncFacts DEF Start, Recovered, LogTypes, PlaceInv
  <2>2. QED
    BY <1>0, <2>1 DEF PrefixInv, CopiesFit
<1>2. ASSUME NEW n \in Node, RegisterPanics(n) PROVE PrefixInv'
  BY <1>2, DeadPrefix DEF RegisterPanics
<1>3. ASSUME NEW n \in Node, NEW stays \in BOOLEAN, NEW joined \in BOOLEAN,
             Join(n, stays, joined)
      PROVE  PrefixInv'
  <2>1. \A m \in Node : sync'[m] = sync[m] \/ sync'[m].step # "reply"
    BY <1>3, SyncFacts DEF Join, LogTypes
  <2>2. Logs' = Logs /\ file' = file /\ saver' = saver
    BY <1>3 DEF Join
  <2>3. QED
    BY <2>1, <2>2, NoNewCopy
<1>4. ASSUME NEW n \in Node, NEW m \in Node, SyncAsk(n, m) PROVE PrefixInv'
  <2>1. \A k \in Node : sync'[k] = sync[k] \/ sync'[k].step # "reply"
    BY <1>4, SyncFacts DEF SyncAsk, SetSync, LogTypes
  <2>2. Logs' = Logs /\ file' = file /\ saver' = saver
    BY <1>4 DEF SyncAsk
  <2>3. QED
    BY <2>1, <2>2, NoNewCopy
<1>5. ASSUME NEW n \in Node, SyncLogs(n) PROVE PrefixInv'
  <2> SUFFICES ASSUME ~lost' PROVE PrefixInv'
    BY DEF PrefixInv
  <2> DEFINE found == EntriesToSync(Logs[Master], Len(Logs[n]))
  <2>1. sync[n].to \in Node /\ sync[n].last = Len(Logs[n])
    BY <1>5, SyncFacts DEF SyncLogs, LogTypes, PlaceInv
  <2>2. sync'[n].step = "reply" =>
          /\ isMaster[sync[n].to] /\ Serving(sync[n].to)
          /\ sync'[n].entries = EntriesToSync(Logs[sync[n].to], sync[n].last)
    BY <1>5, SyncFacts DEF SyncLogs, SetSync, LogTypes
  <2>3. sync'[n].step = "reply" => sync'[n].entries = found /\ MasterLog = Logs[Master]
    BY <2>1, <2>2 DEF Serving, MasterLog, PlaceInv
  <2>4. MasterLog' = MasterLog /\ Logs' = Logs /\ file' = file /\ saver' = saver /\ lost' = lost
    BY <1>5 DEF SyncLogs, MasterLog, Recovered
  <2>5. IsPrefix(Logs[n], MasterLog) /\ Logs[n] \in Seq(Write) /\ Logs[Master] \in Seq(Write)
    BY <2>4 DEF LogTypes, PrefixInv
  <2>6. sync'[n].step = "reply" => Logs[n] \o found = MasterLog
    BY <2>3, <2>5, RestFits
  <2> HIDE DEF found
  <2>7. \A m \in Node : m # n => sync'[m] = sync[m]
    BY <1>5 DEF SyncLogs, SetSync, LogTypes
  <2>8. IsPrefix(MasterLog, MasterLog)
    BY MasterLogType, PrefixFacts
  <2>9. QED
    BY <2>3, <2>4, <2>6, <2>7, <2>8 DEF PrefixInv
<1>6. ASSUME NEW n \in Node, SyncFails(n) PROVE PrefixInv'
  <2>1. \A m \in Node : sync'[m] = sync[m] \/ sync'[m].step # "reply"
    BY <1>6, SyncFacts DEF SyncFails, SetSync, LogTypes
  <2>2. Logs' = Logs /\ file' = file /\ saver' = saver
    BY <1>6 DEF SyncFails
  <2>3. QED
    BY <2>1, <2>2, NoNewCopy
<1>7. ASSUME NEW n \in Node, SyncMerge(n) PROVE PrefixInv'
  <2> SUFFICES ASSUME ~lost' PROVE PrefixInv'
    BY DEF PrefixInv
  <2>1. /\ Logs'[n] = Logs[n] \o sync[n].entries /\ sync[n].step = "reply"
        /\ \A m \in Node : m # n => Logs'[m] = Logs[m] /\ sync'[m] = sync[m]
        /\ file' = file
    BY <1>7 DEF SyncMerge, SetSync, LogTypes
  <2>2. \A m \in Node, p \in Saver :
          saver'[m][p] = saver[m][p] \/ saver'[m][p].step = "read"
    BY <1>7 DEF SyncMerge, LogTypes, Saver
  <2>3. sync'[n].step = "none"
    BY <1>7, SyncFacts DEF SyncMerge, SetSync, LogTypes
  <2>4. QED
    BY <1>0, <2>1, <2>2, <2>3 DEF PrefixInv, CopiesFit
<1>8. ASSUME NEW n \in Node, NEW p \in Saver, SaveRead(n, p) PROVE PrefixInv'
  <2> SUFFICES ASSUME ~lost' PROVE PrefixInv'
    BY DEF PrefixInv
  <2>1. /\ saver'[n][p].log = Logs[n]
        /\ \A m \in Node, q \in Saver : m # n \/ q # p => saver'[m][q] = saver[m][q]
        /\ Logs' = Logs /\ file' = file /\ sync' = sync
    BY <1>8 DEF SaveRead, SetSaver, LogTypes
  <2>2. QED
    BY <1>0, <2>1 DEF PrefixInv, CopiesFit
<1>9. ASSUME NEW n \in Node, NEW p \in Saver, SaveOpen(n, p) PROVE PrefixInv'
  <2> SUFFICES ASSUME ~lost' PROVE PrefixInv'
    BY DEF PrefixInv
  <2>1. /\ saver'[n][p].log = saver[n][p].log /\ saver[n][p].step = "open"
        /\ \A m \in Node, q \in Saver : m # n \/ q # p => saver'[m][q] = saver[m][q]
        /\ Logs' = Logs /\ sync' = sync
    BY <1>9 DEF SaveOpen, SetSaver, LogTypes
  <2>2. file'[n].log = <<>> /\ \A m \in Node : m # n => file'[m] = file[m]
    BY <1>9 DEF SaveOpen, LogTypes
  <2>3. QED
    BY <1>0, <2>1, <2>2 DEF PrefixInv, CopiesFit
<1>10. ASSUME NEW n \in Node, NEW p \in Saver, SaveWrite(n, p) PROVE PrefixInv'
  <2> SUFFICES ASSUME ~lost' PROVE PrefixInv'
    BY DEF PrefixInv
  <2>1. /\ saver'[n][p].step \in {"done", "none"} /\ saver[n][p].step = "write"
        /\ \A m \in Node, q \in Saver : m # n \/ q # p => saver'[m][q] = saver[m][q]
        /\ Logs' = Logs /\ sync' = sync
    BY <1>10, SaveFacts DEF SaveWrite, SetSaver, LogTypes
  <2>2. \A m \in Node : m # n => file'[m] = file[m]
    BY <1>10 DEF SaveWrite, LogTypes
  <2>3. file'[n].log = saver[n][p].log \/ file'[n].log = <<>>
    BY <1>10 DEF SaveWrite, Written, LogTypes
  <2>4. QED
    BY <1>0, <2>1, <2>2, <2>3 DEF PrefixInv, CopiesFit
<1>11. ASSUME NEW n \in Node, Signal(n) PROVE PrefixInv'
  <2>1. \A m \in Node, p \in Saver :
          saver'[m][p] = saver[m][p] \/ saver'[m][p].step \notin {"open", "write"}
    BY <1>11 DEF Signal, SetSaver, LogTypes, Saver
  <2>2. Logs' = Logs /\ file' = file /\ sync' = sync
    BY <1>11 DEF Signal
  <2>3. QED
    BY <2>1, <2>2, NoNewCopy
<1>12. ASSUME NEW n \in Node, Exit(n) PROVE PrefixInv'
  BY <1>12, DeadPrefix DEF Exit, Ends
<1>13. ASSUME NEW n \in Node, Crash(n) PROVE PrefixInv'
  BY <1>13, DeadPrefix DEF Crash, Ends
<1>14. ASSUME NEW w \in Write, TakeIndex(w) PROVE PrefixInv'
  BY <1>14, NoNewCopy DEF TakeIndex
<1>15. ASSUME NEW w \in Write, AppendLog(w) PROVE PrefixInv'
  <2> SUFFICES ASSUME ~lost' PROVE PrefixInv'
    BY DEF PrefixInv
  <2>1. up[Master] # "off"
    BY <1>15 DEF AppendLog, PlaceInv
  <2>2. MasterLog' = Logs'[Master] /\ Logs'[Master] \in Seq(Write)
    BY <1>15, <2>1 DEF AppendLog, MasterLog, LogTypes
  <2>3. IsPrefix(Logs'[Master], MasterLog')
    BY <2>2, PrefixFacts
  <2>4. /\ sync[Master].step # "reply" /\ \A m \in Node : m # Master => Logs'[m] = Logs[m]
        /\ file' = file /\ sync' = sync /\ saver' = saver
    BY <1>15 DEF AppendLog, PlaceInv, LogTypes
  <2>5. QED
    BY <1>0, <2>3, <2>4 DEF PrefixInv, CopiesFit
<1>16. ASSUME NEW n \in Node, NEW p \in Saver, SaveFails(n, p) PROVE PrefixInv'
  <2> SUFFICES ASSUME ~lost' PROVE PrefixInv'
    BY DEF PrefixInv
  <2>1. /\ saver'[n][p].step \in {"failed", "none"}
        /\ \A m \in Node, q \in Saver : m # n \/ q # p => saver'[m][q] = saver[m][q]
        /\ Logs' = Logs /\ sync' = sync
    BY <1>16, SaveFacts DEF SaveFails, SetSaver, LogTypes
  <2>2. \A m \in Node : file'[m] = file[m] \/ file'[m].log = <<>>
    BY <1>16 DEF SaveFails, LogTypes
  <2>3. QED
    BY <1>0, <2>1, <2>2 DEF PrefixInv, CopiesFit
<1>17. CASE UNCHANGED vars
  BY <1>17, NoNewCopy DEF vars
<1>18. QED
  BY <1>1, <1>2, <1>3, <1>4, <1>5, <1>6, <1>7, <1>8, <1>9, <1>10, <1>11, <1>12,
     <1>13, <1>14, <1>15, <1>16, <1>17 DEF Next

(* What a follower has, in memory or on disk, is the beginning of the      *)
(* master's log, through any starts, crashes and late answers, as long as  *)
(* the master itself has lost nothing.                                     *)
THEOREM FollowersStayPrefixes == Spec => []SyncedPrefix
<1>1. Init => PrefixInv
  <2> SUFFICES ASSUME Init PROVE PrefixInv
    OBVIOUS
  <2>1. /\ \A n \in Node : Logs[n] = <<>> /\ file[n].log = <<>>
        /\ \A n \in Node : sync[n] = NoSync /\ \A p \in Saver : saver[n][p] = NoSave
    BY DEF Init
  <2>2. MasterLog = <<>> /\ IsPrefix(<<>>, <<>>)
    BY <2>1, RecoveryConstants, FileFacts, PrefixFacts DEF MasterLog, Recovered
  <2>3. QED
    BY <2>1, <2>2, SyncFacts, SaveFacts DEF PrefixInv
<1>2. PrefixInv => SyncedPrefix
  BY DEF PrefixInv, SyncedPrefix, Recovered
<1>3. QED
  BY <1>1, <1>2, PrefixStep, KeptInvariant, PTL DEF Spec

=============================================================================
