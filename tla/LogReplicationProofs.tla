------------------------- MODULE LogReplicationProofs -------------------------
(***************************************************************************)
(* Proofs about LogReplication, for any calls, keys and followers: the     *)
(* indexes of the leader while its term stands, and what a read returns    *)
(* after a write was answered.                                             *)
(***************************************************************************)
EXTENDS LogReplication, SequenceTheorems, WellFoundedInduction, TLAPS

----------------------------------------------------------------------------
(* Types of the leader's side.                                             *)

Places == {"idle", "refused", "term", "append", "replicate", "wait", "commit", "collect",
           "apply", "execute", "record", "applied", "put", "acked", "failed"}

CallOf == [index : Nat, term : Nat, count : Nat, todo : Seq(Entries)]

RpcSteps == {"none", "start", "slice", "request", "reply", "done"}

(* A request goroutine carries a term from the moment it has read one, and *)
(* a next index only as long as it has not used it.                        *)
RpcShape(r) ==
  /\ r.step \in RpcSteps
  /\ r.step = "slice" => r.next \in Nat
  /\ r.step \in {"slice", "request", "reply"} => r.term \in Nat

LeaderTypes ==
  /\ CurrentTerm \in Nat
  /\ Logs \in Seq(Entries)
  /\ CommitIndex \in Nat /\ LastApplied \in Nat /\ lastAppliedIndex \in Nat
  /\ NextIndex \in [Follower -> Nat] /\ MatchIndex \in [Follower -> Nat]
  /\ pc \in [Op -> Places]
  /\ call \in [Op -> CallOf]
  /\ DOMAIN data = Key
  /\ DOMAIN rpc = Op
  /\ \A o \in Op : /\ DOMAIN rpc[o] = Follower
                   /\ \A f \in Follower : RpcShape(rpc[o][f])
  /\ fTerm \in [Follower -> Nat]

(* The fields of a call. *)
LEMMA CallFacts ==
  /\ \A r \in CallOf : /\ r.index \in Nat /\ r.term \in Nat /\ r.count \in Nat
                       /\ r.todo \in Seq(Entries)
  /\ \A r \in CallOf, x \in Nat :
       /\ [r EXCEPT !.index = x] \in CallOf /\ [r EXCEPT !.index = x].index = x
       /\ [r EXCEPT !.term = x] \in CallOf /\ [r EXCEPT !.count = x] \in CallOf
  /\ \A r \in CallOf, s \in Seq(Entries) : [r EXCEPT !.todo = s] \in CallOf
  BY DEF CallOf

(* An entry has an index, a term and the call it comes from. *)
LEMMA EntryFacts ==
  /\ \A e \in Entries : e.index \in Nat /\ e.term \in Nat /\ e.cmd \in Op
  /\ \A o \in Op, i, t \in Nat : [term |-> t, index |-> i, cmd |-> o] \in Entries
  BY DEF Entries

(* The last index of the log is a number. *)
LEMMA LastIndexType == ASSUME LeaderTypes PROVE LastIndex \in Nat
<1>1. CASE Logs = <<>>
  BY <1>1 DEF LastIndex
<1>2. CASE Logs # <<>>
  <2>1. Logs \in Seq(Entries)
    BY DEF LeaderTypes
  <2>2. Len(Logs) \in 1 .. Len(Logs)
    BY <1>2, <2>1
  <2>3. Logs[Len(Logs)] \in Entries
    BY <2>1, <2>2
  <2>4. QED
    BY <1>2, <2>3, EntryFacts DEF LastIndex
<1>3. QED
  BY <1>1, <1>2

(* A non-empty set of naturals has a least element. *)
LEMMA HasLeast ==
  ASSUME NEW S \in SUBSET Nat, S # {}
  PROVE  Min(S) \in S /\ \A y \in S : Min(S) <= y
<1> DEFINE R == OpToRel(<, Nat)
<1>1. IsWellFoundedOn(R, Nat)
  BY NatLessThanWellFounded
<1>2. \A x, y \in Nat : x < y => <<x, y>> \in R
  BY DEF OpToRel
<1> HIDE DEF R
<1>3. PICK x \in S : \A y \in S : ~(<<y, x>> \in R)
  BY <1>1, WFMin
<1>4. ASSUME NEW y \in S PROVE x <= y
  <2>1. x \in Nat /\ y \in Nat /\ ~(y < x)
    BY <1>2, <1>3
  <2>2. QED
    BY <2>1
<1>5. QED
  BY <1>4 DEF Min

(* What AppendLog leaves is a log, also when it cuts, and nothing in it is *)
(* new but the entry.                                                      *)
LEMMA LogWithType ==
  ASSUME LeaderTypes, NEW e \in Entries
  PROVE  /\ LogWith(e) \in Seq(Entries)
         /\ \A i \in 1 .. Len(LogWith(e)) :
              LogWith(e)[i] = e \/ \E j \in 1 .. Len(Logs) : LogWith(e)[i] = Logs[j]
<1> DEFINE same == SameIndex(e.index)
           log == Logs
<1>1. log \in Seq(Entries) /\ Len(log) \in Nat
  BY DEF LeaderTypes
<1>2. same \subseteq 1 .. Len(log)
  BY <1>1 DEF SameIndex
<1>3. LogWith(e) = IF same = {} THEN Append(log, e)
                   ELSE IF log[Min(same)].term = e.term THEN log
                   ELSE Append(SubSeq(log, 1, Min(same) - 1), e)
  BY DEF LogWith
<1> HIDE DEF same, log
<1> DEFINE Fits(s) == /\ s \in Seq(Entries)
                      /\ \A i \in 1 .. Len(s) :
                           s[i] = e \/ \E j \in 1 .. Len(log) : s[i] = log[j]
<1>0. ASSUME NEW c \in Seq(Entries), Fits(c) PROVE Fits(Append(c, e))
  <2>1. Append(c, e) \in Seq(Entries) /\ Len(Append(c, e)) = Len(c) + 1 /\ Len(c) \in Nat
    BY <1>0
  <2>2. \A i \in 1 .. Len(c) : Append(c, e)[i] = c[i]
    BY <1>0
  <2>3. Append(c, e)[Len(c) + 1] = e
    BY <1>0
  <2>4. \A i \in 1 .. Len(c) + 1 : i \in 1 .. Len(c) \/ i = Len(c) + 1
    BY <2>1
  <2>5. QED
    BY <1>0, <2>1, <2>2, <2>3, <2>4
<1>9. Fits(log)
  BY <1>1
<1>4. CASE same = {}
  <2>1. LogWith(e) = Append(log, e)
    BY <1>3, <1>4
  <2>2. Fits(Append(log, e))
    BY <1>0, <1>1, <1>9
  <2> HIDE DEF Fits
  <2>3. Fits(LogWith(e))
    BY <2>1, <2>2
  <2>4. QED
    BY <2>3 DEF Fits, log
<1>5. CASE same # {}
  <2>1. Min(same) \in 1 .. Len(log)
    <3>1. same \subseteq Nat
      BY <1>2
    <3>2. QED
      BY <1>2, <1>5, <3>1, HasLeast
  <2> DEFINE m == Min(same)
             cut == SubSeq(log, 1, m - 1)
  <2>2. m \in Nat /\ m - 1 <= Len(log) /\ m - 1 \in Nat
    BY <1>1, <2>1
  <2> HIDE DEF m
  <2>3. cut \in Seq(Entries)
    BY <1>1, <2>2
  <2>4. LogWith(e) = log \/ LogWith(e) = Append(cut, e)
    BY <1>3, <1>5 DEF m
  <2>5. Fits(cut)
    <3>1. Len(cut) = m - 1
      BY <1>1, <2>1, <2>2
    <3>2. \A i \in 1 .. m - 1 : cut[i] = log[i] /\ i \in 1 .. Len(log)
      BY <1>1, <2>2
    <3>3. QED
      BY <2>3, <3>1, <3>2
  <2> HIDE DEF cut
  <2>6. Fits(Append(cut, e))
    BY <1>0, <2>3, <2>5
  <2> HIDE DEF Fits
  <2>7. Fits(LogWith(e))
    BY <1>9, <2>4, <2>6
  <2>8. QED
    BY <2>7 DEF Fits, log
<1>6. QED
  BY <1>4, <1>5

(* A step of one request goroutine. *)
LEMMA OneRpc ==
  ASSUME LeaderTypes, NEW o \in Op, NEW f \in Follower, NEW r, RpcShape(r),
         rpc' = [rpc EXCEPT ![o][f] = r]
  PROVE  /\ DOMAIN rpc' = Op
         /\ rpc'[o][f] = r
         /\ \A p \in Op, g \in Follower : p # o \/ g # f => rpc'[p][g] = rpc[p][g]
         /\ \A p \in Op : /\ DOMAIN rpc'[p] = Follower
                          /\ \A g \in Follower : RpcShape(rpc'[p][g])
<1>1. DOMAIN rpc = Op /\ \A p \in Op : DOMAIN rpc[p] = Follower
  BY DEF LeaderTypes
<1>2. DOMAIN rpc' = Op /\ rpc'[o] = [rpc[o] EXCEPT ![f] = r]
  BY <1>1
<1>3. \A p \in Op : p # o => rpc'[p] = rpc[p]
  BY <1>1
<1>4. DOMAIN rpc'[o] = Follower /\ rpc'[o][f] = r /\ \A g \in Follower : g # f => rpc'[o][g] = rpc[o][g]
  BY <1>1, <1>2
<1>5. QED
  BY <1>2, <1>3, <1>4 DEF LeaderTypes

----------------------------------------------------------------------------
(* The invariants.                                                         *)

(* A call that has put its entry into the log. *)
Appended(o) == pc[o] \notin {"idle", "refused", "term", "append"}

(* A call that has not been turned away. *)
Made(o) == pc[o] \notin {"idle", "refused"}

(* Only a call that has appended has request goroutines, and one that is   *)
(* working on an entry has one to work on, which parses if it is executed. *)
WorkInv ==
  \A o \in Op :
    /\ pc[o] \in {"execute", "record", "applied"} => call[o].todo # <<>>
    /\ pc[o] = "execute" => Parses(Cmd(Head(call[o].todo).cmd))
    /\ \A f \in Follower : rpc[o][f].step # "none" => Appended(o)

(* The term never goes back.  As long as it has not moved, all entries     *)
(* have the leader's term, a call's index lies at most one beyond the log, *)
(* and within it once the call has appended: either its own entry or, when *)
(* two calls drew the same index, the other's is there.                    *)
CallFits(o) ==
  /\ Made(o) => call[o].index \in 1 .. Len(Logs) + 1
  /\ pc[o] = "append" => call[o].term = LeaderTerm
  /\ Appended(o) => call[o].index <= Len(Logs)
  /\ \A i \in 1 .. Len(call[o].todo) : call[o].todo[i].index <= Len(Logs)

StandsInv ==
  /\ CurrentTerm >= LeaderTerm
  /\ CurrentTerm = LeaderTerm =>
       /\ IndexesWithinLog
       /\ \A i \in 1 .. Len(Logs) : Logs[i].term = LeaderTerm
       /\ \A o \in Op : CallFits(o)

(* If no follower starts with a newer term, none is ever heard of. *)
NoNewerTerm == \A f \in Follower : FollowerTerm[f] <= LeaderTerm

SameTermInv ==
  /\ CurrentTerm = LeaderTerm
  /\ \A f \in Follower : fTerm[f] <= LeaderTerm
  /\ \A o \in Op, f \in Follower :
       rpc[o][f].step \in {"slice", "request", "reply"} => rpc[o][f].term <= LeaderTerm

----------------------------------------------------------------------------
(* Each step by what it changes.                                           *)

(* A call's goroutine: where it goes, what it takes with it. *)
LEMMA GotoFacts ==
  ASSUME LeaderTypes, NEW o \in Op, NEW where \in Places, Goto(o, where)
  PROVE  /\ pc' \in [Op -> Places] /\ pc'[o] = where
         /\ \A p \in Op : p # o => pc'[p] = pc[p]
  BY DEF LeaderTypes, Goto

(* A field of a call. *)
LEMMA CallStepFacts ==
  ASSUME LeaderTypes, NEW o \in Op, NEW r \in CallOf, call' = [call EXCEPT ![o] = r]
  PROVE  call' \in [Op -> CallOf] /\ call'[o] = r /\ \A p \in Op : p # o => call'[p] = call[p]
  BY DEF LeaderTypes

(* The first entry of what is left to apply. *)
LEMMA HeadFacts ==
  ASSUME LeaderTypes, NEW o \in Op, call[o].todo # <<>>
  PROVE  /\ Head(call[o].todo) = call[o].todo[1] /\ Head(call[o].todo) \in Entries
         /\ Len(call[o].todo) \in Nat /\ 1 \in 1 .. Len(call[o].todo)
         /\ Tail(call[o].todo) \in Seq(Entries)
         /\ Len(Tail(call[o].todo)) = Len(call[o].todo) - 1
         /\ \A i \in 1 .. Len(call[o].todo) - 1 : Tail(call[o].todo)[i] = call[o].todo[i + 1]
<1> DEFINE s == call[o].todo
<1>1. s \in Seq(Entries) /\ s # <<>>
  BY CallFacts DEF LeaderTypes
<1> HIDE DEF s
<1>2. Len(s) \in Nat /\ Len(s) >= 1
  BY <1>1
<1>3. Head(s) = s[1] /\ s[1] \in Entries /\ Tail(s) \in Seq(Entries) /\ Len(Tail(s)) = Len(s) - 1
  BY <1>1, <1>2
<1>4. \A i \in 1 .. Len(s) - 1 : Tail(s)[i] = s[i + 1]
  BY <1>1, <1>2
<1>5. QED
  BY <1>1, <1>2, <1>3, <1>4 DEF s

(* The next index a follower gets is a number. *)
LEMMA NextForType == ASSUME LeaderTypes, NEW f \in Follower PROVE NextFor(f) \in Nat
  BY LastIndexType DEF LeaderTypes, NextFor

(* Collecting entries cuts a piece out of the log. *)
LEMMA CollectFacts ==
  ASSUME LeaderTypes, NEW o \in Op, CollectEntries(o)
  PROVE  \E s \in Seq(Entries) :
           /\ call' = [call EXCEPT ![o].todo = s]
           /\ \A i \in 1 .. Len(s) : \E j \in 1 .. Len(Logs) : s[i] = Logs[j]
<1> DEFINE m == Min({CommitIndex + 1, Len(Logs)})
           piece == SubSeq(Logs, LastApplied + 2, m)
<1>1. /\ Logs \in Seq(Entries) /\ Len(Logs) \in Nat /\ CommitIndex + 1 \in Nat
      /\ LastApplied + 2 \in Nat /\ LastApplied + 2 >= 1
  BY DEF LeaderTypes
<1>2. m \in {CommitIndex + 1, Len(Logs)} /\ m <= Len(Logs)
  BY <1>1, HasLeast
<1>3. m \in Nat
  BY <1>1, <1>2
<1> HIDE DEF m
<1>4. /\ piece \in Seq(Entries)
      /\ Len(piece) = IF LastApplied + 2 <= m THEN m - (LastApplied + 2) + 1 ELSE 0
      /\ \A i \in 1 .. Len(piece) : piece[i] = Logs[LastApplied + 2 + i - 1]
  <2> DEFINE k == LastApplied + 2
  <2>1. k \in Nat /\ k >= 1 /\ m \in Nat /\ m <= Len(Logs)
    BY <1>1, <1>2, <1>3
  <2> HIDE DEF k
  <2>2. SubSeq(Logs, k, m) \in Seq(Entries)
    BY <1>1, <2>1
  <2>3. Len(SubSeq(Logs, k, m)) = IF k <= m THEN m - k + 1 ELSE 0
    BY <1>1, <2>1
  <2>4. \A i \in 1 .. Len(SubSeq(Logs, k, m)) : SubSeq(Logs, k, m)[i] = Logs[k + i - 1]
    BY <1>1, <2>1
  <2>5. QED
    BY <2>2, <2>3, <2>4 DEF k
<1>5. \A i \in 1 .. Len(piece) : LastApplied + 2 + i - 1 \in 1 .. Len(Logs)
  BY <1>1, <1>2, <1>3, <1>4
<1>6. call' = [call EXCEPT ![o].todo = IF LastApplied >= CommitIndex THEN <<>> ELSE piece]
  BY DEF CollectEntries, m
<1> HIDE DEF piece
<1> DEFINE empty == <<>>
<1>7. empty \in Seq(Entries) /\ Len(empty) = 0
  OBVIOUS
<1> HIDE DEF empty
<1>8. call' = [call EXCEPT ![o].todo = empty] \/ call' = [call EXCEPT ![o].todo = piece]
  BY <1>6 DEF empty
<1>9. \A i \in 1 .. Len(empty) : \E j \in 1 .. Len(Logs) : empty[i] = Logs[j]
  BY <1>7
<1>10. QED
  BY <1>4, <1>5, <1>7, <1>8, <1>9

(* A request takes over the term read in the first section. *)
LEMMA SendFacts ==
  ASSUME NEW o \in Op, NEW f \in Follower, SendPreCommit(o, f)
  PROVE  \E r : /\ rpc' = [rpc EXCEPT ![o][f] = r]
                /\ r.step = "request" /\ r.term = rpc[o][f].term
<1> DEFINE next == rpc[o][f].next
           r == [step |-> "request", term |-> rpc[o][f].term, prev |-> next - 1,
                 prevTerm |-> IF next - 1 \in DOMAIN Logs THEN Logs[next - 1].term ELSE 0,
                 entries |-> Slice(next, call[o].index), commit |-> CommitIndex]
<1>1. rpc' = [rpc EXCEPT ![o][f] = r]
  BY DEF SendPreCommit
<1>2. r.step = "request" /\ r.term = rpc[o][f].term
  OBVIOUS
<1> HIDE DEF r
<1>3. QED
  BY <1>1, <1>2

(* An answer has the term the follower had before it adopted the request's. *)
LEMMA AnswerFacts ==
  ASSUME NEW o \in Op, NEW f \in Follower, FollowerAppend(o, f)
  PROVE  \E r : /\ rpc' = [rpc EXCEPT ![o][f] = r]
                /\ r.step = "reply" /\ r.term = fTerm[f]
<1> DEFINE q == rpc[o][f]
           ok == q.term >= fTerm[f] /\ (q.entries # <<>> => Consistent(fLogs[f], q))
           r == [step |-> "reply", success |-> ok, term |-> fTerm[f]]
<1>1. rpc' = [rpc EXCEPT ![o][f] = r]
  BY DEF FollowerAppend
<1> HIDE DEF ok
<1>2. r.step = "reply" /\ r.term = fTerm[f]
  OBVIOUS
<1> HIDE DEF r
<1>3. QED
  BY <1>1, <1>2

(* A reply moves the follower's next index behind the call's own, back by  *)
(* one but not below 1, or not at all.                                     *)
LEMMA ReplyNextFacts ==
  ASSUME LeaderTypes, NEW o \in Op, NEW f \in Follower, PreCommitReply(o, f)
  PROVE  \E x \in Nat : /\ NextIndex' = [NextIndex EXCEPT ![f] = x]
                        /\ \/ x = NextIndex[f] \/ x = call[o].index + 1
                           \/ x = 1 \/ x = NextIndex[f] - 1
<1> DEFINE i == call[o].index
           old == NextIndex[f]
           back == IF old > 1 THEN old - 1 ELSE 1
<1>1. i \in Nat /\ old \in Nat /\ NextIndex \in [Follower -> Nat]
  BY CallFacts DEF LeaderTypes
<1>2. \/ NextIndex' = [NextIndex EXCEPT ![f] = i + 1]
      \/ NextIndex' = NextIndex
      \/ NextIndex' = [NextIndex EXCEPT ![f] = back]
  BY DEF PreCommitReply
<1>3. NextIndex = [NextIndex EXCEPT ![f] = old]
  BY <1>1
<1> HIDE DEF i, old
<1>4. i + 1 \in Nat /\ back \in Nat /\ (back = 1 \/ back = old - 1)
  BY <1>1
<1> HIDE DEF back
<1>5. QED
  BY <1>1, <1>2, <1>3, <1>4 DEF i, old

(* Every step keeps the leader's variables in their ranges. *)
LEMMA LeaderTypesStep == LeaderTypes /\ WorkInv /\ [Next]_vars => LeaderTypes'
<1> SUFFICES ASSUME LeaderTypes, WorkInv, [Next]_vars PROVE LeaderTypes'
  OBVIOUS
<1> USE DEF leaderVars, storeVars, followerVars
<1>0. \A o \in Op : call[o] \in CallOf /\ call[o].index \in Nat
  BY CallFacts DEF LeaderTypes
<1>01. ASSUME OfficeChanges PROVE LeaderTypes'
  BY <1>01 DEF OfficeChanges, LeaderTypes
<1>02. ASSUME NEW o \in Op, Refuse(o) PROVE LeaderTypes'
  <2>1. pc' \in [Op -> Places]
    BY <1>02 DEF Refuse, LeaderTypes, Goto, Places
  <2>2. QED
    BY <1>02, <2>1 DEF Refuse, LeaderTypes
<1>1. ASSUME NEW o \in Op, ReadLastIndex(o) PROVE LeaderTypes'
  <2>1. LastIndex + 1 \in Nat
    BY LastIndexType
  <2>2. [call[o] EXCEPT !.index = LastIndex + 1] \in CallOf
    BY <1>0, <2>1, CallFacts
  <2>3. call' \in [Op -> CallOf]
    BY <1>1, <2>2 DEF ReadLastIndex, LeaderTypes
  <2>4. pc' \in [Op -> Places]
    BY <1>1 DEF ReadLastIndex, LeaderTypes, Goto, Places
  <2>5. QED
    BY <1>1, <2>3, <2>4 DEF ReadLastIndex, LeaderTypes
<1>2. ASSUME NEW o \in Op, ReadTerm(o) PROVE LeaderTypes'
  <2>1. [call[o] EXCEPT !.term = CurrentTerm] \in CallOf
    BY <1>0, CallFacts DEF LeaderTypes
  <2>2. call' \in [Op -> CallOf]
    BY <1>2, <2>1 DEF ReadTerm, LeaderTypes
  <2>3. pc' \in [Op -> Places]
    BY <1>2 DEF ReadTerm, LeaderTypes, Goto, Places
  <2>4. QED
    BY <1>2, <2>2, <2>3 DEF ReadTerm, LeaderTypes
<1>3. ASSUME NEW o \in Op, AppendLog(o) PROVE LeaderTypes'
  <2>1. pc' \in [Op -> Places]
    BY <1>3 DEF AppendLog, LeaderTypes, Goto, Places
  <2>2. [term |-> call[o].term, index |-> call[o].index, cmd |-> o] \in Entries
    BY <1>0, CallFacts, EntryFacts
  <2>3. Logs' \in Seq(Entries)
    BY <1>3, <2>2, LogWithType DEF AppendLog
  <2>4. QED
    BY <1>3, <2>1, <2>3 DEF AppendLog, LeaderTypes
<1>03. ASSUME NEW o \in Op, ReplicateLogs(o) PROVE LeaderTypes'
  <2>1. [call[o] EXCEPT !.count = 1] \in CallOf
    BY <1>0, CallFacts
  <2>2. call' \in [Op -> CallOf]
    BY <1>03, <2>1 DEF ReplicateLogs, LeaderTypes
  <2>3. pc' \in [Op -> Places]
    BY <1>03 DEF ReplicateLogs, LeaderTypes, Goto, Places
  <2>4. \/ rpc' = rpc
        \/ /\ DOMAIN rpc' = Op /\ rpc'[o] = [f \in Follower |-> [step |-> "start"]]
           /\ \A p \in Op : p # o => rpc'[p] = rpc[p]
    BY <1>03 DEF ReplicateLogs, LeaderTypes
  <2>5. RpcShape([step |-> "start"])
    BY DEF RpcShape, RpcSteps
  <2>6. /\ DOMAIN rpc' = Op
        /\ \A p \in Op : DOMAIN rpc'[p] = Follower /\ \A f \in Follower : RpcShape(rpc'[p][f])
    BY <2>4, <2>5 DEF LeaderTypes
  <2>7. QED
    BY <1>03, <2>2, <2>3, <2>6 DEF ReplicateLogs, LeaderTypes
<1>4. ASSUME NEW o \in Op, CountReplies(o) \/ CheckEntry(o) \/ CheckCommitted(o)
      PROVE  LeaderTypes'
  <2>1. pc' \in [Op -> Places]
    BY <1>4 DEF CountReplies, CheckEntry, CheckCommitted, LeaderTypes, Goto, Places
  <2>2. UNCHANGED <<leaderVars, storeVars, call, rpc, followerVars>>
    BY <1>4 DEF CountReplies, CheckEntry, CheckCommitted
  <2>3. QED
    BY <2>1, <2>2 DEF LeaderTypes
<1>5. ASSUME NEW o \in Op, CommitLog(o) PROVE LeaderTypes'
  <2>1. pc' \in [Op -> Places]
    BY <1>5 DEF CommitLog, LeaderTypes, Goto, Places
  <2>2. QED
    BY <1>0, <1>5, <2>1 DEF CommitLog, LeaderTypes
<1>6. ASSUME NEW o \in Op, CollectEntries(o) PROVE LeaderTypes'
  <2>1. PICK s \in Seq(Entries) : call' = [call EXCEPT ![o].todo = s]
    BY <1>6, CollectFacts
  <2>2. [call[o] EXCEPT !.todo = s] \in CallOf
    BY <1>0, CallFacts
  <2>3. call' \in [Op -> CallOf]
    BY <2>1, <2>2 DEF LeaderTypes
  <2>4. pc' \in [Op -> Places]
    BY <1>6 DEF CollectEntries, LeaderTypes, Goto, Places
  <2>5. QED
    BY <1>6, <2>3, <2>4 DEF CollectEntries, LeaderTypes
<1>7. ASSUME NEW o \in Op, ExecuteEntry(o) \/ PutAndAnswer(o) PROVE LeaderTypes'
  <2>1. pc' \in [Op -> Places]
    BY <1>7 DEF ExecuteEntry, PutAndAnswer, LeaderTypes, Goto, Places
  <2>2. DOMAIN data' = Key
    BY <1>7 DEF ExecuteEntry, PutAndAnswer, LeaderTypes
  <2>3. QED
    BY <1>7, <2>1, <2>2 DEF ExecuteEntry, PutAndAnswer, LeaderTypes
<1>8. ASSUME NEW o \in Op, RecordEntry(o) PROVE LeaderTypes'
  <2>1. pc' \in [Op -> Places]
    BY <1>8 DEF RecordEntry, LeaderTypes, Goto, Places
  <2>2. Head(call[o].todo).index \in Nat
    BY <1>8, HeadFacts, EntryFacts DEF RecordEntry, WorkInv
  <2>3. QED
    BY <1>8, <2>1, <2>2 DEF RecordEntry, LeaderTypes
<1>9. ASSUME NEW o \in Op, PassEntry(o) PROVE LeaderTypes'
  <2>1. pc' \in [Op -> Places]
    BY <1>9 DEF PassEntry, LeaderTypes, Goto, Places
  <2>2. Head(call[o].todo).index \in Nat /\ Tail(call[o].todo) \in Seq(Entries)
    BY <1>9, HeadFacts, EntryFacts DEF PassEntry, WorkInv
  <2>3. [call[o] EXCEPT !.todo = Tail(call[o].todo)] \in CallOf
    BY <1>0, <2>2, CallFacts
  <2>4. call' \in [Op -> CallOf]
    BY <1>9, <2>3 DEF PassEntry, LeaderTypes
  <2>5. QED
    BY <1>9, <2>1, <2>2, <2>4 DEF PassEntry, LeaderTypes
<1>10. ASSUME NEW o \in Op, NEW f \in Follower, StartPreCommit(o, f) PROVE LeaderTypes'
  <2> DEFINE r == [step |-> "slice", next |-> NextFor(f), term |-> CurrentTerm]
  <2>1. NextFor(f) \in Nat
    BY NextForType
  <2>2. RpcShape(r)
    BY <2>1 DEF RpcShape, RpcSteps, LeaderTypes
  <2>3. rpc' = [rpc EXCEPT ![o][f] = r]
    BY <1>10 DEF StartPreCommit
  <2> HIDE DEF r
  <2>4. DOMAIN rpc' = Op /\ \A p \in Op : /\ DOMAIN rpc'[p] = Follower
                                          /\ \A g \in Follower : RpcShape(rpc'[p][g])
    BY <2>2, <2>3, OneRpc
  <2>5. QED
    BY <1>10, <2>1, <2>4 DEF StartPreCommit, LeaderTypes
<1>11. ASSUME NEW o \in Op, NEW f \in Follower, SendPreCommit(o, f) PROVE LeaderTypes'
  <2>1. rpc[o][f].term \in Nat
    BY <1>11 DEF SendPreCommit, LeaderTypes, RpcShape
  <2>2. PICK r : /\ rpc' = [rpc EXCEPT ![o][f] = r]
                 /\ r.step = "request" /\ r.term = rpc[o][f].term
    BY <1>11, SendFacts
  <2>3. RpcShape(r)
    BY <2>1, <2>2 DEF RpcShape, RpcSteps
  <2>4. DOMAIN rpc' = Op /\ \A p \in Op : /\ DOMAIN rpc'[p] = Follower
                                          /\ \A g \in Follower : RpcShape(rpc'[p][g])
    BY <2>2, <2>3, OneRpc
  <2>5. QED
    BY <1>11, <2>4 DEF SendPreCommit, LeaderTypes
<1>12. ASSUME NEW o \in Op, NEW f \in Follower, FollowerAppend(o, f) PROVE LeaderTypes'
  <2>1. rpc[o][f].term \in Nat
    BY <1>12 DEF FollowerAppend, LeaderTypes, RpcShape
  <2>2. PICK r : /\ rpc' = [rpc EXCEPT ![o][f] = r]
                 /\ r.step = "reply" /\ r.term = fTerm[f]
    BY <1>12, AnswerFacts
  <2>3. RpcShape(r)
    BY <2>1, <2>2 DEF RpcShape, RpcSteps, LeaderTypes
  <2>4. DOMAIN rpc' = Op /\ \A p \in Op : /\ DOMAIN rpc'[p] = Follower
                                          /\ \A g \in Follower : RpcShape(rpc'[p][g])
    BY <2>2, <2>3, OneRpc
  <2>5. fTerm' \in [Follower -> Nat]
    BY <1>12, <2>1 DEF FollowerAppend, LeaderTypes
  <2>6. QED
    BY <1>12, <2>4, <2>5 DEF FollowerAppend, LeaderTypes
<1>13. ASSUME NEW o \in Op, NEW f \in Follower, PreCommitReply(o, f) PROVE LeaderTypes'
  <2>1. rpc[o][f].term \in Nat
    BY <1>13 DEF PreCommitReply, LeaderTypes, RpcShape
  <2>2. RpcShape([step |-> "done"])
    BY DEF RpcShape, RpcSteps
  <2>3. rpc' = [rpc EXCEPT ![o][f] = [step |-> "done"]]
    BY <1>13 DEF PreCommitReply
  <2>4. DOMAIN rpc' = Op /\ \A p \in Op : /\ DOMAIN rpc'[p] = Follower
                                          /\ \A g \in Follower : RpcShape(rpc'[p][g])
    BY <2>2, <2>3, OneRpc
  <2>5. [call[o] EXCEPT !.count = call[o].count + 1] \in CallOf
    <3>1. call[o].count + 1 \in Nat
      BY <1>0, CallFacts
    <3>2. QED
      BY <1>0, <3>1, CallFacts
  <2>6. call' \in [Op -> CallOf]
    BY <1>13, <2>5 DEF PreCommitReply, LeaderTypes
  <2>7. CurrentTerm' \in Nat
    BY <1>13, <2>1 DEF PreCommitReply, LeaderTypes
  <2>8. NextIndex' \in [Follower -> Nat]
    BY <1>13, ReplyNextFacts DEF LeaderTypes
  <2>9. MatchIndex' \in [Follower -> Nat]
    BY <1>0, <1>13 DEF PreCommitReply, LeaderTypes
  <2>10. QED
    BY <1>13, <2>4, <2>6, <2>7, <2>8, <2>9 DEF PreCommitReply, LeaderTypes
<1>14. CASE UNCHANGED vars
  BY <1>14 DEF vars, LeaderTypes
<1>15. QED
  BY <1>01, <1>02, <1>03, <1>1, <1>2, <1>3, <1>4, <1>5, <1>6, <1>7, <1>8, <1>9, <1>10, <1>11,
     <1>12, <1>13, <1>14 DEF Next, CallStep

(* A reply counts, and changes nothing else of the call. *)
LEMMA ReplyCallFacts ==
  ASSUME LeaderTypes, NEW o \in Op, NEW f \in Follower, PreCommitReply(o, f)
  PROVE  \A p \in Op : /\ call'[p].todo = call[p].todo /\ call'[p].index = call[p].index
                       /\ call'[p].term = call[p].term
<1>1. call' = call \/ call' = [call EXCEPT ![o].count = call[o].count + 1]
  BY DEF PreCommitReply
<1>2. call \in [Op -> CallOf]
  BY DEF LeaderTypes
<1>3. ASSUME NEW n, call' = [call EXCEPT ![o].count = n], NEW p \in Op
      PROVE  /\ call'[p].todo = call[p].todo /\ call'[p].index = call[p].index
             /\ call'[p].term = call[p].term
  <2>1. call[p] \in CallOf
    BY <1>2
  <2>2. CASE p # o
    BY <1>2, <1>3, <2>2
  <2>3. CASE p = o
    <3>1. call'[p] = [call[p] EXCEPT !.count = n]
      BY <1>2, <1>3, <2>3
    <3>2. QED
      BY <2>1, <3>1 DEF CallOf
  <2>4. QED
    BY <2>2, <2>3
<1>4. QED
  BY <1>1, <1>3

(* A step of one call that leaves the request goroutines alone. *)
LEMMA WorkStays ==
  ASSUME LeaderTypes, WorkInv, NEW o \in Op, rpc' = rpc,
         \A p \in Op : p # o => pc'[p] = pc[p] /\ call'[p].todo = call[p].todo,
         pc'[o] \in {"execute", "record", "applied"} => call'[o].todo # <<>>,
         pc'[o] = "execute" => Parses(Cmd(Head(call'[o].todo).cmd)),
         Appended(o) => Appended(o)'
  PROVE  WorkInv'
  BY DEF WorkInv, Appended

(* A step of one request goroutine that has been started. *)
LEMMA RpcWorkStays ==
  ASSUME LeaderTypes, WorkInv, NEW o \in Op, NEW f \in Follower, rpc[o][f].step # "none",
         \A p \in Op, g \in Follower : p # o \/ g # f => rpc'[p][g] = rpc[p][g],
         pc' = pc, \A p \in Op : call'[p].todo = call[p].todo
  PROVE  WorkInv'
  BY DEF WorkInv, Appended

(* Every step keeps calls and request goroutines in order. *)
LEMMA WorkStep == LeaderTypes /\ WorkInv /\ [Next]_vars => WorkInv'
<1> SUFFICES ASSUME LeaderTypes, WorkInv, [Next]_vars PROVE WorkInv'
  OBVIOUS
<1> USE DEF leaderVars, storeVars, followerVars
<1>01. ASSUME OfficeChanges PROVE WorkInv'
  BY <1>01 DEF OfficeChanges, WorkInv, Appended
<1>02. ASSUME NEW o \in Op, Refuse(o) PROVE WorkInv'
  <2>1. rpc' = rpc /\ call' = call /\ pc[o] = "idle"
    BY <1>02 DEF Refuse
  <2>2. pc'[o] = "refused" /\ \A p \in Op : p # o => pc'[p] = pc[p]
    BY <1>02 DEF Refuse, Goto, LeaderTypes
  <2>3. QED
    BY <2>1, <2>2, WorkStays DEF Appended
<1>1. ASSUME NEW o \in Op, ReadLastIndex(o) \/ ReadTerm(o) PROVE WorkInv'
  <2>1. /\ rpc' = rpc /\ \A p \in Op : p # o => call'[p] = call[p]
        /\ pc[o] \in {"idle", "term"}
    BY <1>1 DEF ReadLastIndex, ReadTerm, LeaderTypes
  <2>2. pc'[o] \in {"term", "append"} /\ \A p \in Op : p # o => pc'[p] = pc[p]
    BY <1>1 DEF ReadLastIndex, ReadTerm, Goto, LeaderTypes
  <2>3. QED
    BY <2>1, <2>2, WorkStays DEF Appended
<1>03. ASSUME NEW o \in Op, AppendLog(o) PROVE WorkInv'
  <2>1. rpc' = rpc /\ call' = call
    BY <1>03 DEF AppendLog
  <2>2. pc'[o] = "replicate" /\ \A p \in Op : p # o => pc'[p] = pc[p]
    BY <1>03 DEF AppendLog, Goto, LeaderTypes
  <2>3. QED
    BY <2>1, <2>2, WorkStays DEF Appended
<1>2. ASSUME NEW o \in Op, ReplicateLogs(o) PROVE WorkInv'
  <2>1. /\ \A p \in Op : p # o => call'[p] = call[p] /\ rpc'[p] = rpc[p]
        /\ pc'[o] \in {"commit", "wait", "failed"}
        /\ \A p \in Op : p # o => pc'[p] = pc[p]
    BY <1>2 DEF ReplicateLogs, Goto, LeaderTypes
  <2>2. QED
    BY <2>1 DEF WorkInv, Appended
<1>3. ASSUME NEW o \in Op, CountReplies(o) \/ CommitLog(o) \/ CheckCommitted(o)
      PROVE  WorkInv'
  <2>1. call' = call /\ rpc' = rpc /\ pc'[o] \in {"commit", "failed", "collect", "put"}
    BY <1>3 DEF CountReplies, CommitLog, CheckCommitted, Goto, LeaderTypes
  <2>2. \A p \in Op : p # o => pc'[p] = pc[p]
    BY <1>3 DEF CountReplies, CommitLog, CheckCommitted, Goto, LeaderTypes
  <2>3. QED
    BY <2>1, <2>2, WorkStays DEF Appended
<1>4. ASSUME NEW o \in Op, CollectEntries(o) PROVE WorkInv'
  <2>1. rpc' = rpc /\ pc'[o] = "apply" /\ \A p \in Op : p # o => call'[p] = call[p]
    BY <1>4 DEF CollectEntries, Goto, LeaderTypes
  <2>2. \A p \in Op : p # o => pc'[p] = pc[p]
    BY <1>4 DEF CollectEntries, Goto, LeaderTypes
  <2>3. QED
    BY <2>1, <2>2, WorkStays DEF Appended
<1>5. ASSUME NEW o \in Op, CheckEntry(o) PROVE WorkInv'
  <2>1. call' = call /\ rpc' = rpc /\ call[o].todo # <<>>
    BY <1>5 DEF CheckEntry
  <2>2. /\ pc'[o] \in {"applied", "failed", "execute"}
        /\ pc'[o] = "execute" => Parses(Cmd(Head(call[o].todo).cmd))
        /\ \A p \in Op : p # o => pc'[p] = pc[p]
    BY <1>5 DEF CheckEntry, Goto, LeaderTypes
  <2>3. QED
    BY <2>1, <2>2, WorkStays DEF Appended
<1>6. ASSUME NEW o \in Op, ExecuteEntry(o) \/ RecordEntry(o) PROVE WorkInv'
  <2>1. call' = call /\ rpc' = rpc /\ call[o].todo # <<>>
    BY <1>6 DEF ExecuteEntry, RecordEntry, WorkInv
  <2>2. pc'[o] \in {"record", "applied"} /\ \A p \in Op : p # o => pc'[p] = pc[p]
    BY <1>6 DEF ExecuteEntry, RecordEntry, Goto, LeaderTypes
  <2>3. QED
    BY <2>1, <2>2, WorkStays DEF Appended
<1>7. ASSUME NEW o \in Op, PassEntry(o) \/ PutAndAnswer(o) PROVE WorkInv'
  <2>1. rpc' = rpc /\ \A p \in Op : p # o => call'[p] = call[p]
    BY <1>7 DEF PassEntry, PutAndAnswer, LeaderTypes
  <2>2. pc'[o] \in {"apply", "acked"} /\ \A p \in Op : p # o => pc'[p] = pc[p]
    BY <1>7 DEF PassEntry, PutAndAnswer, Goto, LeaderTypes
  <2>3. QED
    BY <2>1, <2>2, WorkStays DEF Appended
<1>8. ASSUME NEW o \in Op, NEW f \in Follower,
             StartPreCommit(o, f) \/ SendPreCommit(o, f) \/ FollowerAppend(o, f)
      PROVE  WorkInv'
  <2>1. rpc[o][f].step # "none" /\ pc' = pc /\ call' = call
    BY <1>8 DEF StartPreCommit, SendPreCommit, FollowerAppend
  <2>2. \E r : rpc' = [rpc EXCEPT ![o][f] = r]
    BY <1>8, SendFacts, AnswerFacts DEF StartPreCommit
  <2>3. \A p \in Op, g \in Follower : p # o \/ g # f => rpc'[p][g] = rpc[p][g]
    BY <2>2 DEF LeaderTypes
  <2>4. QED
    BY <2>1, <2>3, RpcWorkStays
<1>9. ASSUME NEW o \in Op, NEW f \in Follower, PreCommitReply(o, f) PROVE WorkInv'
  <2>1. rpc[o][f].step # "none" /\ pc' = pc
    BY <1>9 DEF PreCommitReply
  <2>2. \A p \in Op : call'[p].todo = call[p].todo
    BY <1>9, ReplyCallFacts
  <2>3. \A p \in Op, g \in Follower : p # o \/ g # f => rpc'[p][g] = rpc[p][g]
    BY <1>9 DEF PreCommitReply, LeaderTypes
  <2>4. QED
    BY <2>1, <2>2, <2>3, RpcWorkStays
<1>10. CASE UNCHANGED vars
  BY <1>10 DEF vars, WorkInv, Appended
<1>11. QED
  BY <1>01, <1>02, <1>03, <1>1, <1>2, <1>3, <1>4, <1>5, <1>6, <1>7, <1>8, <1>9, <1>10
     DEF Next, CallStep

(* Types and order in every reachable state. *)
THEOREM WorkInvariant == Spec => [](LeaderTypes /\ WorkInv)
<1>1. Init => LeaderTypes
  <2> SUFFICES ASSUME Init PROVE LeaderTypes
    OBVIOUS
  <2> DEFINE empty == <<>>
             idle == [index |-> 0, term |-> 0, count |-> 0, todo |-> empty]
  <2>1. empty \in Seq(Entries)
    OBVIOUS
  <2> HIDE DEF empty
  <2>2. idle \in CallOf
    BY <2>1 DEF CallOf
  <2>3. Logs \in Seq(Entries) /\ call = [o \in Op |-> idle]
    BY <2>1 DEF Init, empty
  <2> HIDE DEF idle
  <2>4. call \in [Op -> CallOf]
    BY <2>2, <2>3
  <2>5. RpcShape([step |-> "none"])
    BY DEF RpcShape, RpcSteps
  <2>6. DOMAIN rpc = Op /\ \A o \in Op : /\ DOMAIN rpc[o] = Follower
                                         /\ \A f \in Follower : RpcShape(rpc[o][f])
    BY <2>5 DEF Init
  <2>7. QED
    BY <2>3, <2>4, <2>6, ReplicationConstants DEF Init, LeaderTypes, Places
<1>2. Init => WorkInv
  BY DEF Init, WorkInv, Appended
<1>3. QED
  BY <1>1, <1>2, LeaderTypesStep, WorkStep, PTL DEF Spec

----------------------------------------------------------------------------
(* What a read returns.                                                    *)

(* Only AppendLog touches the log. *)
LEMMA LogStep ==
  ASSUME [Next]_vars
  PROVE  Logs' = Logs \/ \E o \in Op : AppendLog(o)
  BY DEF Next, CallStep, vars, leaderVars, OfficeChanges, Refuse, ReadLastIndex, ReadTerm,
         ReplicateLogs, CountReplies, CommitLog, CollectEntries, CheckEntry, ExecuteEntry,
         RecordEntry, PassEntry, CheckCommitted, PutAndAnswer, StartPreCommit, SendPreCommit,
         FollowerAppend, PreCommitReply

(* Whatever is in the log, or about to be applied, comes from a call that  *)
(* has been made.                                                          *)
MadeInv ==
  /\ \A i \in 1 .. Len(Logs) : Made(Logs[i].cmd)
  /\ \A o \in Op : \A i \in 1 .. Len(call[o].todo) : Made(call[o].todo[i].cmd)

(* A call goes its way alone, and is never unmade. *)
LEMMA MadeStays ==
  ASSUME LeaderTypes, [Next]_vars, NEW o \in Op, Made(o)
  PROVE  Made(o)'
<1>1. ASSUME NEW p \in Op, Refuse(p) \/ ReadLastIndex(p) \/ CallStep(p) PROVE Made(o)'
  <2>1. CASE p # o
    BY <1>1, <2>1 DEF Made, Refuse, ReadLastIndex, CallStep, ReadTerm, AppendLog, ReplicateLogs,
       CountReplies, CommitLog, CollectEntries, CheckEntry, ExecuteEntry, RecordEntry,
       PassEntry, CheckCommitted, PutAndAnswer, Goto, LeaderTypes
  <2>2. CASE p = o
    BY <1>1, <2>2 DEF Made, Refuse, ReadLastIndex, CallStep, ReadTerm, AppendLog, ReplicateLogs,
       CountReplies, CommitLog, CollectEntries, CheckEntry, ExecuteEntry, RecordEntry,
       PassEntry, CheckCommitted, PutAndAnswer, Goto, LeaderTypes
  <2>3. QED
    BY <2>1, <2>2
<1>2. \/ \E p \in Op : Refuse(p) \/ ReadLastIndex(p) \/ CallStep(p)
      \/ pc' = pc
  BY DEF Next, vars, OfficeChanges, StartPreCommit, SendPreCommit, FollowerAppend, PreCommitReply
<1>3. QED
  BY <1>1, <1>2 DEF Made

(* The entries a call still has to apply change in two steps only. *)
LEMMA TodoStep ==
  ASSUME LeaderTypes, [Next]_vars
  PROVE  \/ \A p \in Op : call'[p].todo = call[p].todo
         \/ \E o \in Op : CollectEntries(o) \/ PassEntry(o)
<1>1. call \in [Op -> CallOf]
  BY DEF LeaderTypes
<1>2. ASSUME NEW o \in Op, NEW x,
             \/ call' = [call EXCEPT ![o].index = x]
             \/ call' = [call EXCEPT ![o].term = x]
             \/ call' = [call EXCEPT ![o].count = x],
             NEW p \in Op
      PROVE  call'[p].todo = call[p].todo
  <2>1. CASE p # o
    BY <1>1, <1>2, <2>1
  <2>2. CASE p = o
    <3>1. \/ call'[p] = [call[p] EXCEPT !.index = x]
          \/ call'[p] = [call[p] EXCEPT !.term = x]
          \/ call'[p] = [call[p] EXCEPT !.count = x]
      BY <1>1, <1>2, <2>2
    <3>2. call[p] \in CallOf
      BY <1>1
    <3>3. QED
      BY <3>1, <3>2 DEF CallOf
  <2>3. QED
    BY <2>1, <2>2
<1>3. ASSUME NEW o \in Op, ReadLastIndex(o) \/ ReadTerm(o) \/ ReplicateLogs(o)
      PROVE  \A p \in Op : call'[p].todo = call[p].todo
  <2>1. \/ call' = call
        \/ \E x : \/ call' = [call EXCEPT ![o].index = x]
                  \/ call' = [call EXCEPT ![o].term = x]
                  \/ call' = [call EXCEPT ![o].count = x]
    BY <1>3 DEF ReadLastIndex, ReadTerm, ReplicateLogs
  <2>2. QED
    BY <1>2, <2>1
<1>4. ASSUME NEW o \in Op, NEW f \in Follower, PreCommitReply(o, f)
      PROVE  \A p \in Op : call'[p].todo = call[p].todo
  BY <1>4, ReplyCallFacts
<1>5. \/ call' = call
      \/ \E o \in Op : ReadLastIndex(o) \/ ReadTerm(o) \/ ReplicateLogs(o)
      \/ \E o \in Op : CollectEntries(o) \/ PassEntry(o)
      \/ \E o \in Op, f \in Follower : PreCommitReply(o, f)
  BY DEF Next, CallStep, vars, OfficeChanges, Refuse, AppendLog, CountReplies, CommitLog,
         CheckEntry, ExecuteEntry, RecordEntry, CheckCommitted, PutAndAnswer, StartPreCommit,
         SendPreCommit, FollowerAppend
<1>6. QED
  BY <1>3, <1>4, <1>5

(* Every step keeps that: AppendLog adds the entry of its own call. *)
LEMMA MadeStep == LeaderTypes /\ WorkInv /\ MadeInv /\ [Next]_vars => MadeInv'
<1> SUFFICES ASSUME LeaderTypes, WorkInv, MadeInv, [Next]_vars PROVE MadeInv'
  OBVIOUS
<1> DEFINE Live(c) == pc'[c] \notin {"idle", "refused"}
<1>1. \A p \in Op : Made(p) => Live(p)
  BY MadeStays DEF Made
<1>2. Logs \in Seq(Entries) /\ call \in [Op -> CallOf]
  BY DEF LeaderTypes
<1>3. ASSUME NEW i \in 1 .. Len(Logs) PROVE Live(Logs[i].cmd)
  <2>1. Logs[i] \in Entries
    BY <1>2, <1>3
  <2>2. Logs[i].cmd \in Op /\ Made(Logs[i].cmd)
    BY <1>3, <2>1, EntryFacts DEF MadeInv
  <2>3. QED
    BY <1>1, <2>2
<1>4. ASSUME NEW o \in Op, NEW i \in 1 .. Len(call[o].todo) PROVE Live(call[o].todo[i].cmd)
  <2>1. call[o].todo \in Seq(Entries)
    BY <1>2, CallFacts
  <2>2. call[o].todo[i] \in Entries
    BY <1>4, <2>1
  <2>3. call[o].todo[i].cmd \in Op /\ Made(call[o].todo[i].cmd)
    BY <1>4, <2>2, EntryFacts DEF MadeInv
  <2>4. QED
    BY <1>1, <2>3
<1>5. \A i \in 1 .. Len(Logs') : Live(Logs'[i].cmd)
  <2>1. Logs' = Logs \/ \E o \in Op : AppendLog(o)
    BY LogStep
  <2>2. CASE Logs' = Logs
    BY <1>3, <2>2
  <2>3. ASSUME NEW o \in Op, AppendLog(o), NEW i \in 1 .. Len(Logs') PROVE Live(Logs'[i].cmd)
    <3> DEFINE e == [term |-> call[o].term, index |-> call[o].index, cmd |-> o]
    <3>1. e \in Entries /\ e.cmd = o
      BY CallFacts, EntryFacts DEF LeaderTypes
    <3>2. Logs' = LogWith(e) /\ Made(o)
      BY <2>3 DEF AppendLog, Made
    <3> HIDE DEF e
    <3>3. LogWith(e)[i] = e \/ \E j \in 1 .. Len(Logs) : LogWith(e)[i] = Logs[j]
      BY <2>3, <3>1, <3>2, LogWithType
    <3>4. Live(o)
      BY <1>1, <3>2
    <3>5. QED
      BY <1>3, <3>1, <3>2, <3>3, <3>4
  <2>4. QED
    BY <2>1, <2>2, <2>3
<1>6. \A o \in Op : \A i \in 1 .. Len(call'[o].todo) : Live(call'[o].todo[i].cmd)
  <2>1. CASE \A p \in Op : call'[p].todo = call[p].todo
    BY <1>4, <2>1
  <2>2. ASSUME NEW o \in Op, CollectEntries(o) \/ PassEntry(o),
               NEW p \in Op, NEW i \in 1 .. Len(call'[p].todo)
        PROVE  Live(call'[p].todo[i].cmd)
    <3>1. CASE p # o
      <4>1. call'[p] = call[p]
        BY <1>2, <2>2, <3>1 DEF CollectEntries, PassEntry
      <4>2. QED
        BY <1>4, <2>2, <4>1
    <3>2. CASE p = o /\ CollectEntries(o)
      <4>1. PICK s \in Seq(Entries) :
              /\ call' = [call EXCEPT ![o].todo = s]
              /\ \A k \in 1 .. Len(s) : \E j \in 1 .. Len(Logs) : s[k] = Logs[j]
        BY <3>2, CollectFacts
      <4>2. call'[o] = [call[o] EXCEPT !.todo = s] /\ call[o] \in CallOf
        BY <1>2, <4>1
      <4>3. call'[o].todo = s
        BY <4>2 DEF CallOf
      <4>4. \E j \in 1 .. Len(Logs) : s[i] = Logs[j]
        BY <2>2, <3>2, <4>1, <4>3
      <4>5. QED
        BY <1>3, <3>2, <4>3, <4>4
    <3>3. CASE p = o /\ PassEntry(o)
      <4> DEFINE s == call[o].todo
                 t == Tail(s)
      <4>1. call'[o] = [call[o] EXCEPT !.todo = t] /\ call[o] \in CallOf /\ s # <<>>
        BY <1>2, <3>3 DEF PassEntry, WorkInv
      <4>2. call'[o].todo = t
        BY <4>1 DEF CallOf
      <4>3. Len(s) \in Nat /\ Len(t) = Len(s) - 1 /\ \A k \in 1 .. Len(s) - 1 : t[k] = s[k + 1]
        BY <4>1, HeadFacts
      <4>4. \A k \in 1 .. Len(s) : Live(s[k].cmd)
        BY <1>4
      <4> HIDE DEF s, t
      <4>5. \A k \in 1 .. Len(t) : k + 1 \in 1 .. Len(s) /\ t[k] = s[k + 1]
        BY <4>3
      <4>6. \A k \in 1 .. Len(t) : Live(t[k].cmd)
        BY <4>4, <4>5
      <4>7. QED
        BY <2>2, <3>3, <4>2, <4>6
    <3>4. QED
      BY <2>2, <3>1, <3>2, <3>3
  <2>3. QED
    BY <2>1, <2>2, TodoStep
<1>7. QED
  BY <1>5, <1>6 DEF MadeInv, Made

(* In every reachable state. *)
LEMMA MadeInvariant == Spec => []MadeInv
<1>1. Init => MadeInv
  <2> SUFFICES ASSUME Init PROVE MadeInv
    OBVIOUS
  <2>1. Logs = <<>> /\ \A o \in Op : call[o].todo = <<>>
    BY DEF Init
  <2>2. Len(<<>>) = 0
    OBVIOUS
  <2>3. QED
    BY <2>1, <2>2 DEF MadeInv
<1>2. QED
  BY <1>1, MadeStep, WorkInvariant, PTL DEF Spec

(* A change of the store is a write of a call that has been made. *)
LEMMA StoreStep ==
  ASSUME LeaderTypes, WorkInv, MadeInv, [Next]_vars
  PROVE  \/ data' = data
         \/ \E c \in Op : \E k, v : /\ data' = [data EXCEPT ![k] = v]
                                    /\ Made(c) /\ <<k, v>> \in Writes(c)
<1>1. ASSUME NEW o \in Op, ExecuteEntry(o)
      PROVE  \E c \in Op : \E k, v : /\ data' = [data EXCEPT ![k] = v]
                                     /\ Made(c) /\ <<k, v>> \in Writes(c)
  <2> DEFINE c == Head(call[o].todo).cmd
  <2>1. call[o].todo # <<>> /\ Parses(Cmd(c))
    BY <1>1 DEF ExecuteEntry, WorkInv
  <2>2. c \in Op /\ Made(c)
    BY <2>1, HeadFacts, EntryFacts DEF MadeInv
  <2>3. data' = [data EXCEPT ![KeyIn(Cmd(c))] = ValueIn(Cmd(c))]
    BY <1>1 DEF ExecuteEntry
  <2> HIDE DEF c
  <2>4. <<KeyIn(Cmd(c)), ValueIn(Cmd(c))>> \in Writes(c)
    BY <2>1 DEF Writes
  <2>5. QED
    BY <2>2, <2>3, <2>4
<1>2. ASSUME NEW o \in Op, PutAndAnswer(o)
      PROVE  \E c \in Op : \E k, v : /\ data' = [data EXCEPT ![k] = v]
                                     /\ Made(c) /\ <<k, v>> \in Writes(c)
  <2>1. data' = [data EXCEPT ![KeyOf[o]] = ValueOf[o]] /\ Made(o)
    BY <1>2 DEF PutAndAnswer, Made
  <2>2. <<KeyOf[o], ValueOf[o]>> \in Writes(o)
    BY DEF Writes
  <2>3. QED
    BY <2>1, <2>2
<1>3. \/ \E o \in Op : ExecuteEntry(o) \/ PutAndAnswer(o)
      \/ data' = data
  BY DEF Next, CallStep, vars, storeVars, OfficeChanges, Refuse, ReadLastIndex, ReadTerm,
         AppendLog, ReplicateLogs, CountReplies, CommitLog, CollectEntries, CheckEntry,
         RecordEntry, PassEntry, CheckCommitted, StartPreCommit, SendPreCommit,
         FollowerAppend, PreCommitReply
<1>4. QED
  BY <1>1, <1>2, <1>3

(* A call is answered OK only right after its own write to the store. *)
LEMMA AckStep ==
  ASSUME LeaderTypes, [Next]_vars, NEW o \in Op, pc'[o] = "acked"
  PROVE  pc[o] = "acked" \/ data' = [data EXCEPT ![KeyOf[o]] = ValueOf[o]]
<1>1. ASSUME NEW p \in Op, Refuse(p) \/ ReadLastIndex(p) \/ CallStep(p), p # o
      PROVE  pc'[o] = pc[o]
  BY <1>1 DEF Refuse, ReadLastIndex, CallStep, ReadTerm, AppendLog, ReplicateLogs, CountReplies,
     CommitLog, CollectEntries, CheckEntry, ExecuteEntry, RecordEntry, PassEntry,
     CheckCommitted, PutAndAnswer, Goto, LeaderTypes
<1>2. ASSUME Refuse(o) \/ ReadLastIndex(o) \/ CallStep(o), ~PutAndAnswer(o)
      PROVE  pc'[o] # "acked"
  BY <1>2 DEF Refuse, ReadLastIndex, CallStep, ReadTerm, AppendLog, ReplicateLogs, CountReplies,
     CommitLog, CollectEntries, CheckEntry, ExecuteEntry, RecordEntry, PassEntry,
     CheckCommitted, Goto, LeaderTypes
<1>3. PutAndAnswer(o) => data' = [data EXCEPT ![KeyOf[o]] = ValueOf[o]]
  BY DEF PutAndAnswer
<1>4. \/ \E p \in Op : Refuse(p) \/ ReadLastIndex(p) \/ CallStep(p)
      \/ pc' = pc
  BY DEF Next, vars, OfficeChanges, StartPreCommit, SendPreCommit, FollowerAppend, PreCommitReply
<1>5. QED
  BY <1>1, <1>2, <1>3, <1>4

(* Once a write is answered OK, a read of its key returns what some call   *)
(* that has been made writes to that key, whatever the log has made of its *)
(* entry: for any concurrent calls, Deletes with a ':' in the key and      *)
(* commands that do not parse included.                                    *)
THEOREM AckedStaysVisible == Spec => []AckedVisible
<1>1. Init => AckedVisible
  BY DEF Init, AckedVisible
<1>2. LeaderTypes /\ WorkInv /\ MadeInv /\ AckedVisible /\ [Next]_vars => AckedVisible'
  <2> SUFFICES ASSUME LeaderTypes, WorkInv, MadeInv, AckedVisible, [Next]_vars, NEW o \in Op,
                      pc'[o] = "acked"
               PROVE  \E p \in Op : /\ pc'[p] \notin {"idle", "refused"}
                                    /\ <<KeyOf[o], data'[KeyOf[o]]>> \in Writes(p)
    BY DEF AckedVisible, Writes
  <2>0. \A p \in Op : Made(p) => pc'[p] \notin {"idle", "refused"}
    BY MadeStays DEF Made
  <2>1. DOMAIN data = Key /\ KeyOf[o] \in Key
    BY ReplicationConstants DEF LeaderTypes
  <2>2. CASE data' = [data EXCEPT ![KeyOf[o]] = ValueOf[o]]
    <3>1. data'[KeyOf[o]] = ValueOf[o]
      BY <2>1, <2>2
    <3>2. <<KeyOf[o], ValueOf[o]>> \in Writes(o)
      BY DEF Writes
    <3>3. QED
      BY <3>1, <3>2
  <2>3. CASE pc[o] = "acked"
    <3>1. PICK p \in Op : Made(p) /\ <<KeyOf[o], data[KeyOf[o]]>> \in Writes(p)
      BY <2>3 DEF AckedVisible, Made
    <3>2. CASE data'[KeyOf[o]] = data[KeyOf[o]]
      BY <2>0, <3>1, <3>2
    <3>3. ASSUME NEW c \in Op, NEW k, NEW v, data' = [data EXCEPT ![k] = v], Made(c),
                 <<k, v>> \in Writes(c), data'[KeyOf[o]] # data[KeyOf[o]]
          PROVE  <<KeyOf[o], data'[KeyOf[o]]>> \in Writes(c)
      <4>1. k = KeyOf[o] /\ data'[k] = v
        BY <2>1, <3>3
      <4>2. QED
        BY <3>3, <4>1
    <3>4. QED
      BY <2>0, <3>2, <3>3, StoreStep
  <2>4. QED
    BY <2>2, <2>3, AckStep
<1>3. QED
  BY <1>1, <1>2, WorkInvariant, MadeInvariant, PTL DEF Spec

----------------------------------------------------------------------------
(* Terms.                                                                  *)

(* No step brings a newer term in where none is known. *)
LEMMA SameTermStep == LeaderTypes /\ SameTermInv /\ [Next]_vars => SameTermInv'
<1> SUFFICES ASSUME LeaderTypes, SameTermInv, [Next]_vars PROVE SameTermInv'
  OBVIOUS
<1> USE DEF leaderVars, storeVars, followerVars
<1>0. LeaderTerm \in Nat
  BY ReplicationConstants
<1>1. ASSUME NEW o \in Op, ReplicateLogs(o) PROVE SameTermInv'
  <2>1. \A p \in Op, f \in Follower : rpc'[p][f] = rpc[p][f] \/ rpc'[p][f].step = "start"
    BY <1>1 DEF ReplicateLogs, LeaderTypes
  <2>2. CurrentTerm' = CurrentTerm /\ fTerm' = fTerm
    BY <1>1 DEF ReplicateLogs
  <2>3. QED
    BY <2>1, <2>2 DEF SameTermInv
<1>2. ASSUME NEW o \in Op, NEW f \in Follower, NEW r, rpc' = [rpc EXCEPT ![o][f] = r],
             r.step \in {"slice", "request", "reply"} => r.term <= LeaderTerm,
             CurrentTerm' = CurrentTerm, \A g \in Follower : fTerm'[g] <= LeaderTerm
      PROVE  SameTermInv'
  <2>1. \A p \in Op, g \in Follower : rpc'[p][g] = rpc[p][g] \/ rpc'[p][g] = r
    BY <1>2 DEF LeaderTypes
  <2>2. QED
    BY <1>2, <2>1 DEF SameTermInv
<1>3. ASSUME NEW o \in Op, NEW f \in Follower, StartPreCommit(o, f) PROVE SameTermInv'
  <2> DEFINE r == [step |-> "slice", next |-> NextFor(f), term |-> CurrentTerm]
  <2>1. rpc' = [rpc EXCEPT ![o][f] = r] /\ CurrentTerm' = CurrentTerm /\ fTerm' = fTerm
    BY <1>3 DEF StartPreCommit
  <2>2. r.term <= LeaderTerm
    BY <1>0 DEF SameTermInv
  <2> HIDE DEF r
  <2>3. QED
    BY <1>2, <2>1, <2>2 DEF SameTermInv
<1>4. ASSUME NEW o \in Op, NEW f \in Follower, SendPreCommit(o, f) PROVE SameTermInv'
  <2>1. PICK r : rpc' = [rpc EXCEPT ![o][f] = r] /\ r.term = rpc[o][f].term
    BY <1>4, SendFacts
  <2>2. CurrentTerm' = CurrentTerm /\ fTerm' = fTerm /\ rpc[o][f].step = "slice"
    BY <1>4 DEF SendPreCommit
  <2>3. QED
    BY <1>2, <2>1, <2>2 DEF SameTermInv
<1>5. ASSUME NEW o \in Op, NEW f \in Follower, FollowerAppend(o, f) PROVE SameTermInv'
  <2>1. PICK r : rpc' = [rpc EXCEPT ![o][f] = r] /\ r.term = fTerm[f]
    BY <1>5, AnswerFacts
  <2>2. CurrentTerm' = CurrentTerm /\ rpc[o][f].step = "request"
    BY <1>5 DEF FollowerAppend
  <2>3. rpc[o][f].term <= LeaderTerm
    BY <2>2 DEF SameTermInv
  <2>4. \A g \in Follower : fTerm'[g] = fTerm[g] \/ fTerm'[g] = rpc[o][f].term
    BY <1>5 DEF FollowerAppend, LeaderTypes
  <2>5. QED
    BY <1>2, <2>1, <2>2, <2>3, <2>4 DEF SameTermInv
<1>6. ASSUME NEW o \in Op, NEW f \in Follower, PreCommitReply(o, f) PROVE SameTermInv'
  <2>1. rpc[o][f].step = "reply" /\ rpc[o][f].term \in Nat /\ CurrentTerm \in Nat
    BY <1>6 DEF PreCommitReply, LeaderTypes, RpcShape
  <2>2. ~(rpc[o][f].term > CurrentTerm)
    BY <1>0, <2>1 DEF SameTermInv
  <2>3. CurrentTerm' = CurrentTerm /\ fTerm' = fTerm
    BY <1>6, <2>2 DEF PreCommitReply
  <2> DEFINE r == [step |-> "done"]
  <2>4. rpc' = [rpc EXCEPT ![o][f] = r] /\ r.step = "done"
    BY <1>6 DEF PreCommitReply
  <2> HIDE DEF r
  <2>5. QED
    BY <1>2, <2>3, <2>4 DEF SameTermInv
<1>7. ASSUME UNCHANGED <<CurrentTerm, rpc, fTerm>> PROVE SameTermInv'
  BY <1>7 DEF SameTermInv
<1>8. \/ \E o \in Op : ReplicateLogs(o)
      \/ \E o \in Op, f \in Follower : \/ StartPreCommit(o, f) \/ SendPreCommit(o, f)
                                       \/ FollowerAppend(o, f) \/ PreCommitReply(o, f)
      \/ UNCHANGED <<CurrentTerm, rpc, fTerm>>
  BY DEF Next, CallStep, vars, OfficeChanges, Refuse, ReadLastIndex, ReadTerm, AppendLog,
         CountReplies, CommitLog, CollectEntries, CheckEntry, ExecuteEntry, RecordEntry,
         PassEntry, CheckCommitted, PutAndAnswer
<1>9. QED
  BY <1>1, <1>3, <1>4, <1>5, <1>6, <1>7, <1>8

(* The leader's term never goes back, and only a reply moves it. *)
LEMMA TermGrows ==
  ASSUME LeaderTypes, [Next]_vars
  PROVE  CurrentTerm' \in Nat /\ CurrentTerm' >= CurrentTerm
<1>1. ASSUME NEW o \in Op, NEW f \in Follower, PreCommitReply(o, f)
      PROVE  CurrentTerm' \in Nat /\ CurrentTerm' >= CurrentTerm
  <2>1. rpc[o][f].term \in Nat /\ CurrentTerm \in Nat
    BY <1>1 DEF PreCommitReply, LeaderTypes, RpcShape
  <2>2. CurrentTerm' = CurrentTerm \/ (CurrentTerm' = rpc[o][f].term /\ rpc[o][f].term > CurrentTerm)
    BY <1>1 DEF PreCommitReply
  <2>3. QED
    BY <2>1, <2>2
<1>2. CurrentTerm' = CurrentTerm \/ \E o \in Op, f \in Follower : PreCommitReply(o, f)
  BY DEF Next, CallStep, vars, leaderVars, OfficeChanges, Refuse, ReadLastIndex, ReadTerm,
         AppendLog, ReplicateLogs, CountReplies, CommitLog, CollectEntries, CheckEntry, ExecuteEntry, RecordEntry, PassEntry,
         CheckCommitted, PutAndAnswer, StartPreCommit, SendPreCommit, FollowerAppend
<1>3. QED
  BY <1>1, <1>2 DEF LeaderTypes

----------------------------------------------------------------------------
(* Indexes while the term stands.                                          *)

(* In a log without gaps the last index is its length. *)
LEMMA LastIndexIsLength ==
  ASSUME LeaderTypes, IndexesWithinLog
  PROVE  LastIndex = Len(Logs) /\ Len(Logs) \in Nat
<1>1. Logs \in Seq(Entries) /\ Len(Logs) \in Nat
  BY DEF LeaderTypes
<1>2. CASE Logs = <<>>
  BY <1>1, <1>2 DEF LastIndex
<1>3. CASE Logs # <<>>
  <2>1. Len(Logs) \in DOMAIN Logs
    BY <1>1, <1>3
  <2>2. Logs[Len(Logs)].index = Len(Logs)
    BY <2>1 DEF IndexesWithinLog
  <2>3. QED
    BY <1>1, <1>3, <2>2 DEF LastIndex
<1>4. QED
  BY <1>2, <1>3

(* AppendLog in the leader's first term: an index within the log is taken  *)
(* for a repetition, the next one is added, and nothing is cut.            *)
LEMMA AppendInTerm ==
  ASSUME LeaderTypes, IndexesWithinLog, \A i \in 1 .. Len(Logs) : Logs[i].term = LeaderTerm,
         NEW e \in Entries, e.term = LeaderTerm, e.index \in 1 .. Len(Logs) + 1
  PROVE  \/ LogWith(e) = Logs /\ e.index <= Len(Logs)
         \/ LogWith(e) = Append(Logs, e) /\ e.index = Len(Logs) + 1
<1>1. Logs \in Seq(Entries) /\ Len(Logs) \in Nat /\ DOMAIN Logs = 1 .. Len(Logs)
  BY DEF LeaderTypes
<1>2. \A i \in 1 .. Len(Logs) : Logs[i].index = i
  BY <1>1 DEF IndexesWithinLog
<1>3. CASE e.index = Len(Logs) + 1
  <2>1. SameIndex(e.index) = {}
    BY <1>1, <1>2, <1>3 DEF SameIndex
  <2>2. QED
    BY <1>3, <2>1 DEF LogWith
<1>4. CASE e.index # Len(Logs) + 1
  <2>1. e.index \in 1 .. Len(Logs)
    BY <1>1, <1>4
  <2>2. SameIndex(e.index) = {e.index}
    BY <1>1, <1>2, <2>1 DEF SameIndex
  <2>3. Min({e.index}) = e.index
    <3>1. {e.index} \subseteq Nat /\ {e.index} # {}
      BY <2>1
    <3>2. QED
      BY <3>1, HasLeast
  <2>4. LogWith(e) = Logs
    BY <2>1, <2>2, <2>3 DEF LogWith
  <2>5. e.index <= Len(Logs)
    BY <1>1, <2>1
  <2>6. QED
    BY <2>4, <2>5
<1>5. QED
  BY <1>3, <1>4

(* What AppendLog does to the log while the term stands. *)
LEMMA AppendLogInTerm ==
  ASSUME LeaderTypes, StandsInv, CurrentTerm = LeaderTerm, NEW o \in Op, AppendLog(o)
  PROVE  \/ Logs' = Logs /\ call[o].index <= Len(Logs)
         \/ \E e \in Entries : /\ Logs' = Append(Logs, e) /\ e.term = LeaderTerm
                               /\ e.index = Len(Logs) + 1 /\ call[o].index = Len(Logs) + 1
<1> DEFINE e == [term |-> call[o].term, index |-> call[o].index, cmd |-> o]
<1>1. e \in Entries /\ e.term = call[o].term /\ e.index = call[o].index
  BY CallFacts, EntryFacts DEF LeaderTypes
<1>2. CallFits(o) /\ pc[o] = "append"
  BY DEF StandsInv, AppendLog
<1>3. Logs' = LogWith(e)
  BY DEF AppendLog
<1> HIDE DEF e
<1>4. e.term = LeaderTerm /\ e.index \in 1 .. Len(Logs) + 1
  BY <1>1, <1>2 DEF CallFits, Made
<1>5. \/ LogWith(e) = Logs /\ e.index <= Len(Logs)
      \/ LogWith(e) = Append(Logs, e) /\ e.index = Len(Logs) + 1
  BY <1>1, <1>4, AppendInTerm DEF StandsInv
<1>6. QED
  BY <1>1, <1>3, <1>4, <1>5

(* A log that does not get shorter still has room for the other calls. *)
LEMMA OthersFit ==
  ASSUME LeaderTypes, LeaderTypes', Len(Logs') >= Len(Logs), NEW p \in Op, CallFits(p),
         pc'[p] = pc[p], call'[p].index = call[p].index, call'[p].term = call[p].term,
         call'[p].todo = call[p].todo
  PROVE  CallFits(p)'
<1> DEFINE n == Len(Logs)
           m == Len(Logs')
           i == call[p].index
           s == call[p].todo
<1>1. n \in Nat /\ m \in Nat /\ m >= n /\ i \in Nat /\ s \in Seq(Entries)
  BY CallFacts DEF LeaderTypes
<1>2. \A j \in 1 .. Len(s) : s[j].index \in Nat
  BY <1>1, EntryFacts
<1>3. /\ Made(p) => i \in 1 .. n + 1
      /\ Appended(p) => i <= n
      /\ \A j \in 1 .. Len(s) : s[j].index <= n
  BY DEF CallFits
<1>4. pc[p] = "append" => call[p].term = LeaderTerm
  BY DEF CallFits
<1> HIDE DEF n, m, i, s
<1>5. /\ Made(p) => i \in 1 .. m + 1
      /\ Appended(p) => i <= m
      /\ \A j \in 1 .. Len(s) : s[j].index <= m
  BY <1>1, <1>2, <1>3
<1>6. QED
  BY <1>4, <1>5 DEF CallFits, Made, Appended, m, i, s

(* Nor does any index point beyond it. *)
LEMMA IndexesFit ==
  ASSUME LeaderTypes, LeaderTypes', IndexesWithinLog, Logs' = Logs,
         CommitIndex' <= Len(Logs), LastApplied' <= Len(Logs), lastAppliedIndex' <= Len(Logs),
         \A f \in Follower : MatchIndex'[f] <= Len(Logs) /\ NextIndex'[f] <= Len(Logs) + 1
  PROVE  IndexesWithinLog'
  BY DEF IndexesWithinLog

(* A step that leaves the log alone. *)
LEMMA StandsStays ==
  ASSUME LeaderTypes, LeaderTypes', StandsInv, NEW o \in Op, Logs' = Logs,
         CurrentTerm' = CurrentTerm,
         CurrentTerm = LeaderTerm =>
           /\ CommitIndex' <= Len(Logs) /\ LastApplied' <= Len(Logs)
           /\ lastAppliedIndex' <= Len(Logs)
           /\ \A f \in Follower : MatchIndex'[f] <= Len(Logs) /\ NextIndex'[f] <= Len(Logs) + 1,
         \A p \in Op : p # o => pc'[p] = pc[p] /\ call'[p] = call[p],
         CurrentTerm = LeaderTerm => CallFits(o)'
  PROVE  StandsInv'
<1> SUFFICES ASSUME CurrentTerm = LeaderTerm PROVE StandsInv'
  BY DEF StandsInv
<1>1. IndexesWithinLog'
  BY IndexesFit DEF StandsInv
<1>2. Len(Logs') >= Len(Logs)
  BY DEF LeaderTypes
<1>3. ASSUME NEW p \in Op, p # o PROVE CallFits(p)'
  BY <1>2, <1>3, OthersFit DEF StandsInv
<1>4. QED
  BY <1>1, <1>3 DEF StandsInv

(* What StandsInv says of the indexes. *)
LEMMA StandsIndexes ==
  ASSUME StandsInv, CurrentTerm = LeaderTerm
  PROVE  /\ CommitIndex <= Len(Logs) /\ LastApplied <= Len(Logs)
         /\ lastAppliedIndex <= Len(Logs)
         /\ \A f \in Follower : MatchIndex[f] <= Len(Logs) /\ NextIndex[f] <= Len(Logs) + 1
  BY DEF StandsInv, IndexesWithinLog

(* Every step of a call keeps the indexes within the log. *)
LEMMA StandsCallStep ==
  ASSUME LeaderTypes, LeaderTypes', WorkInv, StandsInv, NEW o \in Op,
         Refuse(o) \/ ReadLastIndex(o) \/ CallStep(o)
  PROVE  StandsInv'
<1> USE DEF leaderVars, storeVars, followerVars
<1>0. /\ call[o] \in CallOf /\ call[o].index \in Nat /\ call[o].todo \in Seq(Entries)
      /\ Logs \in Seq(Entries) /\ Len(Logs) \in Nat /\ call \in [Op -> CallOf]
  BY CallFacts DEF LeaderTypes
<1>1. CurrentTerm = LeaderTerm => CallFits(o)
  BY DEF StandsInv
<1>02. CASE Refuse(o)
  <2>1. /\ Logs' = Logs /\ CurrentTerm' = CurrentTerm /\ UNCHANGED <<leaderVars, storeVars>>
        /\ call' = call
    BY <1>02 DEF Refuse
  <2>2. pc'[o] = "refused" /\ \A p \in Op : p # o => pc'[p] = pc[p]
    BY <1>02 DEF Refuse, Goto, LeaderTypes
  <2>3. CurrentTerm = LeaderTerm => CallFits(o)'
    BY <1>1, <2>1, <2>2 DEF CallFits, Made, Appended
  <2>4. QED
    BY <2>1, <2>2, <2>3, StandsStays, StandsIndexes
<1>03. CASE ReplicateLogs(o)
  <2>1. /\ Logs' = Logs /\ CurrentTerm' = CurrentTerm /\ UNCHANGED <<leaderVars, storeVars>>
        /\ \A p \in Op : p # o => call'[p] = call[p]
    BY <1>03 DEF ReplicateLogs, LeaderTypes
  <2>2. /\ pc[o] = "replicate" /\ pc'[o] \in {"commit", "wait", "failed"}
        /\ \A p \in Op : p # o => pc'[p] = pc[p]
    BY <1>03 DEF ReplicateLogs, Goto, LeaderTypes
  <2>3. call'[o] = call[o] \/ call'[o] = [call[o] EXCEPT !.count = 1]
    BY <1>0, <1>03 DEF ReplicateLogs
  <2>4. call'[o].index = call[o].index /\ call'[o].todo = call[o].todo
    BY <1>0, <2>3 DEF CallOf
  <2>5. CurrentTerm = LeaderTerm => CallFits(o)'
    BY <1>1, <2>1, <2>2, <2>4 DEF CallFits, Made, Appended
  <2>6. QED
    BY <2>1, <2>2, <2>5, StandsStays, StandsIndexes
<1>2. CASE ReadLastIndex(o)
  <2>1. /\ Logs' = Logs /\ CurrentTerm' = CurrentTerm /\ UNCHANGED <<leaderVars, storeVars>>
        /\ \A p \in Op : p # o => call'[p] = call[p]
    BY <1>2 DEF ReadLastIndex, LeaderTypes
  <2>2. pc'[o] = "term" /\ \A p \in Op : p # o => pc'[p] = pc[p]
    BY <1>2 DEF ReadLastIndex, Goto, LeaderTypes
  <2>3. call'[o] = [call[o] EXCEPT !.index = LastIndex + 1]
    BY <1>0, <1>2 DEF ReadLastIndex
  <2>4. call'[o].index = LastIndex + 1 /\ call'[o].todo = call[o].todo
    BY <1>0, <2>3 DEF CallOf
  <2>5. ASSUME CurrentTerm = LeaderTerm PROVE CallFits(o)'
    <3>1. LastIndex = Len(Logs)
      BY <2>5, LastIndexIsLength DEF StandsInv
    <3>2. call'[o].index \in 1 .. Len(Logs) + 1
      BY <1>0, <2>4, <3>1
    <3>3. QED
      BY <1>1, <2>1, <2>2, <2>4, <2>5, <3>2 DEF CallFits, Made, Appended
  <2>6. QED
    BY <2>1, <2>2, <2>5, StandsStays, StandsIndexes
<1>3. CASE ReadTerm(o)
  <2>1. /\ Logs' = Logs /\ CurrentTerm' = CurrentTerm /\ UNCHANGED <<leaderVars, storeVars>>
        /\ \A p \in Op : p # o => call'[p] = call[p]
    BY <1>3 DEF ReadTerm, LeaderTypes
  <2>2. /\ pc[o] = "term" /\ pc'[o] = "append" /\ \A p \in Op : p # o => pc'[p] = pc[p]
    BY <1>3 DEF ReadTerm, Goto, LeaderTypes
  <2>3. call'[o] = [call[o] EXCEPT !.term = CurrentTerm]
    BY <1>0, <1>3 DEF ReadTerm
  <2>4. /\ call'[o].index = call[o].index /\ call'[o].todo = call[o].todo
        /\ call'[o].term = CurrentTerm
    BY <1>0, <2>3 DEF CallOf
  <2>5. CurrentTerm = LeaderTerm => CallFits(o)'
    BY <1>1, <2>1, <2>2, <2>4 DEF CallFits, Made, Appended
  <2>6. QED
    BY <2>1, <2>2, <2>5, StandsStays, StandsIndexes
<1>4. CASE AppendLog(o)
  <2>1. /\ CurrentTerm' = CurrentTerm
        /\ UNCHANGED <<CommitIndex, LastApplied, lastAppliedIndex, NextIndex, MatchIndex>>
        /\ \A p \in Op : p # o => call'[p] = call[p]
    BY <1>4 DEF AppendLog
  <2>2. /\ pc'[o] = "replicate" /\ pc[o] = "append"
        /\ \A p \in Op : p # o => pc'[p] = pc[p]
    BY <1>4 DEF AppendLog, Goto, LeaderTypes
  <2>4. call'[o].index = call[o].index /\ call'[o].todo = call[o].todo
    BY <1>4 DEF AppendLog
  <2> SUFFICES ASSUME CurrentTerm = LeaderTerm PROVE StandsInv'
    BY <2>1 DEF StandsInv
  <2>5. CASE Logs' = Logs /\ call[o].index <= Len(Logs)
    <3>1. CallFits(o)'
      BY <1>1, <2>2, <2>4, <2>5 DEF CallFits, Made, Appended
    <3>2. QED
      BY <2>1, <2>2, <2>5, <3>1, StandsStays, StandsIndexes
  <2>6. ASSUME NEW e \in Entries, Logs' = Append(Logs, e), e.term = LeaderTerm,
               e.index = Len(Logs) + 1, call[o].index = Len(Logs) + 1
        PROVE  StandsInv'
    <3> DEFINE n == Len(Logs)
               new == Append(Logs, e)
    <3>1. /\ n \in Nat /\ Len(new) = n + 1 /\ new[n + 1] = e /\ DOMAIN new = 1 .. n + 1
          /\ DOMAIN Logs = 1 .. n /\ \A i \in 1 .. n : new[i] = Logs[i]
      BY <1>0
    <3>2. new = Logs' /\ n = Len(Logs)
      BY <2>6
    <3> HIDE DEF n, new
    <3>3. \A i \in 1 .. n + 1 : i \in 1 .. n \/ i = n + 1
      BY <3>1
    <3>4. \A i \in 1 .. n + 1 : new[i].index = i /\ new[i].term = LeaderTerm
      BY <2>6, <3>1, <3>2, <3>3 DEF StandsInv, IndexesWithinLog
    <3>5. /\ CommitIndex \in Nat /\ LastApplied \in Nat /\ lastAppliedIndex \in Nat
          /\ \A f \in Follower : MatchIndex[f] \in Nat /\ NextIndex[f] \in Nat
      BY DEF LeaderTypes
    <3>6. /\ CommitIndex <= n /\ LastApplied <= n /\ lastAppliedIndex <= n
          /\ \A f \in Follower : MatchIndex[f] <= n /\ NextIndex[f] <= n + 1
      BY <3>2, StandsIndexes
    <3>7. /\ CommitIndex <= n + 1 /\ LastApplied <= n + 1 /\ lastAppliedIndex <= n + 1
          /\ \A f \in Follower : MatchIndex[f] <= n + 1 /\ NextIndex[f] <= n + 1 + 1
      BY <3>1, <3>5, <3>6
    <3>8. IndexesWithinLog'
      BY <2>1, <3>1, <3>2, <3>4, <3>7 DEF IndexesWithinLog
    <3>9. Len(Logs') >= Len(Logs)
      BY <3>1, <3>2
    <3>10. ASSUME NEW p \in Op, p # o PROVE CallFits(p)'
      BY <2>1, <2>2, <3>9, <3>10, OthersFit DEF StandsInv
    <3>11. CallFits(o)'
      <4> DEFINE s == call[o].todo
      <4>1. \A j \in 1 .. Len(s) : s[j].index \in Nat /\ s[j].index <= n
        BY <1>0, <1>1, <3>2, EntryFacts DEF CallFits
      <4>2. s = call'[o].todo
        BY <2>4
      <4> HIDE DEF s
      <4>3. \A j \in 1 .. Len(s) : s[j].index <= n + 1
        BY <3>1, <4>1
      <4>4. call'[o].index = n + 1 /\ n + 1 \in 1 .. n + 1 + 1 /\ n + 1 <= n + 1
        BY <2>4, <2>6, <3>1, <3>2
      <4>5. Len(Logs') = n + 1
        BY <3>1, <3>2
      <4>6. QED
        BY <2>2, <4>2, <4>3, <4>4, <4>5 DEF CallFits, Made, Appended
    <3>12. QED
      BY <2>1, <3>1, <3>2, <3>4, <3>8, <3>10, <3>11 DEF StandsInv
  <2>7. QED
    BY <1>4, <2>5, <2>6, AppendLogInTerm
<1>5. CASE CountReplies(o) \/ CheckEntry(o) \/ CheckCommitted(o) \/ ExecuteEntry(o) \/ PutAndAnswer(o)
  <2>1. /\ Logs' = Logs /\ CurrentTerm' = CurrentTerm /\ call' = call /\ lastAppliedIndex' = lastAppliedIndex
        /\ UNCHANGED leaderVars
    BY <1>5 DEF CountReplies, CheckEntry, CheckCommitted, ExecuteEntry, PutAndAnswer
  <2>2. /\ pc'[o] \notin {"idle", "refused", "term", "append"}
        /\ pc[o] \notin {"idle", "refused", "term", "append"}
        /\ \A p \in Op : p # o => pc'[p] = pc[p]
    BY <1>5 DEF CountReplies, CheckEntry, CheckCommitted, ExecuteEntry, PutAndAnswer, Goto,
                LeaderTypes
  <2>3. CurrentTerm = LeaderTerm => CallFits(o)'
    BY <1>1, <2>1, <2>2 DEF CallFits, Made, Appended
  <2>4. QED
    BY <2>1, <2>2, <2>3, StandsStays, StandsIndexes
<1>6. CASE CommitLog(o)
  <2>1. /\ Logs' = Logs /\ CurrentTerm' = CurrentTerm /\ call' = call
        /\ UNCHANGED <<LastApplied, lastAppliedIndex, NextIndex, MatchIndex>>
        /\ CommitIndex' = call[o].index
    BY <1>6 DEF CommitLog
  <2>2. /\ pc'[o] = "collect" /\ pc[o] = "commit" /\ \A p \in Op : p # o => pc'[p] = pc[p]
    BY <1>6 DEF CommitLog, Goto, LeaderTypes
  <2>3. CurrentTerm = LeaderTerm => CallFits(o)' /\ CommitIndex' <= Len(Logs)
    BY <1>1, <2>1, <2>2 DEF CallFits, Made, Appended
  <2>4. QED
    BY <2>1, <2>2, <2>3, StandsStays, StandsIndexes
<1>7. CASE CollectEntries(o)
  <2>1. PICK s \in Seq(Entries) :
          /\ call' = [call EXCEPT ![o].todo = s]
          /\ \A i \in 1 .. Len(s) : \E j \in 1 .. Len(Logs) : s[i] = Logs[j]
    BY <1>7, CollectFacts
  <2>2. /\ Logs' = Logs /\ CurrentTerm' = CurrentTerm /\ UNCHANGED <<leaderVars, storeVars>>
        /\ \A p \in Op : p # o => call'[p] = call[p]
    BY <1>7 DEF CollectEntries, LeaderTypes
  <2>3. /\ pc'[o] = "apply" /\ pc[o] = "collect" /\ \A p \in Op : p # o => pc'[p] = pc[p]
    BY <1>7 DEF CollectEntries, Goto, LeaderTypes
  <2>4. call'[o] = [call[o] EXCEPT !.todo = s]
    BY <1>0, <2>1
  <2>5. call'[o].index = call[o].index /\ call'[o].todo = s
    BY <1>0, <2>4 DEF CallOf
  <2>6. CurrentTerm = LeaderTerm => \A i \in 1 .. Len(s) : s[i].index <= Len(Logs)
    <3>1. CurrentTerm = LeaderTerm => \A j \in 1 .. Len(Logs) : Logs[j].index = j
      BY <1>0 DEF StandsInv, IndexesWithinLog
    <3>2. \A j \in 1 .. Len(Logs) : j <= Len(Logs)
      BY <1>0
    <3>3. QED
      BY <2>1, <3>1, <3>2
  <2>7. CurrentTerm = LeaderTerm => CallFits(o)'
    BY <1>1, <2>2, <2>3, <2>5, <2>6 DEF CallFits, Made, Appended
  <2>8. QED
    BY <2>2, <2>3, <2>7, StandsStays, StandsIndexes
<1>8. CASE RecordEntry(o)
  <2>1. /\ Logs' = Logs /\ CurrentTerm' = CurrentTerm /\ call' = call /\ UNCHANGED leaderVars
        /\ lastAppliedIndex' = Head(call[o].todo).index /\ call[o].todo # <<>>
    BY <1>8 DEF RecordEntry, WorkInv
  <2>2. /\ pc'[o] = "applied" /\ pc[o] = "record" /\ \A p \in Op : p # o => pc'[p] = pc[p]
    BY <1>8 DEF RecordEntry, Goto, LeaderTypes
  <2>3. CurrentTerm = LeaderTerm => lastAppliedIndex' <= Len(Logs)
    BY <1>1, <2>1, HeadFacts DEF CallFits
  <2>4. CurrentTerm = LeaderTerm => CallFits(o)'
    BY <1>1, <2>1, <2>2 DEF CallFits, Made, Appended
  <2>5. QED
    BY <2>1, <2>2, <2>3, <2>4, StandsStays, StandsIndexes
<1>9. CASE PassEntry(o)
  <2>1. /\ Logs' = Logs /\ CurrentTerm' = CurrentTerm
        /\ UNCHANGED <<CommitIndex, lastAppliedIndex, NextIndex, MatchIndex>>
        /\ \A p \in Op : p # o => call'[p] = call[p]
        /\ LastApplied' = Head(call[o].todo).index /\ call[o].todo # <<>>
    BY <1>9 DEF PassEntry, WorkInv, LeaderTypes
  <2>2. /\ pc'[o] = "apply" /\ pc[o] = "applied" /\ \A p \in Op : p # o => pc'[p] = pc[p]
    BY <1>9 DEF PassEntry, Goto, LeaderTypes
  <2>3. CurrentTerm = LeaderTerm => LastApplied' <= Len(Logs)
    BY <1>1, <2>1, HeadFacts DEF CallFits
  <2> DEFINE s == call[o].todo
             t == Tail(s)
  <2>4. call'[o] = [call[o] EXCEPT !.todo = t]
    BY <1>0, <1>9 DEF PassEntry
  <2>5. Len(s) \in Nat /\ Len(t) = Len(s) - 1 /\ \A i \in 1 .. Len(s) - 1 : t[i] = s[i + 1]
    BY <2>1, HeadFacts
  <2>6. CurrentTerm = LeaderTerm => \A i \in 1 .. Len(s) : s[i].index <= Len(Logs)
    BY <1>1 DEF CallFits
  <2>7. call'[o].index = call[o].index /\ call'[o].todo = t
    BY <1>0, <2>4 DEF CallOf
  <2> HIDE DEF s, t
  <2>8. \A i \in 1 .. Len(t) : i + 1 \in 1 .. Len(s) /\ t[i] = s[i + 1]
    BY <2>5
  <2>9. CurrentTerm = LeaderTerm => \A i \in 1 .. Len(t) : t[i].index <= Len(Logs)
    BY <2>6, <2>8
  <2>10. CurrentTerm = LeaderTerm => CallFits(o)'
    BY <1>1, <2>1, <2>2, <2>7, <2>9 DEF CallFits, Made, Appended
  <2>11. QED
    BY <2>1, <2>2, <2>3, <2>10, StandsStays, StandsIndexes
<1>10. QED
  BY <1>02, <1>03, <1>2, <1>3, <1>4, <1>5, <1>6, <1>7, <1>8, <1>9 DEF CallStep

(* The next index a follower gets lies within the log or right behind it. *)
LEMMA NextForFits ==
  ASSUME LeaderTypes, IndexesWithinLog, NEW f \in Follower
  PROVE  NextFor(f) \in Nat /\ NextFor(f) <= Len(Logs) + 1
<1>1. LastIndex = Len(Logs) /\ Len(Logs) \in Nat
  BY LastIndexIsLength
<1>2. NextFor(f) = NextIndex[f] \/ NextFor(f) = 1 \/ NextFor(f) = LastIndex
  BY DEF NextFor
<1>3. NextIndex[f] \in Nat /\ NextIndex[f] <= Len(Logs) + 1
  BY DEF LeaderTypes, IndexesWithinLog
<1>4. QED
  BY <1>1, <1>2, <1>3

(* Every step of a request goroutine keeps the indexes within the log: a   *)
(* reply sets a follower's indexes from a call that has appended, or steps *)
(* the next index back, or ends the leader's term.                         *)
LEMMA StandsRpcStep ==
  ASSUME LeaderTypes, LeaderTypes', WorkInv, StandsInv, [Next]_vars,
         NEW o \in Op, NEW f \in Follower,
         \/ StartPreCommit(o, f) \/ SendPreCommit(o, f)
         \/ FollowerAppend(o, f) \/ PreCommitReply(o, f)
  PROVE  StandsInv'
<1> USE DEF leaderVars, storeVars, followerVars
<1>0. /\ Logs \in Seq(Entries) /\ Len(Logs) \in Nat
      /\ LeaderTerm \in Nat /\ CurrentTerm \in Nat /\ CurrentTerm >= LeaderTerm
  BY ReplicationConstants DEF LeaderTypes, StandsInv
<1>1. CurrentTerm' \in Nat /\ CurrentTerm' >= CurrentTerm
  BY TermGrows
<1>2. CASE CurrentTerm' # CurrentTerm
  <2>1. CurrentTerm' >= LeaderTerm /\ CurrentTerm' # LeaderTerm
    BY <1>0, <1>1, <1>2
  <2>2. QED
    BY <2>1 DEF StandsInv
<1>3. CASE CurrentTerm' = CurrentTerm
  <2>1. /\ Logs' = Logs /\ pc' = pc
        /\ UNCHANGED <<CommitIndex, LastApplied, lastAppliedIndex>>
    BY DEF StartPreCommit, SendPreCommit, FollowerAppend, PreCommitReply
  <2>2. \A p \in Op : /\ call'[p].todo = call[p].todo /\ call'[p].index = call[p].index
                      /\ call'[p].term = call[p].term
    BY ReplyCallFacts DEF StartPreCommit, SendPreCommit, FollowerAppend
  <2> SUFFICES ASSUME CurrentTerm = LeaderTerm PROVE StandsInv'
    BY <1>0, <1>3 DEF StandsInv
  <2>3. IndexesWithinLog
    BY DEF StandsInv
  <2>4. \A p \in Op : CallFits(p)'
    <3>1. Len(Logs') >= Len(Logs)
      BY <1>0, <2>1
    <3>2. \A p \in Op : CallFits(p) /\ pc'[p] = pc[p]
      BY <2>1 DEF StandsInv
    <3>3. QED
      BY <2>2, <3>1, <3>2, OthersFit
  <2>5. \A g \in Follower : /\ MatchIndex[g] \in Nat /\ NextIndex[g] \in Nat
                            /\ MatchIndex[g] <= Len(Logs) /\ NextIndex[g] <= Len(Logs) + 1
    BY StandsIndexes DEF LeaderTypes
  <2>6. \A g \in Follower : MatchIndex'[g] <= Len(Logs) /\ NextIndex'[g] <= Len(Logs) + 1
    <3>1. CASE StartPreCommit(o, f)
      <4>1. /\ MatchIndex' = MatchIndex
            /\ \A g \in Follower : NextIndex'[g] = NextIndex[g] \/ NextIndex'[g] = NextFor(f)
        BY <3>1 DEF StartPreCommit, LeaderTypes
      <4>2. NextFor(f) <= Len(Logs) + 1
        BY <2>3, NextForFits
      <4>3. QED
        BY <2>5, <4>1, <4>2
    <3>2. CASE SendPreCommit(o, f) \/ FollowerAppend(o, f)
      BY <2>5, <3>2 DEF SendPreCommit, FollowerAppend
    <3>3. CASE PreCommitReply(o, f)
      <4> DEFINE i == call[o].index
                 n == Len(Logs)
      <4>1. i \in Nat /\ i <= n
        <5>1. Appended(o)
          BY <3>3 DEF WorkInv, PreCommitReply
        <5>2. CallFits(o)
          BY DEF StandsInv
        <5>3. QED
          BY <5>1, <5>2, CallFacts DEF CallFits, LeaderTypes
      <4>2. \A g \in Follower : MatchIndex'[g] = MatchIndex[g] \/ MatchIndex'[g] = i
        BY <3>3 DEF PreCommitReply, LeaderTypes
      <4>3. \A g \in Follower : \/ NextIndex'[g] = NextIndex[g] \/ NextIndex'[g] = i + 1
                                \/ NextIndex'[g] = 1 \/ NextIndex'[g] = NextIndex[g] - 1
        <5>1. PICK x \in Nat : /\ NextIndex' = [NextIndex EXCEPT ![f] = x]
                               /\ \/ x = NextIndex[f] \/ x = i + 1
                                  \/ x = 1 \/ x = NextIndex[f] - 1
          BY <3>3, ReplyNextFacts
        <5>2. DOMAIN NextIndex = Follower
          BY DEF LeaderTypes
        <5>3. \A g \in Follower : NextIndex'[g] = IF g = f THEN x ELSE NextIndex[g]
          BY <5>1, <5>2
        <5>4. QED
          BY <5>1, <5>3
      <4>4. n \in Nat /\ n = Len(Logs)
        BY <1>0
      <4> HIDE DEF i, n
      <4>5. \A g \in Follower : MatchIndex[g] <= n /\ NextIndex[g] <= n + 1
        BY <2>5, <4>4
      <4>6. \A g \in Follower : MatchIndex'[g] <= n /\ NextIndex'[g] <= n + 1
        BY <2>5, <4>1, <4>2, <4>3, <4>4, <4>5
      <4>7. QED
        BY <4>4, <4>6
    <3>4. QED
      BY <3>1, <3>2, <3>3
  <2>7. IndexesWithinLog'
    BY <2>1, <2>3, <2>6, IndexesFit, StandsIndexes
  <2>8. QED
    BY <1>0, <1>3, <2>1, <2>4, <2>7 DEF StandsInv
<1>4. QED
  BY <1>2, <1>3

(* Every step keeps the strengthening. *)
LEMMA StandsStep ==
  LeaderTypes /\ LeaderTypes' /\ WorkInv /\ StandsInv /\ [Next]_vars => StandsInv'
<1> SUFFICES ASSUME LeaderTypes, LeaderTypes', WorkInv, StandsInv, [Next]_vars
             PROVE  StandsInv'
  OBVIOUS
<1>1. CASE UNCHANGED vars
  BY <1>1 DEF vars, leaderVars, storeVars, StandsInv, IndexesWithinLog, CallFits, Made, Appended
<1>2. ASSUME NEW o \in Op, Refuse(o) \/ ReadLastIndex(o) \/ CallStep(o) PROVE StandsInv'
  BY <1>2, StandsCallStep
<1>02. CASE OfficeChanges
  BY <1>02 DEF OfficeChanges, leaderVars, storeVars, StandsInv, IndexesWithinLog, CallFits, Made,
               Appended
<1>3. ASSUME NEW o \in Op, NEW f \in Follower,
             \/ StartPreCommit(o, f) \/ SendPreCommit(o, f)
             \/ FollowerAppend(o, f) \/ PreCommitReply(o, f)
      PROVE  StandsInv'
  BY <1>3, StandsRpcStep
<1>4. QED
  BY <1>02, <1>1, <1>2, <1>3 DEF Next

(* The strengthening holds at the start. *)
LEMMA StandsInit == Init => StandsInv
<1> SUFFICES ASSUME Init PROVE StandsInv
  OBVIOUS
<1>1. LeaderTerm \in Nat /\ CurrentTerm = LeaderTerm
  BY ReplicationConstants DEF Init
<1>2. Logs = <<>> /\ Len(Logs) = 0 /\ DOMAIN Logs = {}
  BY DEF Init
<1>3. IndexesWithinLog
  BY <1>2 DEF Init, IndexesWithinLog
<1>4. ASSUME NEW o \in Op PROVE CallFits(o)
  <2>1. pc[o] = "idle" /\ call[o].todo = <<>> /\ Len(call[o].todo) = 0
    BY DEF Init
  <2>2. QED
    BY <2>1 DEF CallFits, Made, Appended
<1>5. QED
  BY <1>1, <1>2, <1>3, <1>4 DEF StandsInv

(* As long as the leader has not heard of a newer term than the one it     *)
(* began with, its log has no gap and no index points beyond it, for any   *)
(* number of concurrent calls and followers, whatever the followers'       *)
(* terms are.                                                              *)
THEOREM IndexesInTerm == Spec => [](CurrentTerm = LeaderTerm => IndexesWithinLog)
<1>1. StandsInv => (CurrentTerm = LeaderTerm => IndexesWithinLog)
  BY DEF StandsInv
<1>2. QED
  BY <1>1, StandsInit, StandsStep, WorkInvariant, PTL DEF Spec

(* If no follower starts with a newer term, the leader's term stands for   *)
(* good.                                                                   *)
LEMMA TermStands ==
  ASSUME NoNewerTerm
  PROVE  Spec => []SameTermInv
<1>1. Init => SameTermInv
  BY DEF NoNewerTerm, Init, SameTermInv
<1>2. QED
  BY <1>1, SameTermStep, WorkInvariant, PTL DEF Spec

(* With followers of no newer term the indexes stay within the log for     *)
(* good.                                                                   *)
THEOREM IndexesStayWithinLog ==
  ASSUME NoNewerTerm
  PROVE  Spec => []IndexesWithinLog
<1>1. SameTermInv => CurrentTerm = LeaderTerm
  BY DEF SameTermInv
<1>2. QED
  BY <1>1, IndexesInTerm, TermStands, PTL

(* A step of the leader in its first term leaves the log alone or adds one *)
(* entry at its end.                                                       *)
LEMMA LogStepInTerm ==
  ASSUME LeaderTypes, StandsInv, CurrentTerm = LeaderTerm, [Next]_vars
  PROVE  Logs' = Logs \/ \E e \in Entries : Logs' = Append(Logs, e)
<1>1. Logs' = Logs \/ \E o \in Op : AppendLog(o)
  BY LogStep
<1>2. QED
  BY <1>1, AppendLogInTerm

(* While the term the leader began with stands, its log only grows at its  *)
(* end, although AppendLog can cut it and calls draw their indexes long    *)
(* before they append.                                                     *)
THEOREM LogGrowsInTerm ==
  Spec => [][CurrentTerm = LeaderTerm
               => Len(Logs') >= Len(Logs) /\ SubSeq(Logs', 1, Len(Logs)) = Logs]_vars
<1>1. LeaderTypes /\ StandsInv /\ [Next]_vars
        => [CurrentTerm = LeaderTerm
              => Len(Logs') >= Len(Logs) /\ SubSeq(Logs', 1, Len(Logs)) = Logs]_vars
  <2> SUFFICES ASSUME LeaderTypes, StandsInv, CurrentTerm = LeaderTerm, [Next]_vars
               PROVE  Len(Logs') >= Len(Logs) /\ SubSeq(Logs', 1, Len(Logs)) = Logs
    OBVIOUS
  <2> DEFINE old == Logs
             n == Len(old)
  <2>1. old \in Seq(Entries) /\ n \in Nat
    BY DEF LeaderTypes
  <2>2. Logs' = old \/ \E e \in Entries : Logs' = Append(old, e)
    BY LogStepInTerm
  <2>3. CASE Logs' = old
    <3>1. SubSeq(old, 1, n) = old
      BY <2>1
    <3>2. QED
      BY <2>1, <2>3, <3>1
  <2>4. ASSUME NEW e \in Entries, Logs' = Append(old, e)
        PROVE  Len(Logs') >= Len(Logs) /\ SubSeq(Logs', 1, Len(Logs)) = Logs
    <3>1. Len(Append(old, e)) = n + 1
      BY <2>1
    <3>2. SubSeq(Append(old, e), 1, n) = old
      BY <2>1
    <3>3. QED
      BY <2>1, <2>4, <3>1, <3>2
  <2>5. QED
    BY <2>2, <2>3, <2>4
<1>2. QED
  BY <1>1, StandsInit, StandsStep, WorkInvariant, PTL DEF Spec

(* With followers of no newer term that is for good. *)
THEOREM LogOnlyGrows ==
  ASSUME NoNewerTerm
  PROVE  Spec => LogAppendOnly
<1>1. SameTermInv
      /\ [CurrentTerm = LeaderTerm
            => Len(Logs') >= Len(Logs) /\ SubSeq(Logs', 1, Len(Logs)) = Logs]_vars
        => [Len(Logs') >= Len(Logs) /\ SubSeq(Logs', 1, Len(Logs)) = Logs]_vars
  BY DEF SameTermInv
<1>2. QED
  BY <1>1, LogGrowsInTerm, TermStands, PTL DEF LogAppendOnly

===============================================================================
