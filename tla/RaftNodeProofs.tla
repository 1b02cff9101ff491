--------------------------- MODULE RaftNodeProofs ---------------------------
(***************************************************************************)
(* Proofs about the RaftStateMachine of one node: its voting (RaftVoting), *)
(* for any set of nodes and any bounds, and its log (FollowerLog), for any *)
(* logs of the leaders, any commands and any bounds.                       *)
(***************************************************************************)
EXTENDS RaftVoting, FollowerLog, SequenceTheorems, WellFoundedInduction, TLAPS

USE NodeAssumption, BoundAssumption

LEMMA InitialTail == <<0, 0>> \in LogTails
  BY DEF LogTails

LEMMA RequestFields ==
  ASSUME NEW r \in VoteRequests \cup {NoRequest}
  PROVE  r.term \in Terms /\ r.cand \in Node /\ r.last \in LogTails
  BY InitialTail DEF VoteRequests, NoRequest, Terms

(* One step, whatever goroutine takes it, preserves the ranges.            *)
LEMMA TypeStep == TypeOK /\ [Next]_vars => TypeOK'
<1> SUFFICES ASSUME TypeOK, [Next]_vars PROVE TypeOK'
  OBVIOUS
<1> USE DEF TypeOK
<1>1. ASSUME NEW r \in VoteRequests, ReceiveVoteRequest(r) PROVE TypeOK'
  BY <1>1 DEF ReceiveVoteRequest, AfterCheck
<1>2. CASE AdoptRequestTerm
  BY <1>2, RequestFields DEF AdoptRequestTerm, States
<1>3. CASE DecideVote
  BY <1>3 DEF DecideVote, AfterCheck
<1>4. CASE GrantVote
  BY <1>4, RequestFields DEF GrantVote, RecordVote, Votes
<1>5. CASE HandleElectionTimeout
  BY <1>5 DEF HandleElectionTimeout, RecordVote, Votes, States, Terms
<1>6. CASE HandleHeartbeat
  BY <1>6 DEF HandleHeartbeat, States
<1>7. CASE HandleBecomeLeader
  BY <1>7 DEF HandleBecomeLeader, States
<1>8. CASE SendHeartbeats
  BY <1>8 DEF SendHeartbeats
<1>9. ASSUME NEW h \in heartbeats, NEW t \in Terms, HeartbeatReply(h, t)
      PROVE TypeOK'
  BY <1>9 DEF HeartbeatReply, States
<1>10. ASSUME NEW t \in Terms, NEW last \in LogTails, AppendEntriesRPC(t, last)
       PROVE TypeOK'
  BY <1>10 DEF AppendEntriesRPC, States
<1>11. CASE Restart
  BY <1>11, InitialTail DEF Restart, States, Terms
<1>12. CASE UNCHANGED vars
  BY <1>12 DEF vars
<1>13. QED
  BY <1>1, <1>2, <1>3, <1>4, <1>5, <1>6, <1>7, <1>8, <1>9, <1>10, <1>11,
     <1>12 DEF Next

(* Every step keeps the voting state of RaftStateMachine in its declared   *)
(* ranges.                                                                 *)
THEOREM TypeCorrect == Spec => []TypeOK
<1>1. Init => TypeOK
  BY InitialTail DEF Init, TypeOK, States, Terms, Votes, NoRequest
<1>2. QED
  BY <1>1, TypeStep, PTL DEF Spec

----------------------------------------------------------------------------
(* Facts about votes that hold in any state of the right type.             *)
LEMMA VoteFields ==
  ASSUME TypeOK, NEW v \in granted
  PROVE  v[1] \in Nat /\ v[2] \in Node /\ v = <<v[1], v[2]>>
  BY DEF TypeOK, Votes, Terms

LEMMA TermsAreNaturals ==
  ASSUME TypeOK
  PROVE  currentTerm \in Nat /\ req.term \in Nat /\ req.cand \in Node
  BY RequestFields DEF TypeOK, Terms

(* A step that gives no vote, stays outside or keeps its place in the      *)
(* handler, and moves the term only upwards keeps the invariant, provided  *)
(* a changed term makes the node a follower.                               *)
LEMMA QuietStep ==
  ASSUME VotingInv, TypeOK',
         granted' = granted, pc' = pc, req' = req,
         \/ currentTerm' = currentTerm /\ votedFor' = votedFor
         \/ currentTerm' > currentTerm,
         \/ state' = "Follower"
         \/ currentTerm' = currentTerm /\ state # "Follower"
         \/ currentTerm' = currentTerm /\ state' = state
  PROVE  VotingInv'
<1> USE VoteFields, TermsAreNaturals DEF VotingInv
<1>0. currentTerm' \in Nat
  BY DEF TypeOK, Terms
<1>1. VoteOnce'
  BY DEF VoteOnce
<1>2. VoteBinding'
  BY <1>0 DEF VoteBinding, VotedTermBound
<1>3. VotedTermBound'
  BY <1>0 DEF VotedTermBound
<1>4. CampaignerVotedForSelf'
  BY DEF CampaignerVotedForSelf
<1>5. WindowInv'
  BY <1>0 DEF WindowInv
<1>6. QED
  BY <1>1, <1>2, <1>3, <1>4, <1>5

(* Votes are cast one per term, bind, and never outrun currentTerm: the    *)
(* inductive invariant holds in every reachable state.                     *)
THEOREM VotingInvariant == Spec => []VotingInv
<1>1. Init => VotingInv
  BY InitialTail DEF Init, VotingInv, TypeOK, States, Terms, Votes, NoRequest,
     VoteOnce, VoteBinding, VotedTermBound, CampaignerVotedForSelf, WindowInv
<1>2. VotingInv /\ [Next]_vars => VotingInv'
  <2> SUFFICES ASSUME VotingInv, [Next]_vars PROVE VotingInv'
    OBVIOUS
  <2>0. TypeOK /\ TypeOK'
    BY TypeStep DEF VotingInv
  <2> USE <2>0, VoteFields, TermsAreNaturals
  <2>1. ASSUME NEW r \in VoteRequests, ReceiveVoteRequest(r) PROVE VotingInv'
    <3>0. UNCHANGED <<state, currentTerm, votedFor, granted>> /\ r.term \in Nat
      BY <2>1, RequestFields DEF ReceiveVoteRequest, Terms
    <3>1. VoteOnce' /\ VoteBinding' /\ VotedTermBound' /\ CampaignerVotedForSelf'
      BY <3>0 DEF VotingInv, VoteOnce, VoteBinding, VotedTermBound,
                  CampaignerVotedForSelf
    <3>2. CASE r.term < currentTerm /\ UNCHANGED <<pc, req>>
      BY <3>0, <3>1, <3>2 DEF VotingInv, WindowInv
    <3>3. CASE r.term > currentTerm /\ pc' = "raise" /\ req' = r
      BY <3>0, <3>1, <3>3 DEF VotingInv, WindowInv, VotedTermBound
    <3>4. CASE /\ r.term = currentTerm
               /\ pc' = AfterCheck(r)
               /\ req' = IF pc' = "select" THEN NoRequest ELSE r
      <4>1. CASE pc' = "select"
        BY <3>1, <4>1 DEF VotingInv, WindowInv
      <4>2. CASE pc' # "select"
        <5>1. pc' = "grant" /\ votedFor \in {None, r.cand} /\ req' = r
          BY <3>4, <4>2 DEF AfterCheck, MayVoteFor
        <5>2. \A v \in granted : v[1] <= r.term /\ (v[1] = r.term => v[2] = r.cand)
          BY <3>4, <5>1 DEF VotingInv, VoteBinding, VotedTermBound
        <5>3. QED
          BY <3>0, <3>1, <3>4, <5>1, <5>2 DEF VotingInv, WindowInv
      <4>3. QED
        BY <4>1, <4>2
    <3>5. QED
      BY <2>1, <3>2, <3>3, <3>4 DEF ReceiveVoteRequest
  <2>2. CASE AdoptRequestTerm
    <3>1. \A v \in granted : v[1] < req.term
      BY <2>2 DEF AdoptRequestTerm, VotingInv, WindowInv
    <3>2. QED
      BY <2>2, <3>1 DEF AdoptRequestTerm, VotingInv, VoteOnce, VoteBinding,
         VotedTermBound, CampaignerVotedForSelf, WindowInv
  <2>3. CASE DecideVote
    <3>1. UNCHANGED <<state, currentTerm, votedFor, granted>>
      BY <2>3 DEF DecideVote
    <3>2. VoteOnce' /\ VoteBinding' /\ VotedTermBound' /\ CampaignerVotedForSelf'
      BY <3>1 DEF VotingInv, VoteOnce, VoteBinding, VotedTermBound,
                  CampaignerVotedForSelf
    <3>3. WindowInv'
      BY <2>3, <3>1 DEF DecideVote, AfterCheck, VotingInv, WindowInv
    <3>4. QED
      BY <3>2, <3>3 DEF VotingInv
  <2>4. CASE GrantVote
    <3>1. /\ granted' = granted \cup {<<req.term, req.cand>>}
          /\ votedFor' = req.cand /\ pc' = "select"
          /\ UNCHANGED <<state, currentTerm>>
      BY <2>4 DEF GrantVote, RecordVote
    <3>2. /\ req.term <= currentTerm
          /\ \A v \in granted : /\ v[1] <= req.term
                                /\ v[1] = req.term => v[2] = req.cand
      BY <2>4 DEF GrantVote, VotingInv, WindowInv
    <3>3. VoteOnce'
      BY <3>1, <3>2 DEF VotingInv, VoteOnce
    <3>4. \A v \in granted : /\ v[1] <= currentTerm
                             /\ v[1] = currentTerm => v[2] = req.cand
      BY <3>2
    <3>5. CampaignerVotedForSelf' /\ WindowInv'
      BY <3>1 DEF VotingInv, CampaignerVotedForSelf, WindowInv
    <3>6. QED
      BY <3>1, <3>2, <3>3, <3>4, <3>5 DEF VotingInv, VoteBinding, VotedTermBound
  <2>5. CASE HandleElectionTimeout
    <3>1. /\ granted' = granted \cup {<<currentTerm + 1, Self>>}
          /\ votedFor' = Self /\ currentTerm' = currentTerm + 1
          /\ pc = "select" /\ pc' = "select"
      BY <2>5 DEF HandleElectionTimeout, RecordVote
    <3>2. \A v \in granted : v[1] < currentTerm + 1
      BY DEF VotingInv, VotedTermBound
    <3>3. VoteOnce' /\ VoteBinding' /\ VotedTermBound'
      BY <3>1, <3>2 DEF VotingInv, VoteOnce, VoteBinding, VotedTermBound
    <3>4. QED
      BY <3>1, <3>3 DEF VotingInv, CampaignerVotedForSelf, WindowInv
  <2>6. CASE HandleHeartbeat
    BY <2>6, QuietStep DEF HandleHeartbeat
  <2>7. CASE HandleBecomeLeader
    BY <2>7, QuietStep DEF HandleBecomeLeader
  <2>8. CASE SendHeartbeats
    BY <2>8, QuietStep DEF SendHeartbeats
  <2>9. ASSUME NEW h \in heartbeats, NEW t \in Terms, HeartbeatReply(h, t)
        PROVE VotingInv'
    BY <2>9, QuietStep DEF HeartbeatReply
  <2>10. ASSUME NEW t \in Terms, NEW last \in LogTails, AppendEntriesRPC(t, last)
         PROVE VotingInv'
    BY <2>10, QuietStep DEF AppendEntriesRPC
  <2>11. CASE Restart
    BY <2>11 DEF Restart, VotingInv, VoteOnce, VoteBinding, VotedTermBound,
       CampaignerVotedForSelf, WindowInv
  <2>12. CASE UNCHANGED vars
    BY <2>12, QuietStep DEF vars
  <2>13. QED
    BY <2>1, <2>2, <2>3, <2>4, <2>5, <2>6, <2>7, <2>8, <2>9, <2>10, <2>11,
       <2>12 DEF Next
<1>3. QED
  BY <1>1, <1>2, PTL DEF Spec

(* No process answers "granted" to two candidates of one term.             *)
THEOREM OneVotePerTerm == Spec => []VoteOnce
<1>1. VotingInv => VoteOnce
  BY DEF VotingInv
<1>2. QED
  BY <1>1, VotingInvariant, PTL

(* A vote given in the current term is still the value of votedFor.        *)
THEOREM VotesBind == Spec => []VoteBinding
<1>1. VotingInv => VoteBinding
  BY DEF VotingInv
<1>2. QED
  BY <1>1, VotingInvariant, PTL

(* The term may regress in the lock window, but never below a voted term.  *)
THEOREM TermBoundedByVotes == Spec => []VotedTermBound
<1>1. VotingInv => VotedTermBound
  BY DEF VotingInv
<1>2. QED
  BY <1>1, VotingInvariant, PTL

(* A candidate or leader has voted for itself in its current term.         *)
THEOREM CampaignersVoteForThemselves == Spec => []CampaignerVotedForSelf
<1>1. VotingInv => CampaignerVotedForSelf
  BY DEF VotingInv
<1>2. QED
  BY <1>1, VotingInvariant, PTL

----------------------------------------------------------------------------
(* A vote given in "grant" is a repeated one or the first of its term, and *)
(* of a later term than all others: an indivisible Cast.                   *)
LEMMA GrantIsCast ==
  ASSUME VotingInv, GrantVote
  PROVE  [Register!Next]_<<granted, crashes>>
<1> USE DEF VotingInv
<1>1. granted' = granted \cup {<<req.term, req.cand>>} /\ crashes' = crashes
  BY DEF GrantVote, RecordVote
<1>2. CASE <<req.term, req.cand>> \in granted
  BY <1>1, <1>2
<1>3. CASE <<req.term, req.cand>> \notin granted
  <2>1. \A v \in granted : v[1] < req.term
    BY <1>3, VoteFields, TermsAreNaturals DEF GrantVote, WindowInv
  <2>2. Register!Cast(req.term, req.cand)
    BY <1>1, <2>1 DEF Register!Cast
  <2>3. req.term \in Terms /\ req.cand \in Node
    BY RequestFields DEF TypeOK
  <2>4. QED
    BY <2>2, <2>3 DEF Register!Next
<1>4. QED
  BY <1>2, <1>3

(* The vote of handleElectionTimeout is of a term beyond all earlier ones. *)
LEMMA CampaignIsCast ==
  ASSUME VotingInv, HandleElectionTimeout
  PROVE  Register!Next
<1> USE DEF VotingInv
<1>1. \A v \in granted : v[1] < currentTerm + 1
  BY VoteFields, TermsAreNaturals DEF VotedTermBound
<1>2. Register!Cast(currentTerm + 1, Self)
  BY <1>1 DEF HandleElectionTimeout, RecordVote, Register!Cast
<1>3. currentTerm + 1 \in Terms
  BY DEF HandleElectionTimeout, TypeOK, Terms
<1>4. QED
  BY <1>2, <1>3 DEF Register!Next

(* The node with its lock windows implements the register that votes in    *)
(* one step, whatever the other goroutines do in the windows.              *)
THEOREM VotingIsAtomic == Spec => VotesAtomically
<1>1. Init => Register!Init
  BY DEF Init, Register!Init
<1>2. VotingInv /\ [Next]_vars => [Register!Next]_<<granted, crashes>>
  <2> SUFFICES ASSUME VotingInv, [Next]_vars
               PROVE  [Register!Next]_<<granted, crashes>>
    OBVIOUS
  <2>1. CASE GrantVote
    BY <2>1, GrantIsCast
  <2>2. CASE HandleElectionTimeout
    BY <2>2, CampaignIsCast
  <2>3. CASE Restart
    BY <2>3 DEF Restart, Register!Next, Register!Forget
  <2>4. CASE UNCHANGED <<granted, crashes>>
    BY <2>4
  <2>5. \/ GrantVote \/ HandleElectionTimeout \/ Restart
        \/ UNCHANGED <<granted, crashes>>
    BY DEF Next, vars, ReceiveVoteRequest, AdoptRequestTerm, DecideVote,
       HandleHeartbeat, HandleBecomeLeader, SendHeartbeats, HeartbeatReply,
       AppendEntriesRPC
  <2>6. QED
    BY <2>1, <2>2, <2>3, <2>4, <2>5
<1>3. QED
  BY <1>1, <1>2, VotingInvariant, PTL DEF Spec, VotesAtomically, Register!Spec

----------------------------------------------------------------------------
(* What a request does to the log.                                         *)

Entries == [term : 1 .. MaxTerm, index : 1 .. MaxLen, cmd : Command]

(* The first of a non-empty set of positions. *)
LEMMA HasLeast ==
  ASSUME NEW S \in SUBSET Nat, S # {}
  PROVE  Min(S) \in S /\ \A y \in S : Min(S) <= y
<1> DEFINE R == OpToRel(<, Nat)
<1>1. IsWellFoundedOn(R, Nat)
  BY NatLessThanWellFounded
<1>2. \A x, y \in Nat : x < y => <<x, y>> \in R
  BY DEF OpToRel
<1> HIDE DEF R
<1>3. PICK x \in S : \A y \in S : ~(<<y, x>> \in R)
  BY <1>1, WFMin
<1>4. ASSUME NEW y \in S PROVE x <= y
  <2>1. x \in Nat /\ y \in Nat /\ ~(y < x)
    BY <1>2, <1>3
  <2>2. QED
    BY <2>1
<1>5. QED
  BY <1>4 DEF Min

(* The cut leaves a beginning of the log that reaches at least to          *)
(* PrevLogIndex and has no conflict in it; it is short of the whole log    *)
(* only because of a conflict.                                             *)
LEMMA TruncateFacts ==
  ASSUME NEW E, NEW log \in Seq(E), NEW prev \in Nat, prev <= Len(log), NEW new \in Seq(E),
         \A i \in 1 .. Len(new) : new[i].index = prev + i
  PROVE  \E k \in prev .. Len(log) :
           /\ Truncate(log, new) = SubSeq(log, 1, k)
           /\ \A i \in 1 .. Len(new) : prev + i <= k => log[prev + i].term = new[i].term
           /\ Conflicts(log, new) # {} => k < prev + Len(new)
           /\ Conflicts(log, new) = {} => k = Len(log)
<1> DEFINE C == Conflicts(log, new)
<1>1. /\ DOMAIN log = 1 .. Len(log) /\ Len(log) \in Nat
      /\ DOMAIN new = 1 .. Len(new) /\ Len(new) \in Nat
  OBVIOUS
<1>2. /\ C \subseteq 1 .. Len(new)
      /\ \A i \in 1 .. Len(new) : i \in C <=> /\ prev + i \in 1 .. Len(log)
                                              /\ log[prev + i].term # new[i].term
  BY <1>1 DEF Conflicts
<1>3. CASE C = {}
  <2>1. Truncate(log, new) = log
    BY <1>3 DEF Truncate
  <2>2. SubSeq(log, 1, Len(log)) = log
    OBVIOUS
  <2>3. \A i \in 1 .. Len(new) : prev + i <= Len(log) => log[prev + i].term = new[i].term
    BY <1>1, <1>2, <1>3
  <2>4. Conflicts(log, new) = {} /\ Len(log) \in prev .. Len(log)
    BY <1>1, <1>3
  <2>5. Truncate(log, new) = SubSeq(log, 1, Len(log))
    BY <2>1, <2>2
  <2>6. QED
    BY <2>3, <2>4, <2>5
<1>4. CASE C # {}
  <2> DEFINE c == Min(C)
  <2>2. Truncate(log, new) = SubSeq(log, 1, new[c].index - 1)
    BY <1>4 DEF Truncate
  <2> HIDE DEF C
  <2>0. C \in SUBSET Nat
    BY <1>1, <1>2
  <2>1. c \in C /\ \A i \in C : c <= i
    BY <2>0, <1>4, HasLeast
  <2> HIDE DEF c
  <2>3. c \in 1 .. Len(new) /\ prev + c \in 1 .. Len(log) /\ new[c].index - 1 = prev + c - 1
    BY <1>1, <1>2, <2>1
  <2>4. \A i \in 1 .. Len(new) : prev + i <= prev + c - 1 => log[prev + i].term = new[i].term
    <3> SUFFICES ASSUME NEW i \in 1 .. Len(new), prev + i <= prev + c - 1
                 PROVE  log[prev + i].term = new[i].term
      OBVIOUS
    <3>1. i < c /\ prev + i \in 1 .. Len(log)
      BY <1>1, <2>3
    <3>2. i \notin C
      BY <1>1, <2>1, <2>3, <3>1
    <3>3. QED
      BY <1>2, <3>1, <3>2
  <2>5. prev + c - 1 \in prev .. Len(log) /\ prev + c - 1 < prev + Len(new)
    BY <1>1, <2>3
  <2>6. QED
    BY <1>4, <2>2, <2>3, <2>4, <2>5 DEF C
<1>5. QED
  BY <1>3, <1>4

(* The log after the cut, followed by the new entries from that position   *)
(* of the request on.                                                      *)
Splice(log, new, k) ==
  SubSeq(log, 1, k) \o SubSeq(new, Len(SubSeq(log, 1, k)) + 1, Len(new))

LEMMA SpliceFacts ==
  ASSUME NEW E, NEW log \in Seq(E), NEW new \in Seq(E), NEW k \in 0 .. Len(log)
  PROVE  LET s == Splice(log, new, k)
         IN  /\ s \in Seq(E)
             /\ Len(s) = IF k < Len(new) THEN Len(new) ELSE k
             /\ \A i \in 1 .. k : s[i] = log[i]
             /\ \A i \in k + 1 .. Len(new) : s[i] = new[i]
<1> DEFINE a == SubSeq(log, 1, k)
           n == Len(new)
           b == SubSeq(new, k + 1, n)
<1>1. n \in Nat /\ k \in Nat /\ Len(log) \in Nat
  OBVIOUS
<1>2. /\ a \in Seq(E) /\ Len(a) = k
      /\ \A i \in 1 .. k : a[i] = log[i]
  <2>1. \A i \in 1 .. k : log[i] \in E
    BY <1>1
  <2>2. QED
    BY <1>1, <2>1, SubSeqProperties
<1>3. /\ b \in Seq(E) /\ Len(b) = IF k < n THEN n - k ELSE 0
      /\ \A i \in 1 .. n - k : b[i] = new[k + i]
  <2>1. \A i \in k + 1 .. n : new[i] \in E
    BY <1>1
  <2>2. /\ b \in Seq(E) /\ Len(b) = IF k + 1 <= n THEN n - (k + 1) + 1 ELSE 0
        /\ \A i \in 1 .. n - (k + 1) + 1 : b[i] = new[(k + 1) + i - 1]
    BY <1>1, <2>1, SubSeqProperties
  <2> HIDE DEF b, n
  <2>3. QED
    BY <1>1, <2>2
<1> DEFINE s == a \o b
<1> HIDE DEF a, b, n
<1>4. /\ s \in Seq(E) /\ Len(s) = Len(a) + Len(b)
      /\ \A i \in 1 .. Len(a) + Len(b) : s[i] = IF i <= Len(a) THEN a[i] ELSE b[i - Len(a)]
  BY <1>2, <1>3, ConcatProperties
<1> HIDE DEF s
<1>5. Len(s) = IF k < n THEN n ELSE k
  BY <1>1, <1>2, <1>3, <1>4
<1>6. \A i \in 1 .. k : s[i] = log[i]
  BY <1>1, <1>2, <1>3, <1>4
<1>7. \A i \in k + 1 .. n : s[i] = new[i]
  <2> SUFFICES ASSUME NEW i \in k + 1 .. n PROVE s[i] = new[i]
    OBVIOUS
  <2>1. i \in 1 .. Len(a) + Len(b) /\ ~(i <= Len(a)) /\ i - k \in 1 .. n - k /\ k + (i - k) = i
    BY <1>1, <1>2, <1>3
  <2>2. QED
    BY <1>2, <1>3, <1>4, <2>1
<1>8. QED
  BY <1>2, <1>4, <1>5, <1>6, <1>7 DEF Splice, s, a, b, n

(* Two logs that agree up to position k. *)
LEMMA SamePrefix ==
  ASSUME NEW E, NEW a \in Seq(E), NEW b \in Seq(E), NEW k \in Nat,
         k <= Len(a), k <= Len(b), \A i \in 1 .. k : a[i] = b[i]
  PROVE  SubSeq(a, 1, k) = SubSeq(b, 1, k)
<1>1. \A i \in 1 .. k : a[i] \in E /\ b[i] \in E
  BY ElementOfSeq
<1> DEFINE u == SubSeq(a, 1, k)
           v == SubSeq(b, 1, k)
<1>2. u \in Seq(E) /\ Len(u) = k /\ \A i \in 1 .. k : u[i] = a[i]
  BY <1>1, SubSeqProperties
<1>3. v \in Seq(E) /\ Len(v) = k /\ \A i \in 1 .. k : v[i] = b[i]
  BY <1>1, SubSeqProperties
<1> HIDE DEF u, v
<1>4. u = v
  BY <1>2, <1>3, SeqEqual
<1>5. QED
  BY <1>4 DEF u, v

(* AppendNew as a whole: a beginning of the log no shorter than            *)
(* PrevLogIndex, in which every entry the request repeats has its term,    *)
(* and behind it the entries of the request from that position on.         *)
AppendResult(log, new, prev, s) ==
  \E k \in prev .. Len(log) :
     /\ Len(s) = IF k < Len(new) THEN Len(new) ELSE k
     /\ \A i \in 1 .. k : s[i] = log[i]
     /\ \A i \in k + 1 .. Len(new) : s[i] = new[i]
     /\ \A i \in 1 .. Len(new) : prev + i <= k => log[prev + i].term = new[i].term
     /\ Conflicts(log, new) # {} => k < prev + Len(new)
     /\ Conflicts(log, new) = {} => k = Len(log)

LEMMA AppendFacts ==
  ASSUME NEW E, NEW log \in Seq(E), NEW prev \in Nat, prev <= Len(log), NEW new \in Seq(E),
         \A i \in 1 .. Len(new) : new[i].index = prev + i
  PROVE  /\ AppendNew(log, new) \in Seq(E)
         /\ AppendResult(log, new, prev, AppendNew(log, new))
<1>1. PICK k \in prev .. Len(log) :
         /\ Truncate(log, new) = SubSeq(log, 1, k)
         /\ \A i \in 1 .. Len(new) : prev + i <= k => log[prev + i].term = new[i].term
         /\ Conflicts(log, new) # {} => k < prev + Len(new)
         /\ Conflicts(log, new) = {} => k = Len(log)
  BY TruncateFacts
<1> DEFINE s == Splice(log, new, k)
<1>2. AppendNew(log, new) = s
  BY <1>1 DEF AppendNew, Splice
<1>3. k \in 0 .. Len(log)
  OBVIOUS
<1>4. /\ s \in Seq(E)
      /\ Len(s) = IF k < Len(new) THEN Len(new) ELSE k
      /\ \A i \in 1 .. k : s[i] = log[i]
      /\ \A i \in k + 1 .. Len(new) : s[i] = new[i]
  BY <1>3, SpliceFacts
<1> HIDE DEF s
<1>5. QED
  BY <1>1, <1>2, <1>4 DEF AppendResult

LogsOfLeaders == [1 .. MaxTerm -> [1 .. MaxLen -> 1 .. MaxTerm]]

(* The command that every log of the leader of term t has at index i. *)
Sent(t, i) == <<leaderLog[t][i], i>>

(* What the follower can rely on in a request. *)
LEMMA RequestShape ==
  ASSUME leaderLog \in LogsOfLeaders, NEW r \in Requests
  PROVE  /\ r.term \in 1 .. MaxTerm /\ r.prev \in 0 .. MaxLen /\ r.commit \in 0 .. MaxLen
         /\ r.entries \in Seq(Command)
         /\ r.prev + Len(r.entries) <= MaxLen
         /\ \A i \in 1 .. Len(r.entries) : r.entries[i] = Sent(r.term, r.prev + i)
<1>1. PICK t \in 1 .. MaxTerm, s \in Slices, c \in 0 .. MaxLen :
         r = Request(t, s[1], s[2], c)
  BY DEF Requests
<1>2. PICK p \in 0 .. MaxLen, n \in 0 .. MaxBatch : s = <<p, n>> /\ p + n <= MaxLen
  BY DEF Slices
<1>3. r = Request(t, p, n, c)
  BY <1>1, <1>2
<1>4. MaxLen \in Nat /\ MaxBatch \in Nat
  BY FollowerConstants
<1>5. n \in Nat /\ p + n <= MaxLen
  BY <1>2, <1>4
<1>6. /\ r.term = t /\ r.prev = p /\ r.commit = c
      /\ r.entries = [i \in 1 .. n |-> <<leaderLog[t][p + i], p + i>>]
  BY <1>3 DEF Request
<1>7. \A i \in 1 .. n : <<leaderLog[t][p + i], p + i>> \in Command
  <2> SUFFICES ASSUME NEW i \in 1 .. n PROVE <<leaderLog[t][p + i], p + i>> \in Command
    OBVIOUS
  <2>1. p + i \in 1 .. MaxLen
    BY <1>4, <1>5
  <2>2. leaderLog[t][p + i] \in 1 .. MaxTerm
    BY <2>1 DEF LogsOfLeaders
  <2>3. QED
    BY <2>1, <2>2 DEF Command
<1>8. r.entries \in Seq(Command) /\ Len(r.entries) = n
  <2>1. r.entries \in [1 .. n -> Command]
    BY <1>6, <1>7
  <2>2. QED
    BY <1>5, <2>1
<1>9. QED
  BY <1>5, <1>6, <1>8 DEF Sent

(* What NewEntries makes of it. *)
LEMMA NewShape ==
  ASSUME leaderLog \in LogsOfLeaders, NEW r \in Requests
  PROVE  LET new == NewEntries(r)
         IN  /\ new \in Seq(Entries)
             /\ Len(new) = Len(r.entries)
             /\ \A i \in 1 .. Len(new) :
                  new[i] = [term |-> r.term, index |-> r.prev + i,
                            cmd |-> Sent(r.term, r.prev + i)]
<1> DEFINE n == Len(r.entries)
           new == NewEntries(r)
<1>1. /\ r.term \in 1 .. MaxTerm /\ r.prev \in 0 .. MaxLen
      /\ r.entries \in Seq(Command)
      /\ r.prev + Len(r.entries) <= MaxLen
      /\ \A i \in 1 .. Len(r.entries) : r.entries[i] = Sent(r.term, r.prev + i)
  BY RequestShape
<1>2. n \in Nat /\ MaxLen \in Nat
  BY <1>1, FollowerConstants
<1>3. new = [i \in 1 .. n |->
               [term |-> r.term, index |-> r.prev + i, cmd |-> r.entries[i]]]
  BY DEF NewEntries
<1>4. \A i \in 1 .. n : new[i] = [term |-> r.term, index |-> r.prev + i,
                                  cmd |-> Sent(r.term, r.prev + i)]
  BY <1>1, <1>3
<1>5. \A i \in 1 .. n : r.prev + i \in 1 .. MaxLen /\ r.entries[i] \in Command
  BY <1>1, <1>2
<1>6. \A i \in 1 .. n :
         [term |-> r.term, index |-> r.prev + i, cmd |-> r.entries[i]] \in Entries
  BY <1>1, <1>5 DEF Entries
<1> HIDE DEF n
<1>7. new \in Seq(Entries) /\ Len(new) = n
  BY <1>2, <1>3, <1>6
<1> HIDE DEF new
<1>8. QED
  BY <1>4, <1>7 DEF new, n

(* The inductive invariant of the log.  An entry holds the command that    *)
(* the leader of the entry's term has at the entry's index.                *)
EntriesSent ==
  \A i \in 1 .. Len(logs) : logs[i].cmd = Sent(logs[i].term, logs[i].index)

(* The index an applier has in hand, the index up to which it was done     *)
(* before, and the highest one it may have executed.                       *)
IndexOf(a) == IF a = "loop" THEN logs[applying].index ELSE sync.at
Base(a) == IF a = "loop" THEN lastApplied ELSE sync.at - 1
Bound(a) == IF step[a] = "record" THEN IndexOf(a) ELSE Base(a)

(* An applier behind the check has an entry above all it did before. *)
Ahead ==
  \A a \in Applier : step[a] # "check" =>
    /\ Applies(a) /\ IndexOf(a) \in 1 .. MaxLen
    /\ IndexOf(a) > Base(a)

Unsynced == ~synced => sync.at = 1 /\ sync.end = 0 /\ step["sync"] = "check"

(* What each applier executed. *)
Below == \A i \in DOMAIN applied, a \in Applier :
           applied[i].by = a => applied[i].index <= Bound(a)

StartFirst == \A i \in DOMAIN applied : applied[i].by = "start" => i = 1

(* An index that is recorded, or about to be. *)
Noted(x) == x <= lastAppliedIndex
            \/ \E a \in Applier : step[a] = "record" /\ x <= IndexOf(a)

(* Without an overlap, one applier at a time is behind the check, and its  *)
(* entry is above everything executed so far.                              *)
Alone ==
  ~overlapped =>
    /\ \A a, b \in Applier : step[a] # "check" /\ step[b] # "check" => a = b
    /\ \A a \in Applier : step[a] # "check" => IndexOf(a) > lastAppliedIndex
    /\ \A i \in DOMAIN applied : Noted(applied[i].index)

ApplyInv == Ahead /\ Unsynced /\ Below /\ Alone

HistoryInv == StartFirst /\ OrderPerApplier /\ AppliedOnceInOrder

LogInv ==
  /\ LogTypeOK
  /\ leaderLog \in LogsOfLeaders
  /\ EntriesSent
  /\ ApplyInv
  /\ HistoryInv

(* What one accepted request with entries does to the follower's log. *)
LEMMA AcceptedLog ==
  ASSUME LogInv, NEW r \in Requests, Accepts(r), r.entries # <<>>
  PROVE  LET new == NewEntries(r)
         IN  /\ new \in Seq(Entries) /\ Len(new) = Len(r.entries)
             /\ r.prev + Len(new) <= MaxLen
             /\ \A i \in 1 .. Len(new) :
                  new[i] = [term |-> r.term, index |-> r.prev + i,
                            cmd |-> Sent(r.term, r.prev + i)]
             /\ LogsAfter(r) \in Seq(Entries)
             /\ AppendResult(logs, new, r.prev, LogsAfter(r))
<1> DEFINE new == NewEntries(r)
<1>0. leaderLog \in LogsOfLeaders
  BY DEF LogInv
<1>1. /\ new \in Seq(Entries) /\ Len(new) = Len(r.entries)
      /\ \A i \in 1 .. Len(new) :
           new[i] = [term |-> r.term, index |-> r.prev + i,
                     cmd |-> Sent(r.term, r.prev + i)]
  BY <1>0, NewShape
<1>2. r.prev \in 0 .. MaxLen /\ r.prev + Len(r.entries) <= MaxLen
  BY <1>0, RequestShape
<1>3. logs \in Seq(Entries) /\ r.prev \in Nat /\ r.prev <= Len(logs)
  BY <1>2 DEF LogInv, LogTypeOK, Entries, Accepts, Consistent
<1>4. LogsAfter(r) = AppendNew(logs, new)
  BY DEF LogsAfter
<1>5. \A i \in 1 .. Len(new) : new[i].index = r.prev + i
  <2> SUFFICES ASSUME NEW i \in 1 .. Len(new) PROVE new[i].index = r.prev + i
    OBVIOUS
  <2>1. new[i] = [term |-> r.term, index |-> r.prev + i, cmd |-> Sent(r.term, r.prev + i)]
    BY <1>1
  <2>2. QED
    BY <2>1
<1> HIDE DEF new
<1>6. LogsAfter(r) \in Seq(Entries) /\ AppendResult(logs, new, r.prev, LogsAfter(r))
  BY <1>1, <1>3, <1>4, <1>5, AppendFacts
<1>7. QED
  BY <1>1, <1>2, <1>6 DEF new

LEMMA OneElement == ASSUME NEW S, NEW x \in S PROVE <<x>> \in Seq(S)
  OBVIOUS

Executed == [by : Applier \cup {"start"}, index : 1 .. MaxLen]

(* A server starts with no log and with what it replayed. *)
LEMMA LogStarts ==
  ASSUME LogInit PROVE LogInv
<1> USE DEF LogInit
<1>1. MaxTerm \in Nat \ {0} /\ MaxLen \in Nat \ {0} /\ MaxAppliers \in Nat
  BY FollowerConstants
<1>2. leaderLog \in LogsOfLeaders
  BY <1>1 DEF LogsOfLeaders, LeaderLogs
<1>3. /\ applied \in Seq(Executed)
      /\ \A i \in DOMAIN applied : i = 1 /\ applied[i].by = "start"
                                   /\ applied[i].index = lastAppliedIndex
  <2>1. CASE lastAppliedIndex = 0
    BY <2>1
  <2>2. CASE lastAppliedIndex # 0
    <3> DEFINE x == [by |-> "start", index |-> lastAppliedIndex]
    <3>1. lastAppliedIndex \in 1 .. MaxLen /\ applied = <<x>>
      BY <1>1, <2>2
    <3>2. x \in Executed /\ x.by = "start" /\ x.index = lastAppliedIndex
      BY <3>1 DEF Executed
    <3> HIDE DEF x
    <3>3. <<x>> \in Seq(Executed) /\ DOMAIN <<x>> = {1} /\ <<x>>[1] = x
      BY <3>2, OneElement
    <3>4. QED
      BY <3>1, <3>2, <3>3
  <2>3. QED
    BY <2>1, <2>2
<1>4. HistoryInv
  BY <1>3 DEF HistoryInv, StartFirst, OrderPerApplier, AppliedOnceInOrder
<1>5. /\ step \in [Applier -> {"check", "execute", "record"}]
      /\ \A a \in Applier : step[a] = "check"
      /\ sync.at = 1 /\ sync.end = 0
      /\ sync \in [log : 1 .. MaxTerm, at : 1 .. MaxLen + 1, end : 0 .. MaxLen]
  BY <1>1
<1>6. Ahead /\ Unsynced
  BY <1>5 DEF Ahead, Unsynced, Applier
<1>7. Below
  BY <1>3 DEF Below, Applier
<1>8. Alone
  BY <1>3, <1>5 DEF Alone, Noted
<1>9. EntriesSent
  BY DEF EntriesSent
<1>10. LogTypeOK
  <2>1. synced \in BOOLEAN /\ overlapped \in BOOLEAN
    OBVIOUS
  <2>2. /\ currentTerm \in Terms /\ commitIndex \in 0 .. MaxLen /\ lastApplied \in 0 .. MaxLen
        /\ lastAppliedIndex \in 0 .. MaxLen /\ appliers \in 0 .. MaxAppliers
        /\ applying \in 0 .. MaxLen + 1
    BY <1>1 DEF Terms
  <2>3. /\ logs \in Seq([term : 1 .. MaxTerm, index : 1 .. MaxLen, cmd : Command])
        /\ Len(logs) <= MaxLen
    BY <1>1
  <2>4. QED
    BY <1>3, <1>5, <2>1, <2>2, <2>3 DEF LogTypeOK, Executed
<1>11. QED
  BY <1>2, <1>4, <1>6, <1>7, <1>8, <1>9, <1>10 DEF LogInv, ApplyInv

(* A step that executes nothing keeps the history. *)
LEMMA SameHistory ==
  ASSUME HistoryInv, applied' = applied, overlapped => overlapped', overlapped \in BOOLEAN
  PROVE  HistoryInv'
  BY DEF HistoryInv, StartFirst, OrderPerApplier, AppliedOnceInOrder

(* The bounds of the appliers are numbers. *)
LEMMA BoundTypes ==
  ASSUME LogTypeOK, Ahead, NEW a \in Applier
  PROVE  Base(a) \in Nat /\ Bound(a) \in Nat /\ Base(a) <= Bound(a)
<1>1. MaxLen \in Nat
  BY FollowerConstants
<1>2. Base(a) \in Nat
  BY <1>1 DEF LogTypeOK, Base
<1>3. step[a] # "check" => IndexOf(a) \in Nat /\ IndexOf(a) > Base(a)
  BY <1>1 DEF Ahead
<1>4. QED
  BY <1>2, <1>3 DEF Bound

(* What an applier executed stays below its bound if the bound only grows. *)
LEMMA BelowKept ==
  ASSUME LogTypeOK, Ahead, Below, LogTypeOK', Ahead', applied' = applied,
         \A a \in Applier : Bound(a) <= Bound(a)'
  PROVE  Below'
<1> SUFFICES ASSUME NEW i \in DOMAIN applied, NEW a \in Applier, applied[i].by = a
             PROVE  applied[i].index <= Bound(a)'
  BY DEF Below
<1>0. MaxLen \in Nat
  BY FollowerConstants
<1>1. Bound(a) \in Nat /\ Bound(a)' \in Nat /\ Bound(a) <= Bound(a)'
  <2>1. Base(a)' \in Nat
    <3>1. /\ lastApplied' \in 0 .. MaxLen
          /\ sync' \in [log : 1 .. MaxTerm, at : 1 .. MaxLen + 1, end : 0 .. MaxLen]
      BY DEF LogTypeOK
    <3>2. lastApplied' \in Nat /\ sync'.at - 1 \in Nat
      BY <1>0, <3>1
    <3>3. QED
      BY <3>2 DEF Base
  <2>2. step'[a] # "check" => IndexOf(a)' \in Nat
    BY <1>0 DEF Ahead
  <2>3. Bound(a)' \in Nat
    BY <2>1, <2>2 DEF Bound
  <2>4. QED
    BY <2>3, BoundTypes
<1>2. applied[i].index <= Bound(a) /\ applied[i].index \in Nat
  <2>1. applied \in Seq(Executed) /\ MaxLen \in Nat
    BY FollowerConstants DEF LogTypeOK, Executed
  <2>2. applied[i] \in Executed
    BY <2>1
  <2>3. QED
    BY <2>1, <2>2 DEF Below, Executed
<1>3. QED
  BY <1>1, <1>2

(* The entry in hand. *)
LEMMA EntryFacts ==
  ASSUME LogTypeOK, NEW a \in Applier, Applies(a)
  PROVE  /\ IndexOf(a) \in 1 .. MaxLen /\ EntryOf(a).index = IndexOf(a)
         /\ a = "loop" => applying \in 1 .. Len(logs) /\ applying <= MaxLen
         /\ a = "sync" => sync.at <= sync.end
<1>1. MaxLen \in Nat
  BY FollowerConstants
<1>2. CASE a = "loop"
  <2>1. applying \in 1 .. Len(logs) /\ applying <= MaxLen
    BY <1>1, <1>2 DEF Applies, InLoop, LogTypeOK
  <2>2. logs \in Seq(Entries)
    BY DEF LogTypeOK, Entries
  <2>3. logs[applying] \in Entries
    BY <2>1, <2>2, ElementOfSeq
  <2>4. logs[applying].index \in 1 .. MaxLen
    BY <2>3 DEF Entries
  <2>5. EntryOf(a) = logs[applying] /\ IndexOf(a) = logs[applying].index
    BY <1>2 DEF EntryOf, IndexOf
  <2>6. QED
    BY <1>2, <2>1, <2>4, <2>5
<1>3. CASE a = "sync"
  <2>1. sync.at <= sync.end /\ sync.at \in 1 .. MaxLen + 1 /\ sync.end \in 0 .. MaxLen
    BY <1>3 DEF Applies, LogTypeOK
  <2>2. EntryOf(a).index = sync.at /\ IndexOf(a) = sync.at
    BY <1>3 DEF EntryOf, IndexOf
  <2>3. QED
    BY <1>1, <1>3, <2>1, <2>2
<1>4. QED
  BY <1>2, <1>3 DEF Applier

(* What the applier and the position of the loop are after NextEntry. *)
LEMMA NextFacts ==
  ASSUME LogTypeOK, NEW a \in Applier, Applies(a), NextEntry(a), UNCHANGED logs
  PROVE  /\ applying' \in 0 .. MaxLen + 1 /\ lastApplied' \in 0 .. MaxLen
         /\ sync' \in [log : 1 .. MaxTerm, at : 1 .. MaxLen + 1, end : 0 .. MaxLen]
         /\ Base(a)' = IndexOf(a)
         /\ \A b \in Applier : b # a =>
              Base(b)' = Base(b) /\ IndexOf(b)' = IndexOf(b)
              /\ (b = "loop" => applying' = applying)
              /\ (b = "sync" => sync' = sync)
<1>1. MaxLen \in Nat
  BY FollowerConstants
<1>2. /\ IndexOf(a) \in 1 .. MaxLen /\ EntryOf(a).index = IndexOf(a)
      /\ a = "loop" => applying \in 1 .. Len(logs) /\ applying <= MaxLen
      /\ a = "sync" => sync.at <= sync.end
  BY EntryFacts
<1>3. /\ applying \in 0 .. MaxLen + 1 /\ lastApplied \in 0 .. MaxLen
      /\ sync \in [log : 1 .. MaxTerm, at : 1 .. MaxLen + 1, end : 0 .. MaxLen]
  BY DEF LogTypeOK
<1>4. CASE a = "loop"
  <2>1. applying' = applying + 1 /\ lastApplied' = IndexOf(a) /\ sync' = sync
    BY <1>2, <1>4 DEF NextEntry
  <2>2. QED
    BY <1>1, <1>2, <1>3, <1>4, <2>1 DEF Base, IndexOf, Applier
<1>5. CASE a = "sync"
  <2>1. /\ sync' = [sync EXCEPT !.at = @ + 1] /\ UNCHANGED <<applying, lastApplied>>
        /\ sync.at \in 1 .. MaxLen /\ IndexOf(a) = sync.at
    BY <1>1, <1>2, <1>3, <1>5 DEF NextEntry, IndexOf
  <2>2. /\ sync' \in [log : 1 .. MaxTerm, at : 1 .. MaxLen + 1, end : 0 .. MaxLen]
        /\ sync'.at = sync.at + 1
    BY <1>1, <1>3, <2>1
  <2>3. QED
    BY <1>1, <1>3, <1>5, <2>1, <2>2 DEF Base, IndexOf, Applier
<1>6. QED
  BY <1>4, <1>5 DEF Applier

(* A step while the loop is at its check, that changes nothing else of the *)
(* appliers than where the loop stands.                                    *)
LEMMA QuietApply ==
  ASSUME LogInv, LogTypeOK', step["loop"] = "check",
         UNCHANGED <<lastApplied, lastAppliedIndex, applyVars>>
  PROVE  ApplyInv' /\ HistoryInv'
<1>1. UNCHANGED <<sync, synced, step, applied, overlapped>>
  BY DEF applyVars
<1>2. LogTypeOK /\ Ahead /\ Unsynced /\ Below /\ Alone /\ HistoryInv
  BY DEF LogInv, ApplyInv
<1>3. \A a \in Applier : step[a] # "check" => a = "sync"
  BY DEF Applier
<1>4. \A a \in Applier : Base(a)' = Base(a)
  BY <1>1 DEF Base
<1>5. /\ Applies("sync")' = Applies("sync") /\ IndexOf("sync")' = IndexOf("sync")
      /\ "sync" \in Applier
  BY <1>1 DEF Applies, IndexOf, Applier
<1>6. Ahead'
  BY <1>1, <1>2, <1>3, <1>4, <1>5 DEF Ahead
<1>7. \A a \in Applier : Bound(a)' = Bound(a)
  BY <1>1, <1>3, <1>4, <1>5 DEF Bound
<1>8. \A a \in Applier : Bound(a) <= Bound(a)'
  BY <1>2, <1>7, BoundTypes
<1>9. Below'
  BY <1>1, <1>2, <1>6, <1>8, BelowKept
<1>10. Unsynced'
  BY <1>1, <1>2 DEF Unsynced
<1>11. \A x : Noted(x) => Noted(x)'
  BY <1>1, <1>3, <1>5 DEF Noted
<1>12. Alone'
  BY <1>1, <1>2, <1>3, <1>5, <1>11 DEF Alone
<1>13. HistoryInv'
  BY <1>1, <1>2, SameHistory DEF LogTypeOK
<1>14. QED
  BY <1>6, <1>9, <1>10, <1>12, <1>13 DEF ApplyInv

(* The loop is at its check when it has nothing to apply. *)
LEMMA LoopAtCheck ==
  ASSUME LogInv, applying = 0 \/ ~InLoop PROVE step["loop"] = "check"
<1>1. Ahead /\ "loop" \in Applier
  BY DEF LogInv, ApplyInv, Applier
<1>2. ~Applies("loop")
  BY DEF Applies
<1>3. QED
  BY <1>1, <1>2 DEF Ahead

(* A request. *)
LEMMA RequestStep ==
  ASSUME LogInv, NEW r \in Requests, AppendEntries(r) PROVE LogInv'
<1>1. MaxTerm \in Nat /\ MaxLen \in Nat /\ MaxAppliers \in Nat
  BY FollowerConstants
<1>2. LogTypeOK /\ leaderLog \in LogsOfLeaders /\ EntriesSent
  BY DEF LogInv
<1>3. /\ UNCHANGED <<lastApplied, lastAppliedIndex, applying, leaderLog, applyVars>>
      /\ AdoptTerm(r)
  BY DEF AppendEntries
<1>4. /\ r.term \in 1 .. MaxTerm /\ r.commit \in 0 .. MaxLen
  BY <1>2, RequestShape
<1>5. currentTerm' \in Terms
  BY <1>1, <1>2, <1>3, <1>4 DEF AdoptTerm, Terms, LogTypeOK
<1>6. /\ logs' \in Seq(Entries) /\ Len(logs') <= MaxLen /\ EntriesSent'
      /\ commitIndex' \in 0 .. MaxLen /\ appliers' \in 0 .. MaxAppliers
  <2>1. CASE Accepts(r) /\ r.entries # <<>>
    <3> DEFINE new == NewEntries(r)
    <3>1. /\ new \in Seq(Entries) /\ r.prev + Len(new) <= MaxLen
          /\ \A i \in 1 .. Len(new) :
               new[i] = [term |-> r.term, index |-> r.prev + i,
                         cmd |-> Sent(r.term, r.prev + i)]
          /\ logs' \in Seq(Entries) /\ AppendResult(logs, new, r.prev, logs')
      <4>1. logs' = LogsAfter(r)
        BY <2>1 DEF AppendEntries
      <4>2. QED
        BY <2>1, <4>1, AcceptedLog
    <3>2. PICK k \in r.prev .. Len(logs) :
               /\ Len(logs') = IF k < Len(new) THEN Len(new) ELSE k
               /\ \A i \in 1 .. k : logs'[i] = logs[i]
               /\ \A i \in k + 1 .. Len(new) : logs'[i] = new[i]
      BY <3>1 DEF AppendResult
    <3>3. r.prev \in 0 .. MaxLen /\ Len(logs) <= MaxLen /\ Len(logs) \in Nat
      BY <1>2, RequestShape DEF LogTypeOK
    <3> HIDE DEF new
    <3>4. Len(new) \in Nat /\ k \in Nat /\ Len(logs') \in Nat /\ Len(logs') <= MaxLen
      BY <1>1, <3>1, <3>2, <3>3
    <3>5. EntriesSent'
      <4> SUFFICES ASSUME NEW i \in 1 .. Len(logs')
                   PROVE  logs'[i].cmd
                            = <<leaderLog'[logs'[i].term][logs'[i].index], logs'[i].index>>
        BY DEF EntriesSent, Sent
      <4>1. CASE i <= k
        <5>1. logs'[i] = logs[i] /\ i \in 1 .. Len(logs)
          BY <3>2, <3>3, <3>4, <4>1
        <5>2. logs[i].cmd = <<leaderLog[logs[i].term][logs[i].index], logs[i].index>>
          BY <1>2, <5>1 DEF EntriesSent, Sent
        <5>3. QED
          BY <1>3, <5>1, <5>2
      <4>2. CASE k < i
        <5>1. i \in k + 1 .. Len(new) /\ i \in 1 .. Len(new)
          BY <3>2, <3>3, <3>4, <4>2
        <5>2. logs'[i] = [term |-> r.term, index |-> r.prev + i,
                          cmd |-> <<leaderLog[r.term][r.prev + i], r.prev + i>>]
          BY <3>1, <3>2, <5>1 DEF Sent
        <5>3. QED
          BY <1>3, <5>2
      <4>3. QED
        BY <3>4, <4>1, <4>2
    <3>6. commitIndex' \in 0 .. MaxLen
      <4>2. commitIndex' = IF r.commit > commitIndex THEN Min({r.commit, Len(logs')})
                           ELSE commitIndex
        BY <2>1 DEF AppendEntries, FollowerCommit
      <4> DEFINE S == {r.commit, Len(logs')}
      <4>3. S \in SUBSET Nat /\ S # {} /\ r.commit \in S
        BY <1>1, <1>4, <3>4
      <4>4. Min(S) \in Nat /\ Min(S) <= r.commit
        <5> HIDE DEF S
        <5>1. QED
          BY <4>3, HasLeast
      <4>5. QED
        BY <1>1, <1>2, <1>4, <4>2, <4>4 DEF LogTypeOK
    <3>7. appliers' \in 0 .. MaxAppliers
      BY <1>1, <1>2, <2>1 DEF AppendEntries, LogTypeOK
    <3>8. QED
      BY <3>1, <3>4, <3>5, <3>6, <3>7
  <2>2. CASE ~(Accepts(r) /\ r.entries # <<>>)
    <3>1. UNCHANGED <<logs, commitIndex, appliers>>
      BY <2>2 DEF AppendEntries
    <3>2. EntriesSent'
      BY <1>2, <1>3, <3>1 DEF EntriesSent, Sent
    <3>3. QED
      BY <1>2, <3>1, <3>2 DEF LogTypeOK, Entries
  <2>3. QED
    BY <2>1, <2>2
<1>7. LogTypeOK'
  BY <1>2, <1>3, <1>5, <1>6 DEF LogTypeOK, Entries, applyVars
<1>8. step["loop"] = "check"
  BY LoopAtCheck DEF AppendEntries
<1>9. QED
  BY <1>2, <1>3, <1>6, <1>7, <1>8, QuietApply DEF LogInv

(* The loop of applyCommittedLogs, and the answer to SyncLogs. *)
LEMMA LoopStep ==
  ASSUME LogInv, BeginApply \/ PassEntry \/ EndApply PROVE LogInv'
<1>1. MaxTerm \in Nat /\ MaxLen \in Nat /\ MaxAppliers \in Nat
  BY FollowerConstants
<1>2. LogTypeOK /\ leaderLog \in LogsOfLeaders /\ EntriesSent
  BY DEF LogInv
<1>3. UNCHANGED <<currentTerm, logs, commitIndex, lastApplied, lastAppliedIndex, leaderLog,
                  applyVars>>
  BY DEF BeginApply, PassEntry, EndApply
<1>4. EntriesSent' /\ leaderLog' \in LogsOfLeaders
  BY <1>2, <1>3 DEF EntriesSent, Sent
<1>5. appliers' \in 0 .. MaxAppliers /\ applying' \in 0 .. MaxLen + 1
  <2>1. CASE BeginApply \/ EndApply
    BY <1>1, <1>2, <2>1 DEF BeginApply, EndApply, LogTypeOK
  <2>2. CASE PassEntry
    <3>1. Applies("loop") /\ applying' = applying + 1 /\ appliers' = appliers
          /\ "loop" \in Applier
      BY <2>2 DEF PassEntry, Applier
    <3>2. applying \in 1 .. Len(logs) /\ applying <= MaxLen
      BY <1>2, <3>1, EntryFacts
    <3>3. applying' \in 0 .. MaxLen + 1
      BY <1>1, <3>1, <3>2
    <3>4. QED
      BY <1>2, <3>1, <3>3 DEF LogTypeOK
  <2>3. QED
    BY <2>1, <2>2
<1>6. LogTypeOK'
  BY <1>2, <1>3, <1>5 DEF LogTypeOK, applyVars
<1>7. step["loop"] = "check"
  BY LoopAtCheck DEF BeginApply, PassEntry, EndApply
<1>8. QED
  BY <1>3, <1>4, <1>6, <1>7, QuietApply DEF LogInv

LEMMA SyncStep ==
  ASSUME LogInv, NEW t \in 1 .. MaxTerm, NEW s \in Slices, s[2] \in 1 .. MaxSync,
         StartSync(t, s[1], s[2])
  PROVE  LogInv'
<1>1. MaxLen \in Nat /\ MaxBatch \in Nat /\ MaxSync \in Nat
  BY FollowerConstants
<1>2. PICK p \in 0 .. MaxLen, n \in 0 .. MaxBatch : s = <<p, n>> /\ p + n <= MaxLen
  BY DEF Slices
<1>3. /\ s[1] = p /\ s[2] = n /\ n \in 1 .. MaxSync
  BY <1>2
<1>4. /\ ~synced /\ synced' /\ sync' = [log |-> t, at |-> p + 1, end |-> p + n]
      /\ UNCHANGED <<currentTerm, logs, commitIndex, lastApplied, lastAppliedIndex, appliers,
                     applying, leaderLog, step, applied, overlapped>>
  BY <1>3 DEF StartSync
<1>5. /\ LogTypeOK /\ leaderLog \in LogsOfLeaders /\ EntriesSent /\ HistoryInv
      /\ Ahead /\ Unsynced /\ Below /\ Alone
  BY DEF LogInv, ApplyInv
<1>6. /\ sync' \in [log : 1 .. MaxTerm, at : 1 .. MaxLen + 1, end : 0 .. MaxLen]
      /\ sync'.at = p + 1 /\ p \in Nat
  BY <1>1, <1>2, <1>3, <1>4
<1>7. LogTypeOK'
  BY <1>4, <1>5, <1>6 DEF LogTypeOK
<1>8. step["sync"] = "check" /\ sync.at = 1
  BY <1>4, <1>5 DEF Unsynced
<1>9. \A a \in Applier : step[a] # "check" => a = "loop"
  BY <1>8 DEF Applier
<1>10. /\ Applies("loop")' = Applies("loop") /\ IndexOf("loop")' = IndexOf("loop")
       /\ Base("loop")' = Base("loop")
  BY <1>4 DEF Applies, InLoop, IndexOf, Base
<1>11. Ahead'
  BY <1>4, <1>5, <1>9, <1>10 DEF Ahead
<1>12. \A a \in Applier : Bound(a) <= Bound(a)'
  <2>1. Bound("sync") = 0 /\ Bound("sync")' = p
    BY <1>4, <1>6, <1>8 DEF Bound, Base
  <2>2. Bound("loop")' = Bound("loop") /\ Bound("loop") \in Nat
    BY <1>4, <1>5, <1>10, BoundTypes DEF Bound, Applier
  <2>3. QED
    BY <1>6, <2>1, <2>2 DEF Applier
<1>13. Below'
  BY <1>4, <1>5, <1>7, <1>11, <1>12, BelowKept
<1>14. \A x : Noted(x) => Noted(x)'
  BY <1>4, <1>9, <1>10 DEF Noted
<1>15. Alone'
  BY <1>4, <1>5, <1>9, <1>10, <1>14 DEF Alone
<1>16. HistoryInv'
  BY <1>4, <1>5, SameHistory DEF LogTypeOK
<1>17. EntriesSent' /\ leaderLog' \in LogsOfLeaders /\ Unsynced'
  BY <1>4, <1>5 DEF EntriesSent, Sent, Unsynced
<1>18. QED
  BY <1>7, <1>11, <1>13, <1>15, <1>16, <1>17 DEF LogInv, ApplyInv

(* An entry that is not executed. *)
LEMMA SkipStep ==
  ASSUME LogInv, NEW a \in Applier, SkipEntry(a) \/ BadEntry(a) PROVE LogInv'
<1>1. MaxLen \in Nat
  BY FollowerConstants
<1>2. /\ LogTypeOK /\ leaderLog \in LogsOfLeaders /\ EntriesSent /\ HistoryInv
      /\ Ahead /\ Unsynced /\ Below /\ Alone
  BY DEF LogInv, ApplyInv
<1>3. /\ step[a] = "check" /\ Applies(a) /\ (a = "loop" => EntryOf(a).index > lastApplied)
      /\ UNCHANGED <<currentTerm, logs, commitIndex, lastAppliedIndex, appliers, leaderLog,
                     synced, step, applied, overlapped>>
  BY DEF SkipEntry, BadEntry, Checks
<1>4. /\ IndexOf(a) \in 1 .. MaxLen /\ EntryOf(a).index = IndexOf(a)
      /\ a = "sync" => sync.at <= sync.end
  BY <1>2, <1>3, EntryFacts
<1>5. IndexOf(a) > Base(a) /\ Base(a) \in Nat
  BY <1>1, <1>2, <1>3, <1>4 DEF Base, IndexOf, LogTypeOK, Applier
<1>6. /\ applying' \in 0 .. MaxLen + 1 /\ lastApplied' \in 0 .. MaxLen
      /\ sync' \in [log : 1 .. MaxTerm, at : 1 .. MaxLen + 1, end : 0 .. MaxLen]
      /\ Base(a) <= Base(a)'
      /\ \A b \in Applier : b # a =>
           Base(b)' = Base(b) /\ IndexOf(b)' = IndexOf(b) /\ Applies(b)' = Applies(b)
  <2>1. CASE NextEntry(a)
    <3>1. /\ applying' \in 0 .. MaxLen + 1 /\ lastApplied' \in 0 .. MaxLen
          /\ sync' \in [log : 1 .. MaxTerm, at : 1 .. MaxLen + 1, end : 0 .. MaxLen]
          /\ Base(a)' = IndexOf(a)
          /\ \A b \in Applier : b # a =>
               Base(b)' = Base(b) /\ IndexOf(b)' = IndexOf(b)
               /\ (b = "loop" => applying' = applying)
               /\ (b = "sync" => sync' = sync)
      BY <1>2, <1>3, <2>1, NextFacts
    <3>2. \A b \in Applier : b # a => Applies(b)' = Applies(b)
      BY <1>3, <3>1 DEF Applies, InLoop, Applier
    <3>3. Base(a) <= Base(a)'
      BY <1>1, <1>4, <1>5, <3>1
    <3>4. QED
      BY <3>1, <3>2, <3>3
  <2>2. CASE a = "loop" /\ applying' = 0 /\ UNCHANGED <<sync, lastApplied>>
    <3>1. Base(a)' = Base(a)
      BY <2>2 DEF Base
    <3>2. \A b \in Applier : b # a =>
            Base(b)' = Base(b) /\ IndexOf(b)' = IndexOf(b) /\ Applies(b)' = Applies(b)
      BY <1>3, <2>2 DEF Base, IndexOf, Applies, Applier
    <3>3. QED
      BY <1>1, <1>2, <1>5, <2>2, <3>1, <3>2 DEF LogTypeOK
  <2>3. QED
    BY <2>1, <2>2 DEF SkipEntry, BadEntry
<1>7. LogTypeOK'
  BY <1>2, <1>3, <1>6 DEF LogTypeOK
<1>8. \A b \in Applier : step[b] # "check" => b # a
  BY <1>3
<1>9. Ahead'
  BY <1>2, <1>3, <1>6, <1>8 DEF Ahead
<1>10. ASSUME NEW b \in Applier PROVE Bound(b) <= Bound(b)'
  <2>1. CASE b = a
    BY <1>3, <1>6, <2>1 DEF Bound
  <2>2. CASE b # a
    BY <1>2, <1>3, <1>6, <2>2, BoundTypes DEF Bound
  <2>3. QED
    BY <2>1, <2>2
<1>11. Below'
  BY <1>2, <1>3, <1>7, <1>9, <1>10, BelowKept
<1>12. \A x : Noted(x) => Noted(x)'
  BY <1>3, <1>6, <1>8 DEF Noted
<1>13. Alone'
  BY <1>2, <1>3, <1>6, <1>8, <1>12 DEF Alone
<1>14. HistoryInv'
  BY <1>2, <1>3, SameHistory DEF LogTypeOK
<1>15. Unsynced'
  <2>1. CASE synced
    BY <1>3, <2>1 DEF Unsynced
  <2>2. CASE ~synced
    <3>1. sync.at = 1 /\ sync.end = 0 /\ step["sync"] = "check"
      BY <1>2, <2>2 DEF Unsynced
    <3>2. a = "loop"
      BY <1>4, <3>1 DEF Applier
    <3>3. sync' = sync
      BY <3>2 DEF SkipEntry, BadEntry, NextEntry
    <3>4. QED
      BY <1>3, <3>1, <3>3 DEF Unsynced
  <2>3. QED
    BY <2>1, <2>2
<1>16. EntriesSent' /\ leaderLog' \in LogsOfLeaders
  BY <1>2, <1>3 DEF EntriesSent, Sent
<1>17. QED
  BY <1>7, <1>9, <1>11, <1>13, <1>14, <1>15, <1>16 DEF LogInv, ApplyInv

(* The check of ApplyLogToStateMachine. *)
LEMMA CheckStep ==
  ASSUME LogInv, NEW a \in Applier, CheckEntry(a) PROVE LogInv'
<1>1. MaxLen \in Nat
  BY FollowerConstants
<1>2. /\ LogTypeOK /\ leaderLog \in LogsOfLeaders /\ EntriesSent /\ HistoryInv
      /\ Ahead /\ Unsynced /\ Below /\ Alone
  BY DEF LogInv, ApplyInv
<1>3. /\ step[a] = "check" /\ Applies(a) /\ (a = "loop" => EntryOf(a).index > lastApplied)
      /\ EntryOf(a).index > lastAppliedIndex
      /\ step' = [step EXCEPT ![a] = "execute"]
      /\ overlapped' = (overlapped \/ \E b \in Applier \ {a} : step[b] # "check")
      /\ UNCHANGED <<currentTerm, logs, commitIndex, lastApplied, lastAppliedIndex, appliers,
                     applying, leaderLog, sync, synced, applied>>
  BY DEF CheckEntry, Checks, GoTo
<1>4. /\ IndexOf(a) \in 1 .. MaxLen /\ EntryOf(a).index = IndexOf(a)
      /\ a = "sync" => sync.at <= sync.end
  BY <1>2, <1>3, EntryFacts
<1>5. IndexOf(a) > Base(a) /\ IndexOf(a) > lastAppliedIndex
  BY <1>1, <1>2, <1>3, <1>4 DEF Base, IndexOf, LogTypeOK, Applier
<1>6. /\ step' \in [Applier -> {"check", "execute", "record"}]
      /\ step'[a] = "execute"
      /\ \A b \in Applier : b # a => step'[b] = step[b]
  BY <1>2, <1>3 DEF LogTypeOK
<1>7. overlapped' \in BOOLEAN /\ (overlapped => overlapped')
  BY <1>2, <1>3 DEF LogTypeOK
<1>8. LogTypeOK'
  BY <1>2, <1>3, <1>6, <1>7 DEF LogTypeOK
<1>9. \A b \in Applier :
        Base(b)' = Base(b) /\ IndexOf(b)' = IndexOf(b) /\ Applies(b)' = Applies(b)
  BY <1>3 DEF Base, IndexOf, Applies, InLoop
<1>10. Ahead'
  <2> SUFFICES ASSUME NEW b \in Applier, step'[b] # "check"
               PROVE  Applies(b) /\ IndexOf(b) \in 1 .. MaxLen /\ IndexOf(b) > Base(b)
    BY <1>9 DEF Ahead
  <2>1. CASE b = a
    BY <1>3, <1>4, <1>5, <2>1
  <2>2. CASE b # a
    BY <1>2, <1>6, <2>2 DEF Ahead
  <2>3. QED
    BY <2>1, <2>2
<1>11. \A b \in Applier : Bound(b)' = Bound(b)
  BY <1>3, <1>6, <1>9 DEF Bound
<1>12. \A b \in Applier : Bound(b) <= Bound(b)'
  BY <1>2, <1>11, BoundTypes
<1>13. Below'
  BY <1>2, <1>3, <1>8, <1>10, <1>12, BelowKept
<1>14. \A x : Noted(x) => Noted(x)'
  BY <1>3, <1>6, <1>9 DEF Noted
<1>15. Alone'
  <2> SUFFICES ASSUME ~overlapped'
               PROVE  /\ \A b, c \in Applier : step'[b] # "check" /\ step'[c] # "check" => b = c
                      /\ \A b \in Applier : step'[b] # "check" => IndexOf(b)' > lastAppliedIndex'
                      /\ \A i \in DOMAIN applied : Noted(applied[i].index)
    BY <1>3, <1>14 DEF Alone
  <2>1. ~overlapped /\ \A b \in Applier : b # a => step[b] = "check"
    BY <1>3
  <2>2. \A b \in Applier : step'[b] # "check" => b = a
    BY <1>6, <2>1
  <2>3. \A b \in Applier : step'[b] # "check" => IndexOf(b)' > lastAppliedIndex'
    BY <1>3, <1>5, <1>9, <2>2
  <2>4. \A i \in DOMAIN applied : Noted(applied[i].index)
    BY <1>2, <2>1 DEF Alone
  <2>5. QED
    BY <2>2, <2>3, <2>4
<1>16. HistoryInv'
  BY <1>2, <1>3, <1>7, SameHistory DEF LogTypeOK
<1>17. Unsynced'
  <2>1. ~synced => a # "sync"
    BY <1>4, <1>2 DEF Unsynced
  <2>2. QED
    BY <1>2, <1>3, <1>6, <2>1 DEF Unsynced, Applier
<1>18. EntriesSent' /\ leaderLog' \in LogsOfLeaders
  BY <1>2, <1>3 DEF EntriesSent, Sent
<1>19. QED
  BY <1>8, <1>10, <1>13, <1>15, <1>16, <1>17, <1>18 DEF LogInv, ApplyInv

(* The entry is executed. *)
LEMMA ExecuteStep ==
  ASSUME LogInv, NEW a \in Applier, ExecuteEntry(a) PROVE LogInv'
<1>1. MaxLen \in Nat
  BY FollowerConstants
<1>2. /\ LogTypeOK /\ leaderLog \in LogsOfLeaders /\ EntriesSent /\ HistoryInv
      /\ Ahead /\ Unsynced /\ Below /\ Alone
  BY DEF LogInv, ApplyInv
<1>3. /\ step[a] = "execute" /\ step' = [step EXCEPT ![a] = "record"]
      /\ applied' = Append(applied, [by |-> a, index |-> EntryOf(a).index])
      /\ UNCHANGED <<currentTerm, logs, commitIndex, lastApplied, lastAppliedIndex, appliers,
                     applying, leaderLog, sync, synced, overlapped>>
  BY DEF ExecuteEntry, GoTo
<1>4. Applies(a) /\ IndexOf(a) > Base(a)
  BY <1>2, <1>3 DEF Ahead
<1>5. IndexOf(a) \in 1 .. MaxLen /\ EntryOf(a).index = IndexOf(a)
  BY <1>2, <1>4, EntryFacts
<1> DEFINE x == [by |-> a, index |-> IndexOf(a)]
           n == Len(applied)
<1>6. x \in Executed /\ x.by = a /\ x.index = IndexOf(a)
  BY <1>5 DEF Executed
<1>7. applied \in Seq(Executed) /\ applied' = Append(applied, x)
  BY <1>2, <1>3, <1>5 DEF LogTypeOK, Executed
<1> HIDE DEF x
<1>8. /\ n \in Nat /\ DOMAIN applied = 1 .. n /\ DOMAIN applied' = 1 .. n + 1
      /\ applied' \in Seq(Executed)
      /\ \A i \in 1 .. n : applied'[i] = applied[i] /\ applied[i] \in Executed
      /\ applied'[n + 1] = x
  <2>1. /\ applied' \in Seq(Executed) /\ Len(applied') = n + 1
        /\ \A i \in 1 .. n : applied'[i] = applied[i]
        /\ applied'[n + 1] = x
    BY <1>6, <1>7, AppendProperties
  <2>2. \A i \in 1 .. n : applied[i] \in Executed
    BY <1>7, ElementOfSeq
  <2>3. QED
    BY <1>7, <2>1, <2>2
<1>9. \A i \in 1 .. n : applied[i].index \in Nat
  BY <1>1, <1>8 DEF Executed
<1> HIDE DEF n
<1>10. /\ step' \in [Applier -> {"check", "execute", "record"}]
       /\ step'[a] = "record"
       /\ \A b \in Applier : b # a => step'[b] = step[b]
  BY <1>2, <1>3 DEF LogTypeOK
<1>11. LogTypeOK'
  BY <1>2, <1>3, <1>8, <1>10 DEF LogTypeOK, Executed
<1>12. \A b \in Applier :
        Base(b)' = Base(b) /\ IndexOf(b)' = IndexOf(b) /\ Applies(b)' = Applies(b)
  BY <1>3 DEF Base, IndexOf, Applies, InLoop
<1>13. Ahead'
  BY <1>2, <1>3, <1>10, <1>12 DEF Ahead
<1>14. \A i \in 1 .. n : applied[i].by = a => applied[i].index <= Base(a)
  BY <1>2, <1>3, <1>8 DEF Below, Bound
<1>15. Base(a) \in Nat
  BY <1>2, BoundTypes
<1>16. \A b \in Applier : b # a => Bound(b)' = Bound(b)
  BY <1>10, <1>12 DEF Bound
<1>17. Bound(a)' = IndexOf(a)
  BY <1>10, <1>12 DEF Bound
<1>18. Below'
  <2> SUFFICES ASSUME NEW i \in 1 .. n + 1, NEW b \in Applier, applied'[i].by = b
               PROVE  applied'[i].index <= Bound(b)'
    BY <1>8 DEF Below
  <2>1. CASE i = n + 1
    BY <1>1, <1>5, <1>6, <1>8, <1>17, <2>1
  <2>2. CASE i \in 1 .. n /\ b = a
    BY <1>1, <1>4, <1>5, <1>8, <1>9, <1>14, <1>15, <1>17, <2>2
  <2>3. CASE i \in 1 .. n /\ b # a
    BY <1>2, <1>8, <1>16, <2>3 DEF Below
  <2>4. QED
    BY <1>8, <2>1, <2>2, <2>3
<1>19. StartFirst'
  <2>1. x.by # "start"
    BY <1>6 DEF Applier
  <2>2. QED
    BY <1>2, <1>8, <2>1 DEF HistoryInv, StartFirst
<1>20. OrderPerApplier'
  <2> SUFFICES ASSUME NEW i \in 1 .. n + 1, NEW j \in 1 .. n + 1, i < j,
                      applied'[i].by = applied'[j].by
               PROVE  applied'[i].index < applied'[j].index
    BY <1>8 DEF OrderPerApplier
  <2>1. i \in 1 .. n
    BY <1>8
  <2>2. CASE j = n + 1
    <3>1. applied[i].by = a /\ applied'[j].index = IndexOf(a)
      BY <1>6, <1>8, <2>1, <2>2
    <3>2. applied[i].index <= Base(a)
      BY <1>14, <2>1, <3>1
    <3>3. QED
      BY <1>1, <1>4, <1>5, <1>8, <1>9, <1>15, <2>1, <3>1, <3>2
  <2>3. CASE j \in 1 .. n
    BY <1>2, <1>8, <2>1, <2>3 DEF HistoryInv, OrderPerApplier
  <2>4. QED
    BY <1>8, <2>2, <2>3
<1>21. Alone' /\ AppliedOnceInOrder'
  <2>1. CASE overlapped
    BY <1>3, <2>1 DEF Alone, AppliedOnceInOrder
  <2>2. CASE ~overlapped
    <3>1. /\ \A b \in Applier : step[b] # "check" => b = a
          /\ IndexOf(a) > lastAppliedIndex
          /\ \A i \in 1 .. n : Noted(applied[i].index)
      BY <1>2, <1>3, <1>8, <2>2 DEF Alone
    <3>2. \A i \in 1 .. n : applied[i].index <= lastAppliedIndex
      BY <1>3, <3>1 DEF Noted
    <3>3. \A b \in Applier : step'[b] # "check" => b = a
      BY <1>10, <3>1
    <3>4. \A b \in Applier : step'[b] # "check" => IndexOf(b)' > lastAppliedIndex'
      BY <1>3, <1>12, <3>1, <3>3
    <3>5. ASSUME NEW i \in 1 .. n + 1
          PROVE  applied'[i].index <= lastAppliedIndex'
                 \/ \E b \in Applier : step'[b] = "record" /\ applied'[i].index <= IndexOf(b)'
      <4>1. CASE i = n + 1
        <5>1. applied'[i].index = IndexOf(a)
          BY <1>6, <1>8, <4>1
        <5>2. step'[a] = "record" /\ applied'[i].index <= IndexOf(a)'
          BY <1>1, <1>5, <1>10, <1>12, <5>1
        <5>3. QED
          BY <5>2
      <4>2. CASE i \in 1 .. n
        BY <1>3, <1>8, <3>2, <4>2
      <4>3. QED
        BY <1>8, <4>1, <4>2
    <3>6. Alone'
      BY <1>8, <3>3, <3>4, <3>5 DEF Alone, Noted
    <3>7. AppliedOnceInOrder'
      <4> SUFFICES ASSUME NEW i \in 1 .. n + 1, NEW j \in 1 .. n + 1, i < j
                   PROVE  applied'[i].index < applied'[j].index
        BY <1>8 DEF AppliedOnceInOrder
      <4>1. i \in 1 .. n
        BY <1>8
      <4>2. CASE j = n + 1
        <5>1. applied'[i].index <= lastAppliedIndex /\ applied'[j].index = IndexOf(a)
          BY <1>6, <1>8, <3>2, <4>1, <4>2
        <5>2. applied'[i].index \in Nat /\ lastAppliedIndex \in Nat /\ IndexOf(a) \in Nat
          BY <1>1, <1>2, <1>5, <1>8, <1>9, <4>1 DEF LogTypeOK
        <5>3. QED
          BY <3>1, <5>1, <5>2
      <4>3. CASE j \in 1 .. n
        BY <1>2, <1>8, <2>2, <4>1, <4>3 DEF HistoryInv, AppliedOnceInOrder
      <4>4. QED
        BY <1>8, <4>2, <4>3
    <3>8. QED
      BY <3>6, <3>7
  <2>3. QED
    BY <2>1, <2>2
<1>22. Unsynced'
  BY <1>2, <1>3, <1>10 DEF Unsynced, Applier
<1>23. EntriesSent' /\ leaderLog' \in LogsOfLeaders
  BY <1>2, <1>3 DEF EntriesSent, Sent
<1>24. QED
  BY <1>11, <1>13, <1>18, <1>19, <1>20, <1>21, <1>22, <1>23
     DEF LogInv, ApplyInv, HistoryInv

(* The index is recorded. *)
LEMMA RecordStep ==
  ASSUME LogInv, NEW a \in Applier, RecordEntry(a) PROVE LogInv'
<1>1. MaxLen \in Nat
  BY FollowerConstants
<1>2. /\ LogTypeOK /\ leaderLog \in LogsOfLeaders /\ EntriesSent /\ HistoryInv
      /\ Ahead /\ Unsynced /\ Below /\ Alone
  BY DEF LogInv, ApplyInv
<1>3. /\ step[a] = "record" /\ step' = [step EXCEPT ![a] = "check"]
      /\ lastAppliedIndex' = EntryOf(a).index /\ NextEntry(a)
      /\ UNCHANGED <<currentTerm, logs, commitIndex, appliers, leaderLog, synced, applied,
                     overlapped>>
  BY DEF RecordEntry, GoTo
<1>4. Applies(a) /\ IndexOf(a) > Base(a)
  BY <1>2, <1>3 DEF Ahead
<1>5. IndexOf(a) \in 1 .. MaxLen /\ EntryOf(a).index = IndexOf(a)
  BY <1>2, <1>4, EntryFacts
<1>6. /\ applying' \in 0 .. MaxLen + 1 /\ lastApplied' \in 0 .. MaxLen
      /\ sync' \in [log : 1 .. MaxTerm, at : 1 .. MaxLen + 1, end : 0 .. MaxLen]
      /\ Base(a)' = IndexOf(a)
      /\ \A b \in Applier : b # a =>
           Base(b)' = Base(b) /\ IndexOf(b)' = IndexOf(b)
           /\ (b = "loop" => applying' = applying)
           /\ (b = "sync" => sync' = sync)
  BY <1>2, <1>3, <1>4, NextFacts
<1>7. \A b \in Applier : b # a => Applies(b)' = Applies(b)
  BY <1>3, <1>6 DEF Applies, InLoop, Applier
<1>8. /\ step' \in [Applier -> {"check", "execute", "record"}]
      /\ step'[a] = "check"
      /\ \A b \in Applier : b # a => step'[b] = step[b]
  BY <1>2, <1>3 DEF LogTypeOK
<1>9. lastAppliedIndex' = IndexOf(a) /\ lastAppliedIndex' \in 0 .. MaxLen
  BY <1>1, <1>3, <1>5
<1>10. LogTypeOK'
  BY <1>2, <1>3, <1>6, <1>8, <1>9 DEF LogTypeOK
<1>11. Ahead'
  BY <1>2, <1>6, <1>7, <1>8 DEF Ahead
<1>12. ASSUME NEW b \in Applier PROVE Bound(b) <= Bound(b)'
  <2>1. CASE b = a
    BY <1>1, <1>3, <1>5, <1>6, <1>8, <2>1 DEF Bound
  <2>2. CASE b # a
    <3>1. Bound(b)' = Bound(b)
      BY <1>6, <1>8, <2>2 DEF Bound
    <3>2. QED
      BY <1>2, <3>1, BoundTypes
  <2>3. QED
    BY <2>1, <2>2
<1>13. Below'
  BY <1>2, <1>3, <1>10, <1>11, <1>12, BelowKept
<1>14. Alone'
  <2> SUFFICES ASSUME ~overlapped' PROVE
                 /\ \A b \in Applier : step'[b] = "check"
                 /\ \A i \in DOMAIN applied : applied[i].index <= IndexOf(a)
    BY <1>3, <1>9 DEF Alone, Noted
  <2>1. /\ \A b \in Applier : step[b] # "check" => b = a
        /\ IndexOf(a) > lastAppliedIndex
        /\ \A i \in DOMAIN applied : Noted(applied[i].index)
    BY <1>2, <1>3 DEF Alone
  <2>2. \A b \in Applier : step'[b] = "check"
    BY <1>8, <2>1
  <2>3. ASSUME NEW i \in DOMAIN applied PROVE applied[i].index <= IndexOf(a)
    <3>1. applied \in Seq(Executed)
      BY <1>2 DEF LogTypeOK, Executed
    <3>2. applied[i].index \in Nat
      <4>1. applied[i] \in Executed
        BY <3>1
      <4>2. QED
        BY <1>1, <4>1 DEF Executed
    <3>3. applied[i].index <= lastAppliedIndex \/ applied[i].index <= IndexOf(a)
      BY <2>1 DEF Noted
    <3>4. lastAppliedIndex \in Nat /\ IndexOf(a) \in Nat
      BY <1>1, <1>2, <1>5 DEF LogTypeOK
    <3>5. QED
      BY <2>1, <3>2, <3>3, <3>4
  <2>4. QED
    BY <2>2, <2>3
<1>15. HistoryInv'
  BY <1>2, <1>3, SameHistory DEF LogTypeOK
<1>16. Unsynced'
  <2>1. ~synced => a # "sync"
    BY <1>2, <1>3 DEF Unsynced
  <2>2. QED
    BY <1>2, <1>3, <1>6, <1>8, <2>1 DEF Unsynced, Applier
<1>17. EntriesSent' /\ leaderLog' \in LogsOfLeaders
  BY <1>2, <1>3 DEF EntriesSent, Sent
<1>18. QED
  BY <1>10, <1>11, <1>13, <1>14, <1>15, <1>16, <1>17 DEF LogInv, ApplyInv

LEMMA LogStep ==
  ASSUME LogInv, [LogNext]_logVars PROVE LogInv'
<1>1. CASE LogNext
  BY <1>1, RequestStep, LoopStep, SyncStep, SkipStep, CheckStep, ExecuteStep, RecordStep
     DEF LogNext, ApplyLogToStateMachine
<1>2. CASE UNCHANGED logVars
  <2>1. UNCHANGED <<currentTerm, logs, commitIndex, lastApplied, lastAppliedIndex, appliers,
                    applying, leaderLog, sync, synced, step, applied, overlapped>>
    BY <1>2 DEF logVars, applyVars
  <2>2. /\ LogTypeOK' = LogTypeOK /\ EntriesSent' = EntriesSent
        /\ HistoryInv' = HistoryInv
    BY <2>1 DEF LogTypeOK, EntriesSent, Sent, HistoryInv, StartFirst, OrderPerApplier,
                AppliedOnceInOrder
  <2>3. \A a \in Applier :
          Base(a)' = Base(a) /\ IndexOf(a)' = IndexOf(a) /\ Applies(a)' = Applies(a)
    BY <2>1 DEF Base, IndexOf, Applies, InLoop
  <2>4. ApplyInv' = ApplyInv
    BY <2>1, <2>3 DEF ApplyInv, Ahead, Unsynced, Below, Bound, Alone, Noted
  <2>5. QED
    BY <2>1, <2>2, <2>4 DEF LogInv
<1>3. QED
  BY <1>1, <1>2

LEMMA LogInvariant ==
  LogSpec => []LogInv
  BY LogStarts, LogStep, PTL DEF LogSpec

(* Every field of the follower stays in its declared range; the log never  *)
(* outgrows the leaders' logs and commitIndex never passes what a leader   *)
(* can have committed.                                                     *)
THEOREM LogTypeCorrect ==
  LogSpec => []LogTypeOK
<1>1. LogInv => LogTypeOK
  BY DEF LogInv
<1>2. QED
  BY <1>1, LogInvariant, PTL

(* For any logs of the leaders, any requests, any number of goroutines     *)
(* running applyCommittedLogs and any sync beside them: neither applier    *)
(* executes an index twice or after a higher one, even when the other sets *)
(* lastAppliedIndex back.                                                  *)
THEOREM AppliersKeepOrder ==
  LogSpec => []OrderPerApplier
<1>1. LogInv => OrderPerApplier
  BY DEF LogInv, HistoryInv
<1>2. QED
  BY <1>1, LogInvariant, PTL

(* As long as the two appliers are never behind the check of               *)
(* ApplyLogToStateMachine at the same time, no index is executed twice and *)
(* none out of order, whatever was replayed before.                        *)
THEOREM AppliesOnceInOrder ==
  LogSpec => []AppliedOnceInOrder
<1>1. LogInv => AppliedOnceInOrder
  BY DEF LogInv, HistoryInv
<1>2. QED
  BY <1>1, LogInvariant, PTL

(* An accepted request leaves the log up to PrevLogIndex as it was. *)
LEMMA PrefixKept ==
  ASSUME LogInv, NEW r \in Requests, Accepts(r),
         r.entries # <<>>
  PROVE  SubSeq(LogsAfter(r), 1, r.prev) = SubSeq(logs, 1, r.prev)
<1> DEFINE new == NewEntries(r)
           after == LogsAfter(r)
<1>1. after \in Seq(Entries) /\ new \in Seq(Entries) /\ AppendResult(logs, new, r.prev, after)
  BY AcceptedLog
<1>2. leaderLog \in LogsOfLeaders
  BY DEF LogInv
<1>3. r.prev \in Nat /\ logs \in Seq(Entries)
  BY <1>2, RequestShape DEF LogInv, LogTypeOK, Entries
<1> HIDE DEF new, after
<1>4. PICK k \in r.prev .. Len(logs) :
         /\ Len(after) = IF k < Len(new) THEN Len(new) ELSE k
         /\ \A i \in 1 .. k : after[i] = logs[i]
  BY <1>1 DEF AppendResult
<1>5. r.prev <= Len(logs) /\ r.prev <= Len(after) /\ \A i \in 1 .. r.prev : after[i] = logs[i]
  BY <1>1, <1>3, <1>4
<1>6. QED
  BY <1>1, <1>3, <1>5, SamePrefix DEF after

(* Truncation and append only happen behind the entry that AppendEntries   *)
(* checked: an accepted request never touches the log up to PrevLogIndex.  *)
THEOREM PrefixIsKept ==
  LogSpec => []CheckedPrefixKept
<1>1. LogInv => CheckedPrefixKept
  BY PrefixKept DEF CheckedPrefixKept
<1>2. QED
  BY <1>1, LogInvariant, PTL

(* A request that starts at the first entry leaves the log of Raft's rule. *)
LEMMA FullRequest ==
  ASSUME LogInv, NEW r \in Requests, Accepts(r),
         r.prev = 0, r.entries # <<>>, Aligned
  PROVE  LogsAfter(r) = RaftAppend(logs, r)
<1> DEFINE new == NewEntries(r)
           after == LogsAfter(r)
<1>1. /\ after \in Seq(Entries) /\ new \in Seq(Entries)
      /\ AppendResult(logs, new, 0, after)
      /\ \A i \in 1 .. Len(new) :
           new[i] = [term |-> r.term, index |-> 0 + i, cmd |-> Sent(r.term, 0 + i)]
  BY AcceptedLog
<1>2. logs \in Seq(Entries) /\ EntriesSent
  BY DEF LogInv, LogTypeOK, Entries
<1>3. \A i \in 1 .. Len(logs) : logs[i].index = i /\ logs[i] \in Entries
  BY <1>2, ElementOfSeq DEF Aligned
<1> DEFINE C == Conflicts(logs, new)
<1>4. /\ (C = {} /\ 0 + Len(new) <= Len(logs)) => RaftAppend(logs, r) = logs
      /\ ~(C = {} /\ 0 + Len(new) <= Len(logs)) =>
            RaftAppend(logs, r) = SubSeq(logs, 1, 0) \o new
  BY DEF RaftAppend
<1>5. PICK k \in 0 .. Len(logs) :
         /\ Len(after) = IF k < Len(new) THEN Len(new) ELSE k
         /\ \A i \in 1 .. k : after[i] = logs[i]
         /\ \A i \in k + 1 .. Len(new) : after[i] = new[i]
         /\ \A i \in 1 .. Len(new) : 0 + i <= k => logs[0 + i].term = new[i].term
         /\ C # {} => k < 0 + Len(new)
         /\ C = {} => k = Len(logs)
  BY <1>1 DEF AppendResult
<1> HIDE DEF new, after, C
<1>6. Len(new) \in Nat /\ Len(logs) \in Nat /\ k \in Nat
  BY <1>1, <1>2, <1>5
<1>7. CASE C = {} /\ 0 + Len(new) <= Len(logs)
  <2>1. Len(after) = Len(logs) /\ \A i \in 1 .. Len(logs) : after[i] = logs[i]
    BY <1>5, <1>6, <1>7
  <2>2. after = logs
    BY <1>1, <1>2, <2>1, SeqEqual
  <2>3. QED
    BY <1>4, <1>7, <2>2 DEF after
<1>8. CASE ~(C = {} /\ 0 + Len(new) <= Len(logs))
  <2>1. k < Len(new) /\ Len(after) = Len(new)
    BY <1>5, <1>6, <1>8
  <2>2. ASSUME NEW i \in 1 .. k PROVE after[i] = new[i]
    <3>1. i \in 1 .. Len(logs) /\ i \in 1 .. Len(new) /\ 0 + i = i /\ i \in Nat
      BY <1>5, <1>6, <2>1
    <3>2. new[i] = [term |-> r.term, index |-> i, cmd |-> <<leaderLog[r.term][i], i>>]
      BY <1>1, <3>1 DEF Sent
    <3>3. logs[i].term = new[i].term /\ after[i] = logs[i]
      BY <1>5, <1>6, <3>1
    <3>4. logs[i].term = r.term
      BY <3>2, <3>3
    <3>5. logs[i].index = i /\ logs[i] \in Entries
      BY <1>3, <3>1
    <3>6. logs[i].cmd = <<leaderLog[logs[i].term][logs[i].index], logs[i].index>>
      BY <1>2, <3>1 DEF EntriesSent, Sent
    <3>7. logs[i] = [term |-> logs[i].term, index |-> logs[i].index, cmd |-> logs[i].cmd]
      BY <3>5 DEF Entries
    <3>8. logs[i] = [term |-> r.term, index |-> i, cmd |-> <<leaderLog[r.term][i], i>>]
      BY <3>4, <3>5, <3>6, <3>7
    <3>9. QED
      BY <3>2, <3>3, <3>8
  <2>3. \A i \in 1 .. Len(new) : after[i] = new[i]
    BY <1>5, <1>6, <2>1, <2>2
  <2>4. after = new
    BY <1>1, <2>1, <2>3, SeqEqual
  <2>5. SubSeq(logs, 1, 0) = <<>> /\ <<>> \o new = new
    BY <1>1, <1>2, SubSeqEmpty, ConcatEmptySeq
  <2>6. QED
    BY <1>4, <1>8, <2>4, <2>5 DEF after
<1>9. QED
  BY <1>7, <1>8

(* AppendEntries indexes the entries of a request by positions of the log; *)
(* for a request that starts at the first entry, on a log without gaps,    *)
(* that comes to the rule of Raft, whatever the two logs hold.             *)
THEOREM FullRequestsFollowRaft ==
  LogSpec => []FullRequestMatchesRaft
<1>1. LogInv => FullRequestMatchesRaft
  BY FullRequest DEF FullRequestMatchesRaft
<1>2. QED
  BY <1>1, LogInvariant, PTL

=============================================================================
