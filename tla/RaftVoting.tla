------------------------------ MODULE RaftVoting ------------------------------
(***************************************************************************)
(* Vote bookkeeping of one node's RaftStateMachine                         *)
(* (ddbr-server/infra/raft_state_machine.go).                              *)
(*                                                                         *)
(* All votes are cast by the single goroutine run(), but                   *)
(* handleRequestVote gives up sm.mu between its lock sections, and in      *)
(* those windows two other goroutines may change currentTerm and votedFor  *)
(* under sm.mu: the AppendEntries RPC handler and the goroutines of        *)
(* sendHeartbeats that process replies.  One action is one lock section.   *)
(* The other nodes are the environment: they send any request with a term  *)
(* up to MaxTerm.                                                          *)
(***************************************************************************)
EXTENDS RaftStateMachine

CONSTANTS Node,      \* node ids
          Self,      \* sm.NodeID
          None,      \* the votedFor value -1
          MaxIndex,  \* bound on the index of the last log entry
          MaxCrash   \* bound on the number of process restarts

ASSUME NodeAssumption == Self \in Node /\ None \notin Node
ASSUME BoundAssumption == MaxTerm \in Nat /\ MaxIndex \in Nat /\ MaxCrash \in Nat

VARIABLES
  state,        \* sm.state
  votedFor,     \* sm.votedFor
  lastLog,      \* <<Term, Index>> of the last entry of sm.logs, <<0, 0>> if empty
  pc,           \* where run() stands inside handleRequestVote
  req,          \* the request run() is handling
  heartbeats,   \* terms captured by the heartbeat RPCs still waiting for a reply
  crashes,      \* restarts so far
  granted       \* history: <<term, candidate>> of the votes of this process

vars == <<state, currentTerm, votedFor, lastLog, pc, req, heartbeats, crashes,
          granted>>

States == {"Follower", "Candidate", "Leader"}
LogTails == {<<0, 0>>} \cup ((1 .. MaxTerm) \X (1 .. MaxIndex))
VoteRequests == [term : 1 .. MaxTerm, cand : Node, last : LogTails]
Votes == Terms \X Node

(* The request field while run() waits in its select. *)
NoRequest == [term |-> 0, cand |-> Self, last |-> <<0, 0>>]

(* The candidate's log is at least as new as ours (logOK).                 *)
UpToDate(theirs, ours) ==
  \/ theirs[1] > ours[1]
  \/ theirs[1] = ours[1] /\ theirs[2] >= ours[2]

(* Faulty variant: the comparison with the vote already given is missing.  *)
MayVoteForAnyone(c) == c \in Node

MayVoteFor(c) == votedFor \in {None, c}

(* The checks of votedFor and of the log, and where they lead run(). *)
AfterCheck(r) ==
  IF MayVoteFor(r.cand) /\ UpToDate(r.last, lastLog) THEN "grant" ELSE "select"

Init ==
  /\ state = "Follower"
  /\ currentTerm = 0
  /\ votedFor = None
  /\ lastLog = <<0, 0>>
  /\ pc = "select"
  /\ req = NoRequest
  /\ heartbeats = {}
  /\ crashes = 0
  /\ granted = {}

RecordVote(t, c) == granted' = granted \cup {<<t, c>>}

----------------------------------------------------------------------------
(* handleRequestVote.  A node's own vote request reaches it only for a     *)
(* term it has campaigned in (its address may be in its own Peers).        *)

RealRequest(r) == r.cand = Self => <<r.term, Self>> \in granted

(* Faulty variant: a request with a smaller term is not turned away.       *)
ReceiveAnyVoteRequest(r) ==
  /\ pc = "select"
  /\ RealRequest(r)
  /\ pc' = "raise"
  /\ req' = r
  /\ UNCHANGED <<state, currentTerm, votedFor, lastLog, heartbeats, crashes,
                 granted>>

(* First read-lock section: smaller term rejected, larger term goes on to  *)
(* the upgrade of the lock, equal term decides the vote under this lock.   *)
ReceiveVoteRequest(r) ==
  /\ pc = "select"
  /\ RealRequest(r)
  /\ \/ /\ r.term < currentTerm
        /\ UNCHANGED <<pc, req>>
     \/ /\ r.term > currentTerm
        /\ pc' = "raise"
        /\ req' = r
     \/ /\ r.term = currentTerm
        /\ pc' = AfterCheck(r)
        /\ req' = IF pc' = "select" THEN NoRequest ELSE r
  /\ UNCHANGED <<state, currentTerm, votedFor, lastLog, heartbeats, crashes,
                 granted>>

(* Faulty variant: the term goes one beyond the request's.                 *)
AdoptTermAfterRequest ==
  /\ pc = "raise"
  /\ currentTerm' = req.term + 1
  /\ votedFor' = None
  /\ state' = "Follower"
  /\ pc' = "decide"
  /\ UNCHANGED <<lastLog, req, heartbeats, crashes, granted>>

(* Write-lock section that adopts the request's term, without reading      *)
(* currentTerm again.                                                      *)
AdoptRequestTerm ==
  /\ pc = "raise"
  /\ currentTerm' = req.term
  /\ votedFor' = None
  /\ state' = "Follower"
  /\ pc' = "decide"
  /\ UNCHANGED <<lastLog, req, heartbeats, crashes, granted>>

(* Read-lock section after the upgrade.                                    *)
DecideVote ==
  /\ pc = "decide"
  /\ pc' = AfterCheck(req)
  /\ req' = IF pc' = "select" THEN NoRequest ELSE req
  /\ UNCHANGED <<state, currentTerm, votedFor, lastLog, heartbeats, crashes,
                 granted>>

(* Write-lock section that records the vote; the reply carries the         *)
(* request's term.                                                         *)
GrantVote ==
  /\ pc = "grant"
  /\ votedFor' = req.cand
  /\ RecordVote(req.term, req.cand)
  /\ pc' = "select"
  /\ req' = NoRequest
  /\ UNCHANGED <<state, currentTerm, lastLog, heartbeats, crashes>>

----------------------------------------------------------------------------
(* The other handlers of run().                                            *)

(* handleElectionTimeout: from the election timer or an ElectionTimeout    *)
(* event.                                                                  *)
HandleElectionTimeout ==
  /\ pc = "select"
  /\ state # "Leader"
  /\ currentTerm < MaxTerm
  /\ state' = "Candidate"
  /\ currentTerm' = currentTerm + 1
  /\ votedFor' = Self
  /\ RecordVote(currentTerm + 1, Self)
  /\ UNCHANGED <<lastLog, pc, req, heartbeats, crashes>>

(* handleHeartbeat *)
HandleHeartbeat ==
  /\ pc = "select"
  /\ state' = "Follower"
  /\ UNCHANGED <<currentTerm, votedFor, lastLog, pc, req, heartbeats, crashes,
                 granted>>

(* handleBecomeLeader, and the heartbeat goroutine it starts.              *)
HandleBecomeLeader ==
  /\ pc = "select"
  /\ state = "Candidate"
  /\ state' = "Leader"
  /\ heartbeats' = heartbeats \cup {currentTerm}
  /\ UNCHANGED <<currentTerm, votedFor, lastLog, pc, req, crashes,
                 granted>>

----------------------------------------------------------------------------
(* Goroutines that run beside run().                                       *)

(* One more round of startHeartbeats. *)
SendHeartbeats ==
  /\ state = "Leader"
  /\ heartbeats' = heartbeats \cup {currentTerm}
  /\ UNCHANGED <<state, currentTerm, votedFor, lastLog, pc, req, crashes,
                 granted>>

(* Faulty variant: the new term is adopted without stepping down.          *)
HeartbeatReplyNoStepDown(h, t) ==
  /\ h \in heartbeats
  /\ heartbeats' = heartbeats \ {h}
  /\ IF t > h /\ t > currentTerm
     THEN currentTerm' = t /\ votedFor' = None /\ UNCHANGED state
     ELSE UNCHANGED <<currentTerm, votedFor, state>>
  /\ UNCHANGED <<lastLog, pc, req, crashes, granted>>

(* A reply to a heartbeat sent in term h. *)
HeartbeatReply(h, t) ==
  /\ h \in heartbeats
  /\ heartbeats' = heartbeats \ {h}
  /\ IF t > h /\ t > currentTerm
     THEN /\ currentTerm' = t
          /\ votedFor' = None
          /\ state' = "Follower"
     ELSE UNCHANGED <<currentTerm, votedFor, state>>
  /\ UNCHANGED <<lastLog, pc, req, crashes, granted>>

(* Faulty variant: a message of the current term also clears the vote.     *)
AppendEntriesRPCClearsVote(t, last) ==
  /\ IF t >= currentTerm
     THEN currentTerm' = t /\ votedFor' = None /\ state' = "Follower"
     ELSE UNCHANGED <<currentTerm, votedFor, state>>
  /\ lastLog' = last
  /\ UNCHANGED <<pc, req, heartbeats, crashes, granted>>

(* The AppendEntries RPC: one write-lock section.  last is the last log    *)
(* entry it leaves; entries are stored under the request's term.           *)
AppendEntriesRPC(t, last) ==
  /\ IF t > currentTerm
     THEN /\ currentTerm' = t
          /\ votedFor' = None
          /\ state' = "Follower"
     ELSE UNCHANGED <<currentTerm, votedFor, state>>
  /\ last = lastLog \/ (t >= currentTerm /\ last[1] <= t)
  /\ lastLog' = last
  /\ UNCHANGED <<pc, req, heartbeats, crashes, granted>>

(* The process ends and is started again: GetRaftStateMachine builds a     *)
(* fresh state machine, nothing of which was saved.                        *)
Restart ==
  /\ crashes < MaxCrash
  /\ crashes' = crashes + 1
  /\ state' = "Follower"
  /\ currentTerm' = 0
  /\ votedFor' = None
  /\ lastLog' = <<0, 0>>
  /\ pc' = "select"
  /\ req' = NoRequest
  /\ heartbeats' = {}
  /\ granted' = {}

Next ==
  \/ \E r \in VoteRequests : ReceiveVoteRequest(r)
  \/ AdoptRequestTerm
  \/ DecideVote
  \/ GrantVote
  \/ HandleElectionTimeout
  \/ HandleHeartbeat
  \/ HandleBecomeLeader
  \/ SendHeartbeats
  \/ \E h \in heartbeats, t \in Terms : HeartbeatReply(h, t)
  \/ \E t \in Terms, last \in LogTails : AppendEntriesRPC(t, last)
  \/ Restart

Spec == Init /\ [][Next]_vars

----------------------------------------------------------------------------
(* Every variable of the voting state has its declared range.              *)
TypeOK ==
  /\ state \in States
  /\ currentTerm \in Terms
  /\ votedFor \in Node \cup {None}
  /\ lastLog \in LogTails
  /\ pc \in {"select", "raise", "decide", "grant"}
  /\ req \in VoteRequests \cup {NoRequest}
  /\ heartbeats \subseteq Terms
  /\ crashes \in 0 .. MaxCrash
  /\ granted \subseteq Votes

(* One vote per term: the lock windows of handleRequestVote never let one  *)
(* process answer "granted" to two candidates of the same term.            *)
VoteOnce ==
  \A v, w \in granted : v[1] = w[1] => v = w

(* A vote binds: as long as the node is in the term of a vote it gave,     *)
(* votedFor names that candidate, so AppendEntries, heartbeat replies and  *)
(* the handler's own write sections never forget it.                       *)
VoteBinding ==
  \A v \in granted : v[1] = currentTerm => votedFor = v[2]

(* currentTerm may go back: a term that AppendEntries adopts in the window *)
(* before AdoptRequestTerm is overwritten.  But it never goes below a term *)
(* in which this process voted.                                            *)
VotedTermBound ==
  \A v \in granted : v[1] <= currentTerm

(* A candidate or leader gave its own vote of the current term to itself:  *)
(* whoever moves the term of a campaigning node also makes it a follower.  *)
CampaignerVotedForSelf ==
  state # "Follower" => <<currentTerm, Self>> \in granted

(* Inductive strengthening: what is known about the votes given so far     *)
(* while run() stands in a window of handleRequestVote.  In "raise" and    *)
(* "decide" every vote is older than the request; in "grant" a vote of the *)
(* request's term can only be for the same candidate.                      *)
WindowInv ==
  /\ pc \in {"raise", "decide"} => \A v \in granted : v[1] < req.term
  /\ pc \in {"decide", "grant"} => req.term <= currentTerm
  /\ pc = "grant" =>
       \A v \in granted : v[1] <= req.term /\ (v[1] = req.term => v[2] = req.cand)

VotingInv ==
  /\ TypeOK
  /\ VoteOnce
  /\ VoteBinding
  /\ VotedTermBound
  /\ CampaignerVotedForSelf
  /\ WindowInv

(* The lock sections of handleRequestVote, taken with what may happen      *)
(* between them, are one indivisible vote: a step of the node either casts *)
(* one vote in a later term than every earlier one, or leaves the votes of *)
(* the process alone, or is a restart.                                     *)
Register == INSTANCE VoteRegister
              WITH Term <- Terms, Candidate <- Node, votes <- granted, process <- crashes
VotesAtomically == Register!Spec

=============================================================================
