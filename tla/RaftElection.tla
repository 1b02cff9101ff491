----------------------------- MODULE RaftElection -----------------------------
(***************************************************************************)
(* Leader election of the RaftStateMachine of every server                 *)
(* (ddbr-server/infra/raft_state_machine.go).                              *)
(*                                                                         *)
(* Each node has one goroutine, run(), that takes events from eventCh in   *)
(* order or sees its election timer fire.  The RPC handlers and the        *)
(* goroutines that wait for RPC replies put events in eventCh; the         *)
(* AppendEntries handler and the heartbeat replies also change the state   *)
(* directly.  An RPC message may be delayed for any time or never arrive;  *)
(* it arrives at most once.                                                *)
(*                                                                         *)
(* A handler is one step here: what the lock windows of handleRequestVote  *)
(* allow is the subject of RaftVoting.                                     *)
(***************************************************************************)
EXTENDS Integers, Sequences, FiniteSets

CONSTANTS Node,         \* the servers
          None,         \* the votedFor value -1
          InitPeers,    \* sm.Peers of each node at the start
          InitMaster,   \* the nodes started with IsMaster
          PeerReplies,  \* server lists a HeartBeat or gateway reply may carry
          Campaigns,    \* <<node, term>> of the elections that may be started
          MaxTerm,      \* bound on terms
          QueueCap,     \* capacity of eventCh (100 in the code)
          MaxTicks      \* bound on the rounds of ExpiredTimer and of heartbeats

ASSUME ElectionConstants ==
  /\ IsFiniteSet(Node) /\ None \notin Node /\ InitMaster \subseteq Node
  /\ Campaigns \subseteq Node \X (1 .. MaxTerm)
  /\ InitPeers \in [Node -> SUBSET Node]
  /\ PeerReplies \subseteq SUBSET Node
  /\ MaxTerm \in Nat /\ QueueCap \in Nat \ {0} /\ MaxTicks \in Nat

VARIABLES
  state, currentTerm, votedFor,   \* the fields of the same names
  votesReceived, totalVotes,      \* vote count of the running election
  Peers,                          \* sm.Peers
  isMaster,                       \* configs.IsMaster(): serves reads and writes
  eventCh,                        \* the events waiting for run()
  net,                            \* RPC requests and replies under way
  beating,                        \* where the goroutine of a new leader stands
  watching,                       \* ExpiredTimer is still running
  ticks,                          \* rounds of ExpiredTimer and of heartbeats so far
  votes,                          \* history: <<term, candidate>> each node voted for
  wins,                           \* history: <<term, node>> that counted a quorum
  led                             \* history: <<term, node>> that became leader

nodeVars == <<state, currentTerm, votedFor, votesReceived, totalVotes>>
vars == <<nodeVars, Peers, isMaster, eventCh, net, beating, watching, ticks, votes, wins, led>>

Terms == 0 .. MaxTerm

Events ==
  [type : {"RequestVote"}, term : Terms, cand : Node]
    \cup [type : {"RequestVoteResponse"}, term : Terms, source : Node]
    \cup [type : {"Heartbeat", "BecomeLeader", "ElectionTimeout"}]

Messages ==
  [type : {"RequestVoteReq", "RequestVoteResp", "AppendEntriesReq"},
   term : Terms, from : Node, to : Node]
    \cup [type : {"AppendEntriesResp"}, sent : Terms, term : Terms,
          from : Node, to : Node]

Init ==
  /\ state = [n \in Node |-> "Follower"]
  /\ currentTerm = [n \in Node |-> 0]
  /\ votedFor = [n \in Node |-> None]
  /\ votesReceived = [n \in Node |-> 0]
  /\ totalVotes = [n \in Node |-> 0]
  /\ Peers = InitPeers
  /\ isMaster = [n \in Node |-> n \in InitMaster]
  /\ eventCh = [n \in Node |-> <<>>]
  /\ net = {}
  /\ beating = [n \in Node |-> "none"]
  /\ watching = [n \in Node |-> n \notin InitMaster]
  /\ ticks = 0
  /\ votes = [n \in Node |-> {}]
  /\ wins = {}
  /\ led = {}

Send(q, e) == Append(q, e)
HasRoom(n) == Len(eventCh[n]) < QueueCap

(* run() takes the next event of node n, of the given type. *)
Taking(n, type) == eventCh[n] # <<>> /\ Head(eventCh[n]).type = type

(* Faulty variant: half of the votes is taken for a majority. *)
HalfOfVotes(n) == totalVotes[n] \div 2

VotesNeeded(n) == totalVotes[n] \div 2 + 1

----------------------------------------------------------------------------
(* Elections.                                                              *)

(* handleElectionTimeout.  rest is what is left in eventCh; the goroutines *)
(* it starts send the vote requests.                                       *)
Campaign(n, rest) ==
  LET t == currentTerm[n] + 1 IN
  /\ state[n] # "Leader"
  /\ <<n, t>> \in Campaigns
  /\ state' = [state EXCEPT ![n] = "Candidate"]
  /\ currentTerm' = [currentTerm EXCEPT ![n] = t]
  /\ votedFor' = [votedFor EXCEPT ![n] = n]
  /\ votes' = [votes EXCEPT ![n] = @ \cup {<<t, n>>}]
  /\ votesReceived' = [votesReceived EXCEPT ![n] = 1]
  /\ totalVotes' = [totalVotes EXCEPT ![n] = Cardinality(Peers[n]) + 1]
  /\ IF Peers[n] = {}
     THEN /\ Len(rest) < QueueCap
          /\ eventCh' = [eventCh EXCEPT ![n] = Send(rest, [type |-> "BecomeLeader"])]
          /\ wins' = wins \cup {<<t, n>>}
          /\ UNCHANGED net
     ELSE /\ eventCh' = [eventCh EXCEPT ![n] = rest]
          /\ net' = net \cup {[type |-> "RequestVoteReq", term |-> t,
                               from |-> n, to |-> p] : p \in Peers[n]}
          /\ UNCHANGED wins
  /\ UNCHANGED <<Peers, isMaster, beating, watching, ticks, led>>

(* The election timer of run() fires, long enough after the last heartbeat. *)
ElectionTimer(n) == Campaign(n, eventCh[n])

(* run() takes an ElectionTimeout event put there by BeginVote. *)
HandleElectionTimeout(n) ==
  /\ Taking(n, "ElectionTimeout")
  /\ \/ Campaign(n, Tail(eventCh[n]))
     \/ /\ state[n] = "Leader"
        /\ eventCh' = [eventCh EXCEPT ![n] = Tail(@)]
        /\ UNCHANGED <<nodeVars, Peers, isMaster, net, beating, watching, ticks, votes, wins, led>>

(* The RequestVote RPC puts the request in eventCh. *)
ReceiveRequestVote(m) ==
  /\ m.type = "RequestVoteReq" /\ HasRoom(m.to)
  /\ net' = net \ {m}
  /\ eventCh' = [eventCh EXCEPT ![m.to] =
                   Send(@, [type |-> "RequestVote", term |-> m.term, cand |-> m.from])]
  /\ UNCHANGED <<nodeVars, Peers, isMaster, beating, watching, ticks, votes, wins, led>>

(* Faulty variant: the vote already given in this term is not looked at. *)
HandleRequestVoteTwice(n) ==
  /\ Taking(n, "RequestVote")
  /\ LET e == Head(eventCh[n])
         higher == e.term > currentTerm[n]
         grant == \/ higher
                  \/ e.term = currentTerm[n]
     IN /\ currentTerm' = [currentTerm EXCEPT ![n] = IF higher THEN e.term ELSE @]
        /\ state' = [state EXCEPT ![n] = IF higher THEN "Follower" ELSE @]
        /\ votedFor' = [votedFor EXCEPT ![n] = IF grant THEN e.cand ELSE @]
        /\ votes' = [votes EXCEPT ![n] = IF grant THEN @ \cup {<<e.term, e.cand>>} ELSE @]
        /\ net' = IF grant THEN net \cup {[type |-> "RequestVoteResp", term |-> e.term,
                                           from |-> n, to |-> e.cand]}
                  ELSE net
  /\ eventCh' = [eventCh EXCEPT ![n] = Tail(@)]
  /\ UNCHANGED <<votesReceived, totalVotes, Peers, isMaster, beating, watching, ticks, wins, led>>

(* Faulty variant: the higher term is adopted without stepping down. *)
HandleRequestVoteNoStepDown(n) ==
  /\ Taking(n, "RequestVote")
  /\ LET e == Head(eventCh[n])
         higher == e.term > currentTerm[n]
         grant == \/ higher
                  \/ e.term = currentTerm[n] /\ votedFor[n] \in {None, e.cand}
     IN /\ currentTerm' = [currentTerm EXCEPT ![n] = IF higher THEN e.term ELSE @]
        /\ UNCHANGED state
        /\ votedFor' = [votedFor EXCEPT ![n] = IF grant THEN e.cand ELSE @]
        /\ votes' = [votes EXCEPT ![n] = IF grant THEN @ \cup {<<e.term, e.cand>>} ELSE @]
        /\ net' = IF grant THEN net \cup {[type |-> "RequestVoteResp", term |-> e.term,
                                           from |-> n, to |-> e.cand]}
                  ELSE net
  /\ eventCh' = [eventCh EXCEPT ![n] = Tail(@)]
  /\ UNCHANGED <<votesReceived, totalVotes, Peers, isMaster, beating, watching, ticks, wins, led>>

(* handleRequestVote, with the reply to the candidate.  A reply that       *)
(* denies the vote leads to an event that changes nothing, as does the     *)
(* answer of the RPC when the handler is late; neither is kept.  No entry  *)
(* is appended in this module, so every log is empty and up to date.       *)
HandleRequestVote(n) ==
  /\ Taking(n, "RequestVote")
  /\ LET e == Head(eventCh[n])
         higher == e.term > currentTerm[n]
         grant == \/ higher
                  \/ e.term = currentTerm[n] /\ votedFor[n] \in {None, e.cand}
     IN /\ currentTerm' = [currentTerm EXCEPT ![n] = IF higher THEN e.term ELSE @]
        /\ state' = [state EXCEPT ![n] = IF higher THEN "Follower" ELSE @]
        /\ votedFor' = [votedFor EXCEPT ![n] = IF grant THEN e.cand ELSE @]
        /\ votes' = [votes EXCEPT ![n] = IF grant THEN @ \cup {<<e.term, e.cand>>} ELSE @]
        /\ net' = IF grant THEN net \cup {[type |-> "RequestVoteResp", term |-> e.term,
                                           from |-> n, to |-> e.cand]}
                  ELSE net
  /\ eventCh' = [eventCh EXCEPT ![n] = Tail(@)]
  /\ UNCHANGED <<votesReceived, totalVotes, Peers, isMaster, beating, watching, ticks, wins, led>>

(* The goroutine of one vote request turns the reply into an event that    *)
(* carries the term of the election it belongs to and the peer it is from. *)
ReceiveVoteReply(m) ==
  /\ m.type = "RequestVoteResp" /\ HasRoom(m.to)
  /\ net' = net \ {m}
  /\ eventCh' = [eventCh EXCEPT ![m.to] =
                   Send(@, [type |-> "RequestVoteResponse", term |-> m.term,
                            source |-> m.from])]
  /\ UNCHANGED <<nodeVars, Peers, isMaster, beating, watching, ticks, votes, wins, led>>

(* Faulty variant: any vote, not only a quorum, leads to leadership. *)
HandleAnyVoteResponse(n) ==
  /\ Taking(n, "RequestVoteResponse")
  /\ LET e == Head(eventCh[n])
         counts == state[n] = "Candidate" /\ currentTerm[n] = e.term
         quorum == counts /\ votesReceived[n] + 1 >= VotesNeeded(n)
     IN /\ votesReceived' = [votesReceived EXCEPT ![n] = IF counts THEN @ + 1 ELSE @]
        /\ eventCh' = [eventCh EXCEPT ![n] =
                         IF counts THEN Send(Tail(@), [type |-> "BecomeLeader"])
                         ELSE Tail(@)]
        /\ wins' = IF quorum THEN wins \cup {<<e.term, n>>} ELSE wins
  /\ UNCHANGED <<state, currentTerm, votedFor, totalVotes, Peers, isMaster, net,
                 beating, watching, ticks, votes, led>>

(* handleRequestVoteResponse: each vote from the quorum on asks run()      *)
(* itself, through eventCh, to become leader.                              *)
HandleRequestVoteResponse(n) ==
  /\ Taking(n, "RequestVoteResponse")
  /\ LET e == Head(eventCh[n])
         counts == state[n] = "Candidate" /\ currentTerm[n] = e.term
         quorum == counts /\ votesReceived[n] + 1 >= VotesNeeded(n)
     IN /\ votesReceived' = [votesReceived EXCEPT ![n] = IF counts THEN @ + 1 ELSE @]
        /\ eventCh' = [eventCh EXCEPT ![n] =
                         IF quorum THEN Send(Tail(@), [type |-> "BecomeLeader"])
                         ELSE Tail(@)]
        /\ wins' = IF quorum THEN wins \cup {<<e.term, n>>} ELSE wins
  /\ UNCHANGED <<state, currentTerm, votedFor, totalVotes, Peers, isMaster, net,
                 beating, watching, ticks, votes, led>>

(* handleBecomeLeader.  The event carries no term.  The goroutine it       *)
(* starts registers the leader and then sends heartbeats; one still        *)
(* running from an earlier leadership does the same from here on.          *)
HandleBecomeLeader(n) ==
  /\ Taking(n, "BecomeLeader")
  /\ eventCh' = [eventCh EXCEPT ![n] = Tail(@)]
  /\ IF state[n] = "Candidate"
     THEN /\ state' = [state EXCEPT ![n] = "Leader"]
          /\ isMaster' = [isMaster EXCEPT ![n] = TRUE]
          /\ beating' = [beating EXCEPT ![n] = "register"]
          /\ led' = led \cup {<<currentTerm[n], n>>}
     ELSE UNCHANGED <<state, isMaster, beating, led>>
  /\ UNCHANGED <<currentTerm, votedFor, votesReceived, totalVotes, Peers, net,
                 watching, ticks, votes, wins>>

----------------------------------------------------------------------------
(* Heartbeats.                                                             *)

(* sendHeartbeats: one AppendEntries without entries to every peer, with   *)
(* the term of the moment.                                                 *)
Heartbeats(n) == {[type |-> "AppendEntriesReq", term |-> currentTerm[n],
                   from |-> n, to |-> p] : p \in Peers[n]}

(* updateClusterInfo: the list of servers the gateway answers with, or the *)
(* old one if a call fails or the gateway has another leader.              *)
UpdateClusterInfo(n, peers) ==
  /\ beating[n] = "register"
  /\ beating' = [beating EXCEPT ![n] = "first"]
  /\ Peers' = [Peers EXCEPT ![n] = peers]
  /\ UNCHANGED <<nodeVars, isMaster, eventCh, net, watching, ticks, votes, wins, led>>

(* startHeartbeats sends its first round without looking at the state      *)
(* again.                                                                  *)
FirstHeartbeats(n) ==
  /\ beating[n] = "first"
  /\ ticks < MaxTicks
  /\ ticks' = ticks + 1
  /\ beating' = [beating EXCEPT ![n] = "loop"]
  /\ net' = net \cup Heartbeats(n)
  /\ UNCHANGED <<nodeVars, Peers, isMaster, eventCh, watching, votes, wins, led>>

(* Its loop: ends when the node is no longer leader. *)
NextHeartbeats(n) ==
  /\ beating[n] = "loop"
  /\ IF state[n] = "Leader"
     THEN /\ ticks < MaxTicks
          /\ ticks' = ticks + 1
          /\ net' = net \cup Heartbeats(n)
          /\ UNCHANGED beating
     ELSE /\ beating' = [beating EXCEPT ![n] = "none"]
          /\ UNCHANGED <<ticks, net>>
  /\ UNCHANGED <<nodeVars, Peers, isMaster, eventCh, watching, votes, wins, led>>

(* Faulty variant: the configuration is changed but not the state. *)
StepDownConfigOnly(n, t) ==
  /\ currentTerm' = [currentTerm EXCEPT ![n] = t]
  /\ votedFor' = [votedFor EXCEPT ![n] = None]
  /\ isMaster' = [isMaster EXCEPT ![n] = FALSE]
  /\ UNCHANGED state

StepDown(n, t) ==
  /\ currentTerm' = [currentTerm EXCEPT ![n] = t]
  /\ votedFor' = [votedFor EXCEPT ![n] = None]
  /\ state' = [state EXCEPT ![n] = "Follower"]
  /\ isMaster' = [isMaster EXCEPT ![n] = FALSE]

(* The AppendEntries RPC with no entries.  The heartbeat event is queued   *)
(* before the term is looked at; the reply carries the term from before    *)
(* the request, and only a larger one than the request's matters.          *)
AppendEntries(m) ==
  /\ m.type = "AppendEntriesReq" /\ HasRoom(m.to)
  /\ eventCh' = [eventCh EXCEPT ![m.to] = Send(@, [type |-> "Heartbeat"])]
  /\ net' = (net \ {m}) \cup
       {r \in {[type |-> "AppendEntriesResp", sent |-> m.term,
               term |-> currentTerm[m.to], from |-> m.to, to |-> m.from]} : r.term > r.sent}
  /\ IF m.term > currentTerm[m.to]
     THEN StepDown(m.to, m.term)
     ELSE UNCHANGED <<currentTerm, votedFor, state, isMaster>>
  /\ UNCHANGED <<votesReceived, totalVotes, Peers, beating, watching, ticks, votes, wins, led>>

(* A goroutine of sendHeartbeats gets its reply. *)
HeartbeatReply(m) ==
  /\ m.type = "AppendEntriesResp"
  /\ net' = net \ {m}
  /\ IF m.term > m.sent /\ m.term > currentTerm[m.to]
     THEN StepDown(m.to, m.term)
     ELSE UNCHANGED <<currentTerm, votedFor, state, isMaster>>
  /\ UNCHANGED <<votesReceived, totalVotes, Peers, eventCh, beating, watching, ticks,
                 votes, wins, led>>

(* handleHeartbeat: unconditionally a follower. *)
HandleHeartbeat(n) ==
  /\ Taking(n, "Heartbeat")
  /\ eventCh' = [eventCh EXCEPT ![n] = Tail(@)]
  /\ state' = [state EXCEPT ![n] = "Follower"]
  /\ UNCHANGED <<currentTerm, votedFor, votesReceived, totalVotes, Peers, isMaster,
                 net, beating, watching, ticks, votes, wins, led>>

(* ExpiredTimer, one tick of a node not started as master: a leader stops  *)
(* watching, an answer of the master brings a peer list and a heartbeat    *)
(* event, a failed call may lead to BeginVote and an ElectionTimeout event.*)
ExpiredTimerStops(n) ==
  /\ watching[n] /\ state[n] = "Leader"
  /\ watching' = [watching EXCEPT ![n] = FALSE]
  /\ UNCHANGED <<nodeVars, Peers, isMaster, eventCh, net, beating, ticks, votes, wins, led>>

ExpiredTimerAnswered(n, peers) ==
  /\ watching[n] /\ state[n] # "Leader" /\ HasRoom(n)
  /\ ticks < MaxTicks
  /\ ticks' = ticks + 1
  /\ Peers' = [Peers EXCEPT ![n] = IF peers # {} THEN peers ELSE @]
  /\ eventCh' = [eventCh EXCEPT ![n] = Send(@, [type |-> "Heartbeat"])]
  /\ UNCHANGED <<nodeVars, isMaster, net, beating, watching, votes, wins, led>>

ExpiredTimerFails(n) ==
  /\ watching[n] /\ state[n] # "Leader" /\ HasRoom(n)
  /\ ticks < MaxTicks
  /\ ticks' = ticks + 1
  /\ eventCh' = [eventCh EXCEPT ![n] = Send(@, [type |-> "ElectionTimeout"])]
  /\ UNCHANGED <<nodeVars, Peers, isMaster, net, beating, watching, votes, wins, led>>

----------------------------------------------------------------------------
Next ==
  \/ \E n \in Node : ElectionTimer(n)
  \/ \E n \in Node : HandleElectionTimeout(n)
  \/ \E n \in Node : HandleRequestVote(n)
  \/ \E n \in Node : HandleRequestVoteResponse(n)
  \/ \E n \in Node : HandleBecomeLeader(n)
  \/ \E n \in Node : HandleHeartbeat(n)
  \/ \E n \in Node : \E peers \in PeerReplies \cup {Peers[n]} : UpdateClusterInfo(n, peers)
  \/ \E n \in Node : FirstHeartbeats(n)
  \/ \E n \in Node : NextHeartbeats(n)
  \/ \E n \in Node : ExpiredTimerStops(n)
  \/ \E n \in Node : ExpiredTimerFails(n)
  \/ \E n \in Node, peers \in PeerReplies : ExpiredTimerAnswered(n, peers)
  \/ \E m \in net : ReceiveRequestVote(m)
  \/ \E m \in net : ReceiveVoteReply(m)
  \/ \E m \in net : AppendEntries(m)
  \/ \E m \in net : HeartbeatReply(m)

Spec == Init /\ [][Next]_vars

----------------------------------------------------------------------------
(* Every variable has its declared range; eventCh never exceeds its        *)
(* capacity.                                                               *)
TypeOK ==
  /\ state \in [Node -> {"Follower", "Candidate", "Leader"}]
  /\ currentTerm \in [Node -> Terms]
  /\ votedFor \in [Node -> Node \cup {None}]
  /\ votesReceived \in [Node -> Nat]
  /\ totalVotes \in [Node -> Nat]
  /\ Peers \in [Node -> SUBSET Node]
  /\ isMaster \in [Node -> BOOLEAN]
  /\ eventCh \in [Node -> Seq(Events)]
  /\ \A n \in Node : Len(eventCh[n]) <= QueueCap
  /\ net \subseteq Messages
  /\ beating \in [Node -> {"none", "register", "first", "loop"}]
  /\ watching \in [Node -> BOOLEAN]
  /\ ticks \in 0 .. MaxTicks
  /\ votes \in [Node -> SUBSET (Terms \X Node)]
  /\ wins \subseteq Terms \X Node
  /\ led \subseteq Terms \X Node

(* In one term at most one node counts a quorum of votes.                  *)
QuorumWinUnique ==
  \A v, w \in wins : v[1] = w[1] => v = w

(* A counted quorum is a real one: more than half of the servers gave that *)
(* node their vote of that term.                                           *)
WinHasMajority ==
  \A w \in wins : 2 * Cardinality({n \in Node : w \in votes[n]}) > Cardinality(Node)

(* A leader counted a quorum in its term or in an earlier one, however     *)
(* BecomeLeader, heartbeat and timeout events interleave.                  *)
LeaderWonElection ==
  \A n \in Node : state[n] = "Leader" =>
    \E w \in wins : w[2] = n /\ w[1] <= currentTerm[n]

(* A leader serves requests: no path that keeps it leader clears IsMaster. *)
LeaderIsMaster ==
  \A n \in Node : state[n] = "Leader" => isMaster[n]

(* A leader stays in the term it took office in until it steps down.       *)
LeaderTermFixed ==
  [][\A n \in Node : state[n] = "Leader" /\ state'[n] = "Leader"
                       => currentTerm'[n] = currentTerm[n]]_vars

(* At most one leader per term.                                            *)
ElectionSafety ==
  \A v, w \in led : v[1] = w[1] => v = w

=============================================================================
