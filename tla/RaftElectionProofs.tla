-------------------------- MODULE RaftElectionProofs --------------------------
(***************************************************************************)
(* Proofs about RaftElection, for any set of servers, any peer lists, any  *)
(* number of elections and any capacity of the event channels.             *)
(***************************************************************************)
EXTENDS RaftElection, FiniteSetTheorems, TLAPS

----------------------------------------------------------------------------
(* Channels and messages.                                                  *)

(* A send makes a channel longer by one event at its end. *)
LEMMA SendFacts ==
  ASSUME NEW q \in Seq(Events), NEW e \in Events
  PROVE  /\ Send(q, e) \in Seq(Events)
         /\ Len(q) \in Nat /\ Len(Send(q, e)) = Len(q) + 1
         /\ \A i \in 1 .. Len(q) : Send(q, e)[i] = q[i]
         /\ Send(q, e)[Len(q) + 1] = e
  BY DEF Send

(* run() takes the event at the beginning. *)
LEMMA TakeFacts ==
  ASSUME NEW q \in Seq(Events), q # <<>>
  PROVE  /\ Tail(q) \in Seq(Events) /\ Len(q) \in Nat \ {0} /\ Len(Tail(q)) = Len(q) - 1
         /\ \A i \in 1 .. Len(Tail(q)) : i + 1 \in 1 .. Len(q) /\ Tail(q)[i] = q[i + 1]
         /\ Head(q) = q[1] /\ Head(q) \in Events
  OBVIOUS

(* The events there are. *)
LEMMA EventFacts ==
  /\ \A type \in {"Heartbeat", "BecomeLeader", "ElectionTimeout"} : [type |-> type] \in Events
  /\ \A t \in Terms, n \in Node : [type |-> "RequestVote", term |-> t, cand |-> n] \in Events
  /\ \A t \in Terms, n \in Node :
       [type |-> "RequestVoteResponse", term |-> t, source |-> n] \in Events
  /\ \A e \in Events :
       /\ e.type = "RequestVote" => e.term \in Terms /\ e.cand \in Node
       /\ e.type = "RequestVoteResponse" => e.term \in Terms /\ e.source \in Node
  BY DEF Events

(* The messages there are. *)
LEMMA MessageFacts ==
  /\ \A type \in {"RequestVoteReq", "RequestVoteResp", "AppendEntriesReq"},
       t \in Terms, n, p \in Node :
         [type |-> type, term |-> t, from |-> n, to |-> p] \in Messages
  /\ \A s, t \in Terms, n, p \in Node :
       [type |-> "AppendEntriesResp", sent |-> s, term |-> t, from |-> n, to |-> p]
         \in Messages
  /\ \A m \in Messages :
       /\ m.from \in Node /\ m.to \in Node /\ m.term \in Terms
       /\ m.type = "AppendEntriesResp" => m.sent \in Terms
  BY DEF Messages

----------------------------------------------------------------------------
(* Types.                                                                  *)

(* At the start every variable is in its range. *)
LEMMA TypeInit == Init => TypeOK
  BY ElectionConstants DEF Init, TypeOK, Terms

(* The channels in their ranges. *)
QueuesOK ==
  /\ eventCh \in [Node -> Seq(Events)]
  /\ \A n \in Node : Len(eventCh[n]) <= QueueCap

(* A step that changes one channel. *)
LEMMA QueueSet ==
  ASSUME QueuesOK, NEW n \in Node, NEW q \in Seq(Events), Len(q) <= QueueCap,
         eventCh' = [eventCh EXCEPT ![n] = q]
  PROVE  QueuesOK'
  BY DEF QueuesOK

(* A step that sends to a channel with room. *)
LEMMA QueueSent ==
  ASSUME QueuesOK, NEW n \in Node, NEW e \in Events, HasRoom(n),
         eventCh' = [eventCh EXCEPT ![n] = Send(@, e)]
  PROVE  QueuesOK'
<1>1. eventCh[n] \in Seq(Events) /\ eventCh' = [eventCh EXCEPT ![n] = Send(eventCh[n], e)]
  BY DEF QueuesOK
<1>2. Send(eventCh[n], e) \in Seq(Events) /\ Len(Send(eventCh[n], e)) <= QueueCap
  BY <1>1, ElectionConstants DEF HasRoom, Send
<1> HIDE DEF QueuesOK
<1>3. QED
  BY <1>1, <1>2, QueueSet

(* A step that takes an event. *)
LEMMA QueueTaken ==
  ASSUME QueuesOK, NEW n \in Node, eventCh[n] # <<>>
  PROVE  /\ Tail(eventCh[n]) \in Seq(Events) /\ Len(Tail(eventCh[n])) < QueueCap
         /\ eventCh' = [eventCh EXCEPT ![n] = Tail(@)] => QueuesOK'
<1>1. eventCh[n] \in Seq(Events) /\ Len(eventCh[n]) <= QueueCap
  BY DEF QueuesOK
<1>2. Tail(eventCh[n]) \in Seq(Events) /\ Len(Tail(eventCh[n])) < QueueCap
  BY <1>1, TakeFacts, ElectionConstants
<1>3. ASSUME eventCh' = [eventCh EXCEPT ![n] = Tail(@)] PROVE QueuesOK'
  <2>1. eventCh' = [eventCh EXCEPT ![n] = Tail(eventCh[n])]
    BY <1>3
  <2>2. Len(Tail(eventCh[n])) <= QueueCap
    BY <1>2, ElectionConstants
  <2>3. QED
    BY <1>2, <2>1, <2>2, QueueSet
<1>4. QED
  BY <1>2, <1>3

(* A round of heartbeats. *)
LEMMA HeartbeatTypes ==
  ASSUME TypeOK, NEW n \in Node
  PROVE  Heartbeats(n) \subseteq Messages
  BY MessageFacts DEF Heartbeats, TypeOK

(* A campaign, from the timer or from an event. *)
LEMMA CampaignTypes ==
  ASSUME TypeOK, NEW n \in Node, NEW rest \in Seq(Events), Len(rest) <= QueueCap,
         Campaign(n, rest)
  PROVE  TypeOK'
<1> DEFINE t == currentTerm[n] + 1
<1>1. t \in Terms
  BY ElectionConstants DEF Campaign, TypeOK, Terms
<1>2. Cardinality(Peers[n]) \in Nat
  BY ElectionConstants, FS_Subset, FS_CardinalityType DEF TypeOK
<1>3. QueuesOK'
  <2> DEFINE b == [type |-> "BecomeLeader"]
  <2>1. QueuesOK /\ b \in Events
    BY EventFacts DEF TypeOK, QueuesOK
  <2> HIDE DEF b
  <2>2. CASE Peers[n] = {}
    <3>1. Len(rest) < QueueCap /\ eventCh' = [eventCh EXCEPT ![n] = Send(rest, b)]
      BY <2>2 DEF Campaign, b
    <3>2. Send(rest, b) \in Seq(Events) /\ Len(Send(rest, b)) <= QueueCap
      BY <2>1, <3>1, ElectionConstants DEF Send
    <3>3. QED
      BY <2>1, <3>1, <3>2, QueueSet
  <2>3. CASE Peers[n] # {}
    BY <2>1, <2>3, QueueSet DEF Campaign
  <2>4. QED
    BY <2>2, <2>3
<1>4. net' \subseteq Messages
  BY <1>1, MessageFacts DEF Campaign, TypeOK
<1>5. votes' \in [Node -> SUBSET (Terms \X Node)]
  BY <1>1 DEF Campaign, TypeOK
<1>6. wins' \subseteq Terms \X Node
  BY <1>1 DEF Campaign, TypeOK
<1>7. /\ state' \in [Node -> {"Follower", "Candidate", "Leader"}]
      /\ currentTerm' \in [Node -> Terms] /\ votedFor' \in [Node -> Node \cup {None}]
      /\ votesReceived' \in [Node -> Nat] /\ totalVotes' \in [Node -> Nat]
  BY <1>1, <1>2 DEF Campaign, TypeOK
<1>8. QED
  BY <1>3, <1>4, <1>5, <1>6, <1>7 DEF Campaign, TypeOK, QueuesOK

(* Every step keeps the servers and the network in their ranges. *)
LEMMA TypeStep == TypeOK /\ [Next]_vars => TypeOK'
<1> SUFFICES ASSUME TypeOK, [Next]_vars PROVE TypeOK'
  OBVIOUS
<1> QueuesOK
  BY DEF TypeOK, QueuesOK
<1>1. ASSUME NEW n \in Node, ElectionTimer(n) PROVE TypeOK'
  <2>1. eventCh[n] \in Seq(Events) /\ Len(eventCh[n]) <= QueueCap
    BY DEF TypeOK
  <2>2. QED
    BY <1>1, <2>1, CampaignTypes DEF ElectionTimer
<1>2. ASSUME NEW n \in Node, HandleElectionTimeout(n) PROVE TypeOK'
  <2>1. /\ Tail(eventCh[n]) \in Seq(Events) /\ Len(Tail(eventCh[n])) < QueueCap
        /\ eventCh' = [eventCh EXCEPT ![n] = Tail(@)] => QueuesOK'
    BY <1>2, QueueTaken DEF HandleElectionTimeout, Taking
  <2>2. CASE Campaign(n, Tail(eventCh[n]))
    <3>1. Len(Tail(eventCh[n])) <= QueueCap
      BY <2>1, ElectionConstants
    <3>2. QED
      BY <2>1, <2>2, <3>1, CampaignTypes
  <2>3. CASE ~Campaign(n, Tail(eventCh[n]))
    BY <1>2, <2>1, <2>3 DEF HandleElectionTimeout, TypeOK, QueuesOK, nodeVars
  <2>4. QED
    BY <2>2, <2>3
<1>3. ASSUME NEW n \in Node, HandleRequestVote(n) PROVE TypeOK'
  <2> DEFINE e == Head(eventCh[n])
  <2>1. QueuesOK'
    BY <1>3, QueueTaken DEF HandleRequestVote, Taking
  <2>2. e.term \in Terms /\ e.cand \in Node
    BY <1>3, TakeFacts, EventFacts DEF HandleRequestVote, Taking, TypeOK
  <2> HIDE DEF e
  <2>3. net' \subseteq Messages
    BY <1>3, <2>2, MessageFacts DEF HandleRequestVote, e, TypeOK
  <2>4. votes' \in [Node -> SUBSET (Terms \X Node)]
    BY <1>3, <2>2 DEF HandleRequestVote, e, TypeOK
  <2>5. /\ state' \in [Node -> {"Follower", "Candidate", "Leader"}]
        /\ currentTerm' \in [Node -> Terms] /\ votedFor' \in [Node -> Node \cup {None}]
    BY <1>3, <2>2 DEF HandleRequestVote, e, TypeOK
  <2>6. QED
    BY <1>3, <2>1, <2>3, <2>4, <2>5 DEF HandleRequestVote, TypeOK, QueuesOK
<1>4. ASSUME NEW n \in Node, HandleRequestVoteResponse(n) PROVE TypeOK'
  <2> DEFINE e == Head(eventCh[n])
             q == Tail(eventCh[n])
             b == [type |-> "BecomeLeader"]
  <2>1. q \in Seq(Events) /\ Len(q) < QueueCap
    BY <1>4, QueueTaken DEF HandleRequestVoteResponse, Taking
  <2>2. e.term \in Terms
    BY <1>4, TakeFacts, EventFacts DEF HandleRequestVoteResponse, Taking, TypeOK
  <2>3. b \in Events
    BY EventFacts
  <2>4. \/ eventCh' = [eventCh EXCEPT ![n] = q]
        \/ eventCh' = [eventCh EXCEPT ![n] = Send(q, b)]
    BY <1>4 DEF HandleRequestVoteResponse
  <2> HIDE DEF e, q, b
  <2>5. Send(q, b) \in Seq(Events) /\ Len(Send(q, b)) <= QueueCap /\ Len(q) <= QueueCap
    BY <2>1, <2>3, ElectionConstants DEF Send
  <2>6. QueuesOK'
    BY <2>1, <2>4, <2>5, QueueSet
  <2>7. wins' \subseteq Terms \X Node /\ votesReceived' \in [Node -> Nat]
    BY <1>4, <2>2 DEF HandleRequestVoteResponse, e, TypeOK
  <2>8. QED
    BY <1>4, <2>6, <2>7 DEF HandleRequestVoteResponse, TypeOK, QueuesOK
<1>5. ASSUME NEW n \in Node, HandleBecomeLeader(n) PROVE TypeOK'
  <2>1. QueuesOK'
    BY <1>5, QueueTaken DEF HandleBecomeLeader, Taking
  <2>2. led' \subseteq Terms \X Node
    BY <1>5 DEF HandleBecomeLeader, TypeOK
  <2>3. /\ state' \in [Node -> {"Follower", "Candidate", "Leader"}]
        /\ beating' \in [Node -> {"none", "register", "first", "loop"}]
    BY <1>5 DEF HandleBecomeLeader, TypeOK
  <2>4. isMaster' \in [Node -> BOOLEAN]
    BY <1>5 DEF HandleBecomeLeader, TypeOK
  <2>5. QED
    BY <1>5, <2>1, <2>2, <2>3, <2>4 DEF HandleBecomeLeader, TypeOK, QueuesOK
<1>6. ASSUME NEW n \in Node, HandleHeartbeat(n) PROVE TypeOK'
  <2>1. QueuesOK'
    BY <1>6, QueueTaken DEF HandleHeartbeat, Taking
  <2>2. QED
    BY <1>6, <2>1 DEF HandleHeartbeat, TypeOK, QueuesOK
<1>7. ASSUME NEW n \in Node, NEW peers \in PeerReplies \cup {Peers[n]},
                UpdateClusterInfo(n, peers)
         PROVE  TypeOK'
  BY <1>7, ElectionConstants DEF UpdateClusterInfo, TypeOK, nodeVars
<1>8. ASSUME NEW n \in Node, FirstHeartbeats(n) PROVE TypeOK'
  <2>1. net' \subseteq Messages
    BY <1>8, HeartbeatTypes DEF FirstHeartbeats, TypeOK
  <2>2. beating' \in [Node -> {"none", "register", "first", "loop"}]
    BY <1>8 DEF FirstHeartbeats, TypeOK
  <2>3. ticks' \in 0 .. MaxTicks
    BY <1>8, ElectionConstants DEF FirstHeartbeats, TypeOK
  <2>4. QED
    BY <1>8, <2>1, <2>2, <2>3 DEF FirstHeartbeats, TypeOK, nodeVars
<1>9. ASSUME NEW n \in Node, NextHeartbeats(n) PROVE TypeOK'
  <2>1. net' \subseteq Messages
    BY <1>9, HeartbeatTypes DEF NextHeartbeats, TypeOK
  <2>2. beating' \in [Node -> {"none", "register", "first", "loop"}]
    BY <1>9 DEF NextHeartbeats, TypeOK
  <2>3. ticks' \in 0 .. MaxTicks
    BY <1>9, ElectionConstants DEF NextHeartbeats, TypeOK
  <2>4. QED
    BY <1>9, <2>1, <2>2, <2>3 DEF NextHeartbeats, TypeOK, nodeVars
<1>10. ASSUME NEW n \in Node, ExpiredTimerStops(n) PROVE TypeOK'
  BY <1>10 DEF ExpiredTimerStops, TypeOK, nodeVars
<1>11. ASSUME NEW n \in Node, ExpiredTimerFails(n) PROVE TypeOK'
  <2>1. [type |-> "ElectionTimeout"] \in Events
    BY EventFacts
  <2>2. QueuesOK'
    BY <1>11, <2>1, QueueSent DEF ExpiredTimerFails
  <2>3. ticks' \in 0 .. MaxTicks
    BY <1>11, ElectionConstants DEF ExpiredTimerFails, TypeOK
  <2>4. UNCHANGED <<nodeVars, Peers, isMaster, net, beating, watching, votes, wins, led>>
    BY <1>11 DEF ExpiredTimerFails
  <2>5. QED
    BY <2>2, <2>3, <2>4 DEF TypeOK, QueuesOK, nodeVars
<1>12. ASSUME NEW n \in Node, NEW peers \in PeerReplies,
                ExpiredTimerAnswered(n, peers)
         PROVE  TypeOK'
  <2>1. [type |-> "Heartbeat"] \in Events
    BY EventFacts
  <2>2. QueuesOK'
    BY <1>12, <2>1, QueueSent DEF ExpiredTimerAnswered
  <2>3. Peers' \in [Node -> SUBSET Node]
    BY <1>12, ElectionConstants DEF ExpiredTimerAnswered, TypeOK
  <2>4. ticks' \in 0 .. MaxTicks
    BY <1>12, ElectionConstants DEF ExpiredTimerAnswered, TypeOK
  <2>5. UNCHANGED <<nodeVars, isMaster, net, beating, watching, votes, wins, led>>
    BY <1>12 DEF ExpiredTimerAnswered
  <2>6. QED
    BY <2>2, <2>3, <2>4, <2>5 DEF TypeOK, QueuesOK, nodeVars
<1>13. ASSUME NEW m \in net, ReceiveRequestVote(m) PROVE TypeOK'
  <2>1. m.to \in Node /\ m.from \in Node /\ m.term \in Terms
    BY MessageFacts DEF TypeOK
  <2>2. [type |-> "RequestVote", term |-> m.term, cand |-> m.from] \in Events
    BY <2>1, EventFacts
  <2>3. QueuesOK'
    BY <1>13, <2>1, <2>2, QueueSent DEF ReceiveRequestVote
  <2>4. QED
    BY <1>13, <2>3 DEF ReceiveRequestVote, TypeOK, QueuesOK, nodeVars
<1>14. ASSUME NEW m \in net, ReceiveVoteReply(m) PROVE TypeOK'
  <2>1. m.to \in Node /\ m.from \in Node /\ m.term \in Terms
    BY MessageFacts DEF TypeOK
  <2>2. [type |-> "RequestVoteResponse", term |-> m.term, source |-> m.from] \in Events
    BY <2>1, EventFacts
  <2>3. QueuesOK'
    BY <1>14, <2>1, <2>2, QueueSent DEF ReceiveVoteReply
  <2>4. QED
    BY <1>14, <2>3 DEF ReceiveVoteReply, TypeOK, QueuesOK, nodeVars
<1>15. ASSUME NEW m \in net, AppendEntries(m) PROVE TypeOK'
  <2> DEFINE r == [type |-> "AppendEntriesResp", sent |-> m.term,
                   term |-> currentTerm[m.to], from |-> m.to, to |-> m.from]
  <2>1. m.to \in Node /\ m.from \in Node /\ m.term \in Terms
    BY MessageFacts DEF TypeOK
  <2>2. [type |-> "Heartbeat"] \in Events
    BY EventFacts
  <2>3. QueuesOK'
    BY <1>15, <2>1, <2>2, QueueSent DEF AppendEntries
  <2>4. r \in Messages
    BY <2>1, MessageFacts DEF TypeOK
  <2>5. net' \subseteq Messages
    BY <1>15, <2>4 DEF AppendEntries, TypeOK
  <2>6. /\ state' \in [Node -> {"Follower", "Candidate", "Leader"}]
        /\ currentTerm' \in [Node -> Terms] /\ votedFor' \in [Node -> Node \cup {None}]
        /\ isMaster' \in [Node -> BOOLEAN]
    BY <1>15, <2>1 DEF AppendEntries, StepDown, TypeOK
  <2>7. QED
    BY <1>15, <2>3, <2>5, <2>6 DEF AppendEntries, TypeOK, QueuesOK
<1>16. ASSUME NEW m \in net, HeartbeatReply(m) PROVE TypeOK'
  <2>1. m.to \in Node /\ m.term \in Terms
    BY MessageFacts DEF TypeOK
  <2>2. /\ state' \in [Node -> {"Follower", "Candidate", "Leader"}]
        /\ currentTerm' \in [Node -> Terms] /\ votedFor' \in [Node -> Node \cup {None}]
        /\ isMaster' \in [Node -> BOOLEAN]
    BY <1>16, <2>1 DEF HeartbeatReply, StepDown, TypeOK
  <2>3. QED
    BY <1>16, <2>2 DEF HeartbeatReply, TypeOK
<1>17. CASE UNCHANGED vars
  BY <1>17 DEF vars, nodeVars, TypeOK
<1>18. QED
  BY <1>1, <1>2, <1>3, <1>4, <1>5, <1>6, <1>7, <1>8, <1>9, <1>10, <1>11, <1>12,
     <1>13, <1>14, <1>15, <1>16, <1>17 DEF Next

(* Servers, channels and network stay in their declared ranges; no channel *)
(* ever holds more events than its capacity.                               *)
THEOREM TypeCorrect == Spec => []TypeOK
  BY TypeInit, TypeStep, PTL DEF Spec

----------------------------------------------------------------------------
(* Leaders.                                                                *)

(* The receiver and the term of a message. *)
LEMMA MessageTypes ==
  ASSUME TypeOK, NEW m \in net
  PROVE  m.to \in Node /\ m.from \in Node /\ m.term \in Terms
  BY MessageFacts DEF TypeOK

(* State and IsMaster are changed together, or the state only away from   *)
(* Leader.                                                                 *)
LEMMA MasterStep == TypeOK /\ LeaderIsMaster /\ [Next]_vars => LeaderIsMaster'
<1> SUFFICES ASSUME TypeOK, LeaderIsMaster, [Next]_vars PROVE LeaderIsMaster'
  OBVIOUS
<1> USE DEF TypeOK, nodeVars, LeaderIsMaster
<1>1. ASSUME NEW n \in Node, ElectionTimer(n) PROVE LeaderIsMaster'
  BY <1>1 DEF ElectionTimer, Campaign
<1>2. ASSUME NEW n \in Node, HandleElectionTimeout(n) PROVE LeaderIsMaster'
  BY <1>2 DEF HandleElectionTimeout, Campaign
<1>3. ASSUME NEW n \in Node, HandleRequestVote(n) PROVE LeaderIsMaster'
  BY <1>3 DEF HandleRequestVote
<1>4. ASSUME NEW n \in Node, HandleRequestVoteResponse(n) PROVE LeaderIsMaster'
  BY <1>4 DEF HandleRequestVoteResponse
<1>5. ASSUME NEW n \in Node, HandleBecomeLeader(n) PROVE LeaderIsMaster'
  BY <1>5 DEF HandleBecomeLeader
<1>6. ASSUME NEW n \in Node, HandleHeartbeat(n) PROVE LeaderIsMaster'
  BY <1>6 DEF HandleHeartbeat
<1>7. ASSUME NEW n \in Node, NEW peers \in PeerReplies \cup {Peers[n]},
                UpdateClusterInfo(n, peers)
         PROVE  LeaderIsMaster'
  BY <1>7 DEF UpdateClusterInfo
<1>8. ASSUME NEW n \in Node, FirstHeartbeats(n) PROVE LeaderIsMaster'
  BY <1>8 DEF FirstHeartbeats
<1>9. ASSUME NEW n \in Node, NextHeartbeats(n) PROVE LeaderIsMaster'
  BY <1>9 DEF NextHeartbeats
<1>10. ASSUME NEW n \in Node, ExpiredTimerStops(n) PROVE LeaderIsMaster'
  BY <1>10 DEF ExpiredTimerStops
<1>11. ASSUME NEW n \in Node, ExpiredTimerFails(n) PROVE LeaderIsMaster'
  BY <1>11 DEF ExpiredTimerFails
<1>12. ASSUME NEW n \in Node, NEW peers \in PeerReplies,
                ExpiredTimerAnswered(n, peers)
         PROVE  LeaderIsMaster'
  BY <1>12 DEF ExpiredTimerAnswered
<1>13. ASSUME NEW m \in net, ReceiveRequestVote(m) PROVE LeaderIsMaster'
  BY <1>13 DEF ReceiveRequestVote
<1>14. ASSUME NEW m \in net, ReceiveVoteReply(m) PROVE LeaderIsMaster'
  BY <1>14 DEF ReceiveVoteReply
<1>15. ASSUME NEW m \in net, AppendEntries(m) PROVE LeaderIsMaster'
  BY <1>15, MessageTypes DEF AppendEntries, StepDown
<1>16. ASSUME NEW m \in net, HeartbeatReply(m) PROVE LeaderIsMaster'
  BY <1>16, MessageTypes DEF HeartbeatReply, StepDown
<1>17. CASE UNCHANGED vars
  BY <1>17 DEF vars
<1>18. QED
  BY <1>1, <1>2, <1>3, <1>4, <1>5, <1>6, <1>7, <1>8, <1>9, <1>10, <1>11, <1>12,
     <1>13, <1>14, <1>15, <1>16, <1>17 DEF Next

(* A leader serves requests in every reachable state. *)
THEOREM LeaderAlwaysMaster == Spec => []LeaderIsMaster
<1>1. Init => LeaderIsMaster
  BY DEF Init, LeaderIsMaster
<1>2. QED
  BY <1>1, MasterStep, TypeCorrect, PTL DEF Spec

(* What a step may do to a leader. *)
TermKept == \A n \in Node : state[n] = "Leader" /\ state'[n] = "Leader"
                              => currentTerm'[n] = currentTerm[n]

(* Every change of the term goes with a change of the state. *)
LEMMA TermKeptStep == TypeOK /\ [Next]_vars => TermKept
<1> SUFFICES ASSUME TypeOK, [Next]_vars PROVE TermKept
  OBVIOUS
<1> USE DEF TypeOK, nodeVars, TermKept
<1>1. ASSUME NEW n \in Node, ElectionTimer(n) PROVE TermKept
  BY <1>1 DEF ElectionTimer, Campaign
<1>2. ASSUME NEW n \in Node, HandleElectionTimeout(n) PROVE TermKept
  BY <1>2 DEF HandleElectionTimeout, Campaign
<1>3. ASSUME NEW n \in Node, HandleRequestVote(n) PROVE TermKept
  BY <1>3 DEF HandleRequestVote
<1>4. ASSUME NEW n \in Node, HandleRequestVoteResponse(n) PROVE TermKept
  BY <1>4 DEF HandleRequestVoteResponse
<1>5. ASSUME NEW n \in Node, HandleBecomeLeader(n) PROVE TermKept
  BY <1>5 DEF HandleBecomeLeader
<1>6. ASSUME NEW n \in Node, HandleHeartbeat(n) PROVE TermKept
  BY <1>6 DEF HandleHeartbeat
<1>7. ASSUME NEW n \in Node, NEW peers \in PeerReplies \cup {Peers[n]},
                UpdateClusterInfo(n, peers)
         PROVE  TermKept
  BY <1>7 DEF UpdateClusterInfo
<1>8. ASSUME NEW n \in Node, FirstHeartbeats(n) PROVE TermKept
  BY <1>8 DEF FirstHeartbeats
<1>9. ASSUME NEW n \in Node, NextHeartbeats(n) PROVE TermKept
  BY <1>9 DEF NextHeartbeats
<1>10. ASSUME NEW n \in Node, ExpiredTimerStops(n) PROVE TermKept
  BY <1>10 DEF ExpiredTimerStops
<1>11. ASSUME NEW n \in Node, ExpiredTimerFails(n) PROVE TermKept
  BY <1>11 DEF ExpiredTimerFails
<1>12. ASSUME NEW n \in Node, NEW peers \in PeerReplies,
                ExpiredTimerAnswered(n, peers)
         PROVE  TermKept
  BY <1>12 DEF ExpiredTimerAnswered
<1>13. ASSUME NEW m \in net, ReceiveRequestVote(m) PROVE TermKept
  BY <1>13 DEF ReceiveRequestVote
<1>14. ASSUME NEW m \in net, ReceiveVoteReply(m) PROVE TermKept
  BY <1>14 DEF ReceiveVoteReply
<1>15. ASSUME NEW m \in net, AppendEntries(m) PROVE TermKept
  <2>1. m.to \in Node /\ m.term \in Terms
    BY MessageTypes
  <2>2. \/ currentTerm' = currentTerm /\ state' = state
        \/ /\ currentTerm' = [currentTerm EXCEPT ![m.to] = m.term]
           /\ state' = [state EXCEPT ![m.to] = "Follower"]
           /\ m.term > currentTerm[m.to]
    BY <1>15 DEF AppendEntries, StepDown
  <2>3. QED
    BY <2>1, <2>2
<1>16. ASSUME NEW m \in net, HeartbeatReply(m) PROVE TermKept
  <2>1. m.to \in Node /\ m.term \in Terms
    BY MessageTypes
  <2>2. \/ currentTerm' = currentTerm /\ state' = state
        \/ /\ currentTerm' = [currentTerm EXCEPT ![m.to] = m.term]
           /\ state' = [state EXCEPT ![m.to] = "Follower"]
           /\ m.term > currentTerm[m.to]
    BY <1>16 DEF HeartbeatReply, StepDown
  <2>3. QED
    BY <2>1, <2>2
<1>17. CASE UNCHANGED vars
  BY <1>17 DEF vars
<1>18. QED
  BY <1>1, <1>2, <1>3, <1>4, <1>5, <1>6, <1>7, <1>8, <1>9, <1>10, <1>11, <1>12,
     <1>13, <1>14, <1>15, <1>16, <1>17 DEF Next

(* A leader stays in the term it took office in until it steps down.       *)
THEOREM LeaderKeepsTerm == Spec => LeaderTermFixed
<1>1. TypeOK /\ [Next]_vars =>
        [\A n \in Node : state[n] = "Leader" /\ state'[n] = "Leader"
                           => currentTerm'[n] = currentTerm[n]]_vars
  BY TermKeptStep DEF TermKept
<1>2. QED
  BY <1>1, TypeCorrect, PTL DEF Spec, LeaderTermFixed

----------------------------------------------------------------------------
(* Where leadership comes from.                                            *)

Grows == wins \subseteq wins' /\ \A n \in Node : currentTerm[n] <= currentTerm'[n]

(* A term that is replaced by a larger one, or by none. *)
LEMMA TermUp ==
  ASSUME TypeOK, NEW n \in Node, NEW t \in Int, t >= currentTerm[n],
         \/ currentTerm' = currentTerm
         \/ currentTerm' = [currentTerm EXCEPT ![n] = t]
  PROVE  \A p \in Node : currentTerm[p] <= currentTerm'[p]
<1>1. currentTerm \in [Node -> Int]
  BY ElectionConstants DEF TypeOK, Terms
<1>2. QED
  BY <1>1

(* Terms and won elections only grow, on every server. *)
LEMMA GrowsStep == TypeOK /\ [Next]_vars => Grows
<1> SUFFICES ASSUME TypeOK, [Next]_vars PROVE Grows
  OBVIOUS
<1> MaxTerm \in Nat
  BY ElectionConstants
<1>0. \A m \in net : m.to \in Node /\ m.term \in Int
  <2>1. \A m \in net : m.to \in Node /\ m.term \in Terms
    BY MessageTypes
  <2>2. QED
    BY <2>1 DEF Terms
<1> USE DEF TypeOK, nodeVars, Grows, Terms
<1>1. ASSUME NEW n \in Node, ElectionTimer(n) PROVE Grows
  BY <1>1 DEF ElectionTimer, Campaign
<1>2. ASSUME NEW n \in Node, HandleElectionTimeout(n) PROVE Grows
  <2>1. wins \subseteq wins'
    BY <1>2 DEF HandleElectionTimeout, Campaign
  <2>2. \/ currentTerm' = currentTerm
        \/ currentTerm' = [currentTerm EXCEPT ![n] = currentTerm[n] + 1]
    BY <1>2 DEF HandleElectionTimeout, Campaign
  <2>3. currentTerm[n] + 1 \in Int /\ currentTerm[n] + 1 >= currentTerm[n]
    OBVIOUS
  <2>4. \A p \in Node : currentTerm[p] <= currentTerm'[p]
    BY <2>2, <2>3, TermUp
  <2>5. QED
    BY <2>1, <2>4
<1>3. ASSUME NEW n \in Node, HandleRequestVote(n) PROVE Grows
  <2> DEFINE e == Head(eventCh[n])
  <2>1. e.term \in Terms
    BY <1>3, TakeFacts, EventFacts DEF HandleRequestVote, Taking
  <2> HIDE DEF e
  <2>2. currentTerm' = [currentTerm EXCEPT ![n] = IF e.term > currentTerm[n] THEN e.term ELSE @]
    BY <1>3 DEF HandleRequestVote, e
  <2>3. QED
    BY <1>3, <2>1, <2>2 DEF HandleRequestVote
<1>4. ASSUME NEW n \in Node, HandleRequestVoteResponse(n) PROVE Grows
  BY <1>4 DEF HandleRequestVoteResponse
<1>5. ASSUME NEW n \in Node, HandleBecomeLeader(n) PROVE Grows
  BY <1>5 DEF HandleBecomeLeader
<1>6. ASSUME NEW n \in Node, HandleHeartbeat(n) PROVE Grows
  BY <1>6 DEF HandleHeartbeat
<1>7. ASSUME NEW n \in Node, NEW peers \in PeerReplies \cup {Peers[n]},
                UpdateClusterInfo(n, peers)
         PROVE  Grows
  BY <1>7 DEF UpdateClusterInfo
<1>8. ASSUME NEW n \in Node, FirstHeartbeats(n) PROVE Grows
  BY <1>8 DEF FirstHeartbeats
<1>9. ASSUME NEW n \in Node, NextHeartbeats(n) PROVE Grows
  BY <1>9 DEF NextHeartbeats
<1>10. ASSUME NEW n \in Node, ExpiredTimerStops(n) PROVE Grows
  BY <1>10 DEF ExpiredTimerStops
<1>11. ASSUME NEW n \in Node, ExpiredTimerFails(n) PROVE Grows
  BY <1>11 DEF ExpiredTimerFails
<1>12. ASSUME NEW n \in Node, NEW peers \in PeerReplies,
                ExpiredTimerAnswered(n, peers)
         PROVE  Grows
  BY <1>12 DEF ExpiredTimerAnswered
<1>13. ASSUME NEW m \in net, ReceiveRequestVote(m) PROVE Grows
  BY <1>13 DEF ReceiveRequestVote
<1>14. ASSUME NEW m \in net, ReceiveVoteReply(m) PROVE Grows
  BY <1>14 DEF ReceiveVoteReply
<1>15. ASSUME NEW m \in net, AppendEntries(m) PROVE Grows
  <2>1. m.to \in Node /\ m.term \in Int
    BY <1>0
  <2>2. \/ currentTerm' = currentTerm
        \/ /\ currentTerm' = [currentTerm EXCEPT ![m.to] = m.term]
           /\ m.term > currentTerm[m.to]
    BY <1>15 DEF AppendEntries, StepDown
  <2>3. \A p \in Node : currentTerm[p] <= currentTerm'[p]
    <3>1. CASE currentTerm' = currentTerm
      BY <3>1
    <3>2. CASE currentTerm' # currentTerm
      <4>1. m.term >= currentTerm[m.to]
        BY <2>1, <2>2, <3>2
      <4>2. QED
        BY <2>1, <2>2, <4>1, TermUp
    <3>3. QED
      BY <3>1, <3>2
  <2>4. QED
    BY <1>15, <2>3 DEF AppendEntries
<1>16. ASSUME NEW m \in net, HeartbeatReply(m) PROVE Grows
  <2>1. m.to \in Node /\ m.term \in Int
    BY <1>0
  <2>2. \/ currentTerm' = currentTerm
        \/ /\ currentTerm' = [currentTerm EXCEPT ![m.to] = m.term]
           /\ m.term > currentTerm[m.to]
    BY <1>16 DEF HeartbeatReply, StepDown
  <2>3. \A p \in Node : currentTerm[p] <= currentTerm'[p]
    <3>1. CASE currentTerm' = currentTerm
      BY <3>1
    <3>2. CASE currentTerm' # currentTerm
      <4>1. m.term >= currentTerm[m.to]
        BY <2>1, <2>2, <3>2
      <4>2. QED
        BY <2>1, <2>2, <4>1, TermUp
    <3>3. QED
      BY <3>1, <3>2
  <2>4. QED
    BY <1>16, <2>3 DEF HeartbeatReply
<1>17. CASE UNCHANGED vars
  BY <1>17 DEF vars
<1>18. QED
  BY <1>1, <1>2, <1>3, <1>4, <1>5, <1>6, <1>7, <1>8, <1>9, <1>10, <1>11, <1>12,
     <1>13, <1>14, <1>15, <1>16, <1>17 DEF Next

(* A BecomeLeader event is on its way. *)
Promised(q) == \E i \in 1 .. Len(q) : q[i].type = "BecomeLeader"

Won(n) == \E w \in wins : w[2] = n /\ w[1] <= currentTerm[n]

(* A BecomeLeader event carries no term and may be taken much later, so    *)
(* the election it stands for belongs to the term of that moment or an     *)
(* earlier one.                                                            *)
WonInv == \A n \in Node : state[n] = "Leader" \/ Promised(eventCh[n]) => Won(n)

(* What sending to a channel and taking from it does to the promise. *)
LEMMA PromiseFacts ==
  /\ \A q \in Seq(Events), e \in Events :
       Promised(Send(q, e)) => Promised(q) \/ e.type = "BecomeLeader"
  /\ \A q \in Seq(Events) : q # <<>> =>
       /\ Promised(Tail(q)) => Promised(q)
       /\ Head(q).type = "BecomeLeader" => Promised(q)
<1>1. ASSUME NEW q \in Seq(Events), NEW e \in Events, Promised(Send(q, e))
      PROVE  Promised(q) \/ e.type = "BecomeLeader"
  <2>1. PICK i \in 1 .. Len(Send(q, e)) : Send(q, e)[i].type = "BecomeLeader"
    BY <1>1 DEF Promised
  <2>2. i \in 1 .. Len(q) \/ i = Len(q) + 1
    BY SendFacts
  <2>3. CASE i \in 1 .. Len(q)
    <3>1. q[i].type = "BecomeLeader"
      BY <2>1, <2>3, SendFacts
    <3>2. QED
      BY <2>3, <3>1 DEF Promised
  <2>4. CASE i = Len(q) + 1
    <3>1. Send(q, e)[i] = e
      BY <2>4, SendFacts
    <3>2. QED
      BY <2>1, <3>1
  <2>5. QED
    BY <2>2, <2>3, <2>4
<1>2. ASSUME NEW q \in Seq(Events), q # <<>>
      PROVE  /\ Promised(Tail(q)) => Promised(q)
             /\ Head(q).type = "BecomeLeader" => Promised(q)
  BY <1>2, TakeFacts DEF Promised
<1>3. QED
  BY <1>1, <1>2

(* What is won stays won. *)
LEMMA WonStays ==
  ASSUME TypeOK, Grows, TypeOK', NEW n \in Node, Won(n)
  PROVE  Won(n)'
<1>1. PICK w \in wins : w[2] = n /\ w[1] <= currentTerm[n]
  BY DEF Won
<1>2. w[1] \in Terms /\ currentTerm[n] \in Terms /\ currentTerm'[n] \in Terms
  BY DEF TypeOK
<1>3. w \in wins' /\ w[1] <= currentTerm'[n]
  BY <1>1, <1>2, ElectionConstants DEF Grows, Terms
<1>4. QED
  BY <1>1, <1>3 DEF Won

(* An election is won in the term the node is in. *)
LEMMA WonNow ==
  ASSUME TypeOK', NEW n \in Node, NEW t \in Terms, <<t, n>> \in wins', currentTerm'[n] = t
  PROVE  Won(n)'
  BY DEF Won, Terms

(* A campaign promises leadership only to a node without peers, which has  *)
(* won by its own vote.                                                    *)
LEMMA CampaignWon ==
  ASSUME TypeOK, TypeOK', NEW n \in Node, NEW rest \in Seq(Events), Campaign(n, rest),
         Promised(rest) => Promised(eventCh[n])
  PROVE  \A p \in Node :
           state'[p] = "Leader" \/ Promised(eventCh'[p])
             => state[p] = "Leader" \/ Promised(eventCh[p]) \/ Won(p)'
<1>1. CASE Peers[n] = {}
  <2>1. <<currentTerm[n] + 1, n>> \in wins' /\ currentTerm'[n] = currentTerm[n] + 1
    BY <1>1 DEF Campaign, TypeOK
  <2>2. currentTerm[n] + 1 \in Terms
    BY <2>1 DEF TypeOK
  <2>3. Won(n)'
    BY <2>1, <2>2, WonNow
  <2>4. \A p \in Node : p # n => eventCh'[p] = eventCh[p] /\ state'[p] = state[p]
    BY DEF Campaign, TypeOK
  <2>5. QED
    BY <2>3, <2>4
<1>2. CASE Peers[n] # {}
  <2>1. eventCh' = [eventCh EXCEPT ![n] = rest]
    BY <1>2 DEF Campaign
  <2>2. DOMAIN eventCh = Node
    BY DEF TypeOK
  <2>3. \A p \in Node : eventCh'[p] = IF p = n THEN rest ELSE eventCh[p]
    BY <2>1, <2>2
  <2>4. \A p \in Node : state'[p] = "Leader" => state[p] = "Leader"
    BY DEF Campaign, TypeOK
  <2>5. QED
    BY <2>3, <2>4
<1>3. QED
  BY <1>1, <1>2

(* Every leader, and every promise of leadership, has an election behind it. *)
LEMMA WonStep == TypeOK /\ WonInv /\ [Next]_vars => WonInv'
<1> SUFFICES ASSUME TypeOK, WonInv, [Next]_vars PROVE WonInv'
  OBVIOUS
<1> TypeOK' /\ Grows
  BY TypeStep, GrowsStep
<1> \A n \in Node : Won(n) => Won(n)'
  BY WonStays
<1>0. \A m \in net : m.to \in Node
  BY MessageTypes
<1> USE DEF TypeOK, nodeVars, WonInv
<1>1. ASSUME NEW n \in Node, ElectionTimer(n) PROVE WonInv'
  BY <1>1, CampaignWon DEF ElectionTimer
<1>2. ASSUME NEW n \in Node, HandleElectionTimeout(n) PROVE WonInv'
  <2>1. /\ Tail(eventCh[n]) \in Seq(Events)
        /\ Promised(Tail(eventCh[n])) => Promised(eventCh[n])
    BY <1>2, TakeFacts, PromiseFacts DEF HandleElectionTimeout, Taking
  <2>2. CASE Campaign(n, Tail(eventCh[n]))
    BY <2>1, <2>2, CampaignWon
  <2>3. CASE ~Campaign(n, Tail(eventCh[n]))
    BY <1>2, <2>1, <2>3 DEF HandleElectionTimeout
  <2>4. QED
    BY <2>2, <2>3
<1>3. ASSUME NEW n \in Node, HandleRequestVote(n) PROVE WonInv'
  <2>1. \A p \in Node : Promised(eventCh'[p]) => Promised(eventCh[p])
    BY <1>3, PromiseFacts DEF HandleRequestVote, Taking
  <2>2. \A p \in Node : state'[p] = "Leader" => state[p] = "Leader"
    BY <1>3 DEF HandleRequestVote
  <2>3. QED
    BY <2>1, <2>2
<1>4. ASSUME NEW n \in Node, HandleRequestVoteResponse(n) PROVE WonInv'
  <2> DEFINE e == Head(eventCh[n])
             quorum == /\ state[n] = "Candidate" /\ currentTerm[n] = e.term
                       /\ votesReceived[n] + 1 >= VotesNeeded(n)
  <2>1. ~quorum => \A p \in Node : Promised(eventCh'[p]) => Promised(eventCh[p])
    BY <1>4, PromiseFacts DEF HandleRequestVoteResponse, Taking
  <2>2. quorum => <<currentTerm[n], n>> \in wins'
    BY <1>4 DEF HandleRequestVoteResponse
  <2>3. \A p \in Node : p # n => eventCh'[p] = eventCh[p]
    BY <1>4 DEF HandleRequestVoteResponse
  <2>4. quorum => Won(n)'
    BY <1>4, <2>2, WonNow DEF HandleRequestVoteResponse
  <2> HIDE DEF quorum
  <2>5. QED
    BY <1>4, <2>1, <2>3, <2>4 DEF HandleRequestVoteResponse
<1>5. ASSUME NEW n \in Node, HandleBecomeLeader(n) PROVE WonInv'
  <2>1. \A p \in Node : Promised(eventCh'[p]) => Promised(eventCh[p])
    BY <1>5, PromiseFacts DEF HandleBecomeLeader, Taking
  <2>2. Promised(eventCh[n])
    BY <1>5, PromiseFacts DEF HandleBecomeLeader, Taking
  <2>3. \A p \in Node : state'[p] = "Leader" => state[p] = "Leader" \/ p = n
    BY <1>5 DEF HandleBecomeLeader
  <2>4. QED
    BY <2>1, <2>2, <2>3
<1>6. ASSUME NEW n \in Node, HandleHeartbeat(n) PROVE WonInv'
  <2>1. \A p \in Node : Promised(eventCh'[p]) => Promised(eventCh[p])
    BY <1>6, PromiseFacts DEF HandleHeartbeat, Taking
  <2>2. \A p \in Node : state'[p] = "Leader" => state[p] = "Leader"
    BY <1>6 DEF HandleHeartbeat
  <2>3. QED
    BY <2>1, <2>2
<1>7. ASSUME NEW n \in Node, NEW peers \in PeerReplies \cup {Peers[n]},
                UpdateClusterInfo(n, peers)
         PROVE  WonInv'
  BY <1>7 DEF UpdateClusterInfo
<1>8. ASSUME NEW n \in Node, FirstHeartbeats(n) PROVE WonInv'
  BY <1>8 DEF FirstHeartbeats
<1>9. ASSUME NEW n \in Node, NextHeartbeats(n) PROVE WonInv'
  BY <1>9 DEF NextHeartbeats
<1>10. ASSUME NEW n \in Node, ExpiredTimerStops(n) PROVE WonInv'
  BY <1>10 DEF ExpiredTimerStops
<1>11. ASSUME NEW n \in Node, ExpiredTimerFails(n) PROVE WonInv'
  <2>1. \A p \in Node : Promised(eventCh'[p]) => Promised(eventCh[p])
    BY <1>11, PromiseFacts, EventFacts DEF ExpiredTimerFails
  <2>2. QED
    BY <1>11, <2>1 DEF ExpiredTimerFails
<1>12. ASSUME NEW n \in Node, NEW peers \in PeerReplies,
                ExpiredTimerAnswered(n, peers)
         PROVE  WonInv'
  <2>1. \A p \in Node : Promised(eventCh'[p]) => Promised(eventCh[p])
    BY <1>12, PromiseFacts, EventFacts DEF ExpiredTimerAnswered
  <2>2. QED
    BY <1>12, <2>1 DEF ExpiredTimerAnswered
<1>13. ASSUME NEW m \in net, ReceiveRequestVote(m) PROVE WonInv'
  <2> DEFINE e == [type |-> "RequestVote", term |-> m.term, cand |-> m.from]
  <2>1. m.to \in Node /\ m.from \in Node /\ m.term \in Terms
    BY MessageTypes
  <2>2. e \in Events /\ e.type # "BecomeLeader"
    BY <2>1, EventFacts
  <2>3. eventCh' = [eventCh EXCEPT ![m.to] = Send(@, e)]
    BY <1>13 DEF ReceiveRequestVote
  <2> HIDE DEF e
  <2>4. \A p \in Node : Promised(eventCh'[p]) => Promised(eventCh[p])
    BY <2>1, <2>2, <2>3, PromiseFacts
  <2>5. QED
    BY <1>13, <2>4 DEF ReceiveRequestVote
<1>14. ASSUME NEW m \in net, ReceiveVoteReply(m) PROVE WonInv'
  <2> DEFINE e == [type |-> "RequestVoteResponse", term |-> m.term, source |-> m.from]
  <2>1. m.to \in Node /\ m.from \in Node /\ m.term \in Terms
    BY MessageTypes
  <2>2. e \in Events /\ e.type # "BecomeLeader"
    BY <2>1, EventFacts
  <2>3. eventCh' = [eventCh EXCEPT ![m.to] = Send(@, e)]
    BY <1>14 DEF ReceiveVoteReply
  <2> HIDE DEF e
  <2>4. \A p \in Node : Promised(eventCh'[p]) => Promised(eventCh[p])
    BY <2>1, <2>2, <2>3, PromiseFacts
  <2>5. QED
    BY <1>14, <2>4 DEF ReceiveVoteReply
<1>15. ASSUME NEW m \in net, AppendEntries(m) PROVE WonInv'
  <2> DEFINE e == [type |-> "Heartbeat"]
  <2>1. m.to \in Node
    BY <1>0
  <2>2. e \in Events /\ e.type # "BecomeLeader"
    BY EventFacts
  <2>3. eventCh' = [eventCh EXCEPT ![m.to] = Send(@, e)]
    BY <1>15 DEF AppendEntries
  <2> HIDE DEF e
  <2>4. \A p \in Node : Promised(eventCh'[p]) => Promised(eventCh[p])
    BY <2>1, <2>2, <2>3, PromiseFacts
  <2>5. \A p \in Node : state'[p] = "Leader" => state[p] = "Leader"
    <3>1. state' = state \/ state' = [state EXCEPT ![m.to] = "Follower"]
      BY <1>15 DEF AppendEntries, StepDown
    <3>2. QED
      BY <2>1, <3>1
  <2>6. QED
    BY <2>4, <2>5
<1>16. ASSUME NEW m \in net, HeartbeatReply(m) PROVE WonInv'
  <2>1. \A p \in Node : state'[p] = "Leader" => state[p] = "Leader"
    <3>1. state' = state \/ state' = [state EXCEPT ![m.to] = "Follower"]
      BY <1>16 DEF HeartbeatReply, StepDown
    <3>2. QED
      BY <1>0, <3>1
  <2>2. QED
    BY <1>16, <2>1 DEF HeartbeatReply
<1>17. CASE UNCHANGED vars
  BY <1>17 DEF vars
<1>18. QED
  BY <1>1, <1>2, <1>3, <1>4, <1>5, <1>6, <1>7, <1>8, <1>9, <1>10, <1>11, <1>12,
     <1>13, <1>14, <1>15, <1>16, <1>17 DEF Next

(* A leader counted a quorum in its term or in an earlier one, however     *)
(* BecomeLeader, heartbeat and timeout events interleave.                  *)
THEOREM LeadersWon == Spec => []LeaderWonElection
<1>1. Init => WonInv
  BY DEF Init, WonInv, Promised
<1>2. WonInv => LeaderWonElection
  BY DEF WonInv, Won, LeaderWonElection
<1>3. QED
  BY <1>1, <1>2, WonStep, TypeCorrect, PTL DEF Spec

----------------------------------------------------------------------------
(* Counting votes.                                                         *)

(* No list a node starts with or is sent leaves out a server other than    *)
(* the node itself.                                                        *)
CompletePeers ==
  \A n \in Node : \A P \in PeerReplies \cup {InitPeers[n]} : P \cup {n} = Node

(* No node finds itself in such a list.  One that does, as every server    *)
(* the master has answered, asks itself too and counts its vote twice.     *)
Unlisted ==
  \A n \in Node : \A P \in PeerReplies \cup {InitPeers[n]} : n \notin P

OddServers == Cardinality(Node) % 2 = 1

(* The vote of p in the election of n in term t, on its way. *)
VoteReq(t, n, p) == [type |-> "RequestVoteReq", term |-> t, from |-> n, to |-> p]
AskEvent(t, n) == [type |-> "RequestVote", term |-> t, cand |-> n]
VoteResp(t, n, p) == [type |-> "RequestVoteResp", term |-> t, from |-> p, to |-> n]
AnswerEvent(t, p) == [type |-> "RequestVoteResponse", term |-> t, source |-> p]

Holds(q, e) == \E i \in 1 .. Len(q) : q[i] = e
HoldsOnce(q, e) == \A i, j \in 1 .. Len(q) : q[i] = e /\ q[j] = e => i = j

OnItsWay(t, n, p) ==
  \/ VoteReq(t, n, p) \in net
  \/ Holds(eventCh[p], AskEvent(t, n))
  \/ VoteResp(t, n, p) \in net
  \/ Holds(eventCh[n], AnswerEvent(t, p))

(* Nobody is asked for, or has given, a vote in a term its candidate has   *)
(* not reached.                                                            *)
FreshInv == \A t \in Terms, n, p \in Node : OnItsWay(t, n, p) => t <= currentTerm[n]

(* What a node voted for in its current term is in votedFor. *)
VoteInv == \A n, c \in Node, t \in Terms :
             <<t, c>> \in votes[n] => t <= currentTerm[n]
                                        /\ (t = currentTerm[n] => votedFor[n] = c)

(* One vote per node and term. *)
OneVote == \A n, c, d \in Node, t \in Terms :
             <<t, c>> \in votes[n] /\ <<t, d>> \in votes[n] => c = d

GoodPeers(n, P) == P \cup {n} = Node /\ (Unlisted => n \notin P)
PeersInv == \A n \in Node : GoodPeers(n, Peers[n])

Stages == {"none", "asked", "queued", "replied", "answered", "counted"}

Voters(t, n) == {p \in Node : <<t, n>> \in votes[p]}

(* The vote of p in the election of n in term t is at stage s and in no    *)
(* other place; what was replied is the vote of a voter.                   *)
AtStage(n, t, p, s) ==
  /\ VoteReq(t, n, p) \in net => s = "asked"
  /\ Holds(eventCh[p], AskEvent(t, n)) => s = "queued"
  /\ VoteResp(t, n, p) \in net => s = "replied"
  /\ Holds(eventCh[n], AnswerEvent(t, p)) => s = "answered"
  /\ HoldsOnce(eventCh[p], AskEvent(t, n))
  /\ HoldsOnce(eventCh[n], AnswerEvent(t, p))
  /\ s \in {"replied", "answered", "counted"} => p \in Voters(t, n)

(* The votes of all peers, those counted, and the number waited for. *)
Tallied(n, t, stage) ==
  /\ \A p \in Node : AtStage(n, t, p, stage[p])
  /\ n \in Voters(t, n)
  /\ votesReceived[n] = Cardinality({p \in Node : stage[p] = "counted"}) + 1
  /\ \/ totalVotes[n] = Cardinality(Node) /\ stage[n] = "none"
     \/ totalVotes[n] = Cardinality(Node) + 1 /\ ~Unlisted

(* The election a candidate is in. *)
CountInv ==
  \A n \in Node, t \in Terms : state[n] = "Candidate" /\ currentTerm[n] = t =>
    \E stage \in [Node -> Stages] : Tallied(n, t, stage)

(* Those whose votes make a counted quorum: half of the servers at least,  *)
(* more than half if no vote was counted twice.                            *)
Backed(S) ==
  /\ 2 * Cardinality(S) >= Cardinality(Node)
  /\ Unlisted => 2 * Cardinality(S) > Cardinality(Node)

WinInv == \A w \in wins : Backed({n \in Node : w \in votes[n]})

(* Every vote of every election, on its way or cast. *)
BallotInv == FreshInv /\ VoteInv /\ OneVote /\ CountInv /\ WinInv

(* What sending to a channel and taking from it does to an event in it. *)
LEMMA HoldFacts ==
  /\ \A q \in Seq(Events), e \in Events : \A x :
       /\ Holds(Send(q, e), x) <=> Holds(q, x) \/ x = e
       /\ HoldsOnce(q, x) /\ (x # e \/ ~Holds(q, x)) => HoldsOnce(Send(q, e), x)
  /\ \A q \in Seq(Events) : q # <<>> => \A x :
       /\ Holds(q, Head(q))
       /\ Holds(Tail(q), x) => Holds(q, x)
       /\ HoldsOnce(q, x) => HoldsOnce(Tail(q), x)
       /\ HoldsOnce(q, Head(q)) => ~Holds(Tail(q), Head(q))
<1>1. ASSUME NEW q \in Seq(Events), NEW e \in Events, NEW x
      PROVE  /\ Holds(Send(q, e), x) <=> Holds(q, x) \/ x = e
             /\ HoldsOnce(q, x) /\ (x # e \/ ~Holds(q, x)) => HoldsOnce(Send(q, e), x)
  <2> DEFINE s == Send(q, e)
             k == Len(q)
  <2>1. /\ k \in Nat /\ Len(s) = k + 1 /\ s[k + 1] = e
        /\ \A i \in 1 .. k : s[i] = q[i]
    BY SendFacts
  <2>2. \A i \in 1 .. Len(s) : i \in 1 .. k \/ i = k + 1
    BY <2>1
  <2>3. 1 .. k \subseteq 1 .. Len(s) /\ k + 1 \in 1 .. Len(s)
    BY <2>1
  <2> HIDE DEF s, k
  <2>4. Holds(s, x) <=> (\E i \in 1 .. k : q[i] = x) \/ x = e
    BY <2>1, <2>2, <2>3 DEF Holds
  <2>5. ASSUME HoldsOnce(q, x), x # e \/ ~Holds(q, x) PROVE HoldsOnce(s, x)
    <3> SUFFICES ASSUME NEW i \in 1 .. Len(s), NEW j \in 1 .. Len(s), s[i] = x, s[j] = x
                 PROVE  i = j
      BY DEF HoldsOnce
    <3>1. CASE i \in 1 .. k /\ j \in 1 .. k
      BY <2>1, <2>5, <3>1 DEF HoldsOnce, k
    <3>2. CASE i = k + 1 /\ j = k + 1
      BY <3>2
    <3>3. CASE i \in 1 .. k /\ j = k + 1
      BY <2>1, <2>5, <3>3 DEF Holds, k
    <3>4. CASE i = k + 1 /\ j \in 1 .. k
      BY <2>1, <2>5, <3>4 DEF Holds, k
    <3>5. QED
      BY <2>2, <3>1, <3>2, <3>3, <3>4
  <2>6. QED
    BY <2>4, <2>5 DEF s, k, Holds
<1>2. ASSUME NEW q \in Seq(Events), NEW x, q # <<>>
      PROVE  /\ Holds(q, Head(q))
             /\ Holds(Tail(q), x) => Holds(q, x)
             /\ HoldsOnce(q, x) => HoldsOnce(Tail(q), x)
             /\ HoldsOnce(q, Head(q)) => ~Holds(Tail(q), Head(q))
  <2> DEFINE r == Tail(q)
             k == Len(q)
             h == Head(q)
  <2>1. /\ k \in Nat \ {0} /\ Len(r) = k - 1 /\ h = q[1]
        /\ \A i \in 1 .. Len(r) : i + 1 \in 1 .. Len(q) /\ r[i] = q[i + 1]
    BY <1>2, TakeFacts
  <2>2. 1 \in 1 .. k
    BY <2>1
  <2> HIDE DEF r, h
  <2>3. Holds(q, h)
    BY <2>1, <2>2 DEF Holds
  <2>4. Holds(r, x) => Holds(q, x)
    BY <2>1 DEF Holds
  <2>5. ASSUME HoldsOnce(q, x) PROVE HoldsOnce(r, x)
    <3> SUFFICES ASSUME NEW i \in 1 .. Len(r), NEW j \in 1 .. Len(r), r[i] = x, r[j] = x
                 PROVE  i = j
      BY DEF HoldsOnce
    <3>1. i + 1 = j + 1
      BY <2>1, <2>5 DEF HoldsOnce
    <3>2. QED
      BY <2>1, <3>1
  <2>6. ASSUME HoldsOnce(q, h), Holds(r, h) PROVE FALSE
    <3>1. PICK i \in 1 .. Len(r) : r[i] = h
      BY <2>6 DEF Holds
    <3>2. i + 1 = 1
      BY <2>1, <2>2, <2>6, <3>1 DEF HoldsOnce
    <3>3. QED
      BY <2>1, <3>2
  <2>7. QED
    BY <2>3, <2>4, <2>5, <2>6 DEF r, h
<1>3. QED
  BY <1>1, <1>2

(* The events and messages that carry a vote. *)
LEMMA VoteRecords ==
  /\ \A e \in Events :
       /\ e.type = "RequestVote" =>
            e.term \in Terms /\ e.cand \in Node /\ e = AskEvent(e.term, e.cand)
       /\ e.type = "RequestVoteResponse" =>
            e.term \in Terms /\ e.source \in Node /\ e = AnswerEvent(e.term, e.source)
  /\ \A m \in Messages :
       /\ m.type = "RequestVoteReq" =>
            /\ m.term \in Terms /\ m.from \in Node /\ m.to \in Node
            /\ m = VoteReq(m.term, m.from, m.to)
       /\ m.type = "RequestVoteResp" =>
            /\ m.term \in Terms /\ m.from \in Node /\ m.to \in Node
            /\ m = VoteResp(m.term, m.to, m.from)
<1>1. ASSUME NEW e \in Events, e.type = "RequestVote"
      PROVE  e.term \in Terms /\ e.cand \in Node /\ e = AskEvent(e.term, e.cand)
  <2>1. e \in [type : {"RequestVote"}, term : Terms, cand : Node]
    BY <1>1 DEF Events
  <2>2. QED
    BY <2>1 DEF AskEvent
<1>2. ASSUME NEW e \in Events, e.type = "RequestVoteResponse"
      PROVE  e.term \in Terms /\ e.source \in Node /\ e = AnswerEvent(e.term, e.source)
  <2>1. e \in [type : {"RequestVoteResponse"}, term : Terms, source : Node]
    BY <1>2 DEF Events
  <2>2. QED
    BY <2>1 DEF AnswerEvent
<1>3. ASSUME NEW m \in Messages, m.type \in {"RequestVoteReq", "RequestVoteResp"}
      PROVE  /\ m.term \in Terms /\ m.from \in Node /\ m.to \in Node
             /\ m = [type |-> m.type, term |-> m.term, from |-> m.from, to |-> m.to]
  <2>1. m \in [type : {"RequestVoteReq", "RequestVoteResp", "AppendEntriesReq"},
               term : Terms, from : Node, to : Node]
    BY <1>3 DEF Messages
  <2>2. QED
    BY <2>1
<1>4. QED
  BY <1>1, <1>2, <1>3 DEF VoteReq, VoteResp

(* They differ in everything they carry. *)
LEMMA VoteDistinct ==
  /\ \A t, n, p, u, c, r :
       /\ VoteReq(t, n, p) = VoteReq(u, c, r) <=> t = u /\ n = c /\ p = r
       /\ VoteResp(t, n, p) = VoteResp(u, c, r) <=> t = u /\ n = c /\ p = r
       /\ VoteReq(t, n, p) # VoteResp(u, c, r)
  /\ \A t, n, u, c :
       /\ AskEvent(t, n) = AskEvent(u, c) <=> t = u /\ n = c
       /\ AnswerEvent(t, n) = AnswerEvent(u, c) <=> t = u /\ n = c
       /\ AskEvent(t, n) # AnswerEvent(u, c)
<1>1. \A t, n, p, u, c, r :
       /\ VoteReq(t, n, p) = VoteReq(u, c, r) <=> t = u /\ n = c /\ p = r
       /\ VoteResp(t, n, p) = VoteResp(u, c, r) <=> t = u /\ n = c /\ p = r
  BY DEF VoteReq, VoteResp
<1>2. \A t, n, p, u, c, r : VoteReq(t, n, p) # VoteResp(u, c, r)
  BY DEF VoteReq, VoteResp
<1>3. \A t, n, u, c :
       /\ AskEvent(t, n) = AskEvent(u, c) <=> t = u /\ n = c
       /\ AnswerEvent(t, n) = AnswerEvent(u, c) <=> t = u /\ n = c
  BY DEF AskEvent, AnswerEvent
<1>4. \A t, n, u, c : AskEvent(t, n) # AnswerEvent(u, c)
  <2> SUFFICES ASSUME NEW t, NEW n, NEW u, NEW c PROVE AskEvent(t, n) # AnswerEvent(u, c)
    OBVIOUS
  <2>1. AskEvent(t, n).type = "RequestVote" /\ AnswerEvent(u, c).type = "RequestVoteResponse"
    BY DEF AskEvent, AnswerEvent
  <2>2. QED
    BY <2>1
<1>5. QED
  BY <1>1, <1>2, <1>3, <1>4

(* A step keeps what a channel holds of votes, and adds none. *)
QueueKept(q, r) ==
  /\ \A t \in Terms, n \in Node :
       /\ Holds(r, AskEvent(t, n)) => Holds(q, AskEvent(t, n))
       /\ HoldsOnce(q, AskEvent(t, n)) => HoldsOnce(r, AskEvent(t, n))
  /\ \A t \in Terms, n \in Node :
       /\ Holds(r, AnswerEvent(t, n)) => Holds(q, AnswerEvent(t, n))
       /\ HoldsOnce(q, AnswerEvent(t, n)) => HoldsOnce(r, AnswerEvent(t, n))

(* Nothing new of the election of n in term t is under way, of one peer or *)
(* of all.                                                                 *)
NoNewFrom(n, t, p) ==
  /\ VoteReq(t, n, p) \in net' => VoteReq(t, n, p) \in net
  /\ VoteResp(t, n, p) \in net' => VoteResp(t, n, p) \in net
  /\ Holds(eventCh'[p], AskEvent(t, n)) => Holds(eventCh[p], AskEvent(t, n))
  /\ HoldsOnce(eventCh[p], AskEvent(t, n)) => HoldsOnce(eventCh'[p], AskEvent(t, n))
  /\ Holds(eventCh'[n], AnswerEvent(t, p)) => Holds(eventCh[n], AnswerEvent(t, p))
  /\ HoldsOnce(eventCh[n], AnswerEvent(t, p)) => HoldsOnce(eventCh'[n], AnswerEvent(t, p))
NoNew(n, t) == \A p \in Node : NoNewFrom(n, t, p)

(* Votes are never taken back. *)
VotesKept == \A p \in Node : votes[p] \subseteq votes'[p]

(* Channels a step leaves alone, takes an event from, or sends an event    *)
(* that is no vote to.                                                     *)
LEMMA KeptFacts ==
  /\ \A q \in Seq(Events) : QueueKept(q, q)
  /\ \A q \in Seq(Events) : q # <<>> => QueueKept(q, Tail(q))
  /\ \A q, r \in Seq(Events), e \in Events :
       QueueKept(q, r) /\ e.type \notin {"RequestVote", "RequestVoteResponse"}
         => QueueKept(q, Send(r, e))
<1>1. \A q \in Seq(Events) : QueueKept(q, q)
  BY DEF QueueKept
<1>2. \A q \in Seq(Events) : q # <<>> => QueueKept(q, Tail(q))
  BY HoldFacts DEF QueueKept
<1>3. ASSUME NEW q \in Seq(Events), NEW r \in Seq(Events), NEW e \in Events, QueueKept(q, r),
             e.type \notin {"RequestVote", "RequestVoteResponse"}
      PROVE  QueueKept(q, Send(r, e))
  <2>1. \A t, n : AskEvent(t, n) # e /\ AnswerEvent(t, n) # e
    <3>1. \A t, n : AskEvent(t, n).type = "RequestVote"
                      /\ AnswerEvent(t, n).type = "RequestVoteResponse"
      BY DEF AskEvent, AnswerEvent
    <3>2. QED
      BY <1>3, <3>1
  <2>2. \A x : x # e => /\ Holds(Send(r, e), x) <=> Holds(r, x)
                        /\ HoldsOnce(r, x) => HoldsOnce(Send(r, e), x)
    BY HoldFacts
  <2>3. QED
    BY <1>3, <2>1, <2>2 DEF QueueKept
<1>4. QED
  BY <1>1, <1>2, <1>3

(* A vote nothing is added to stays at its stage. *)
LEMMA StageKept ==
  ASSUME NEW n \in Node, NEW t \in Terms, NEW p \in Node, NEW s,
         AtStage(n, t, p, s), NoNewFrom(n, t, p), VotesKept
  PROVE  AtStage(n, t, p, s)'
<1>1. /\ VoteReq(t, n, p) \in net' => s = "asked"
      /\ Holds(eventCh'[p], AskEvent(t, n)) => s = "queued"
      /\ VoteResp(t, n, p) \in net' => s = "replied"
      /\ Holds(eventCh'[n], AnswerEvent(t, p)) => s = "answered"
      /\ HoldsOnce(eventCh'[p], AskEvent(t, n))
      /\ HoldsOnce(eventCh'[n], AnswerEvent(t, p))
  BY DEF AtStage, NoNewFrom
<1>2. s \in {"replied", "answered", "counted"} => p \in Voters(t, n)'
  BY DEF AtStage, Voters, VotesKept
<1>3. QED
  BY <1>1, <1>2 DEF AtStage

(* An election nothing is added to is counted as before. *)
LEMMA TallyKept ==
  ASSUME NEW n \in Node, NEW t \in Terms, NEW stage \in [Node -> Stages],
         Tallied(n, t, stage), NoNew(n, t), VotesKept,
         votesReceived'[n] = votesReceived[n], totalVotes'[n] = totalVotes[n]
  PROVE  Tallied(n, t, stage)'
<1>1. \A p \in Node : AtStage(n, t, p, stage[p])'
  <2> SUFFICES ASSUME NEW p \in Node PROVE AtStage(n, t, p, stage[p])'
    OBVIOUS
  <2>1. AtStage(n, t, p, stage[p]) /\ NoNewFrom(n, t, p)
    BY DEF Tallied, NoNew
  <2>2. QED
    BY <2>1, StageKept
<1>2. n \in Voters(t, n)'
  BY DEF Tallied, Voters, VotesKept
<1>3. /\ votesReceived'[n] = Cardinality({p \in Node : stage[p] = "counted"}) + 1
      /\ \/ totalVotes'[n] = Cardinality(Node) /\ stage[n] = "none"
         \/ totalVotes'[n] = Cardinality(Node) + 1 /\ ~Unlisted
  BY DEF Tallied
<1>4. QED
  BY <1>1, <1>2, <1>3 DEF Tallied

(* The vote of one peer moves on, and is counted if it comes that far. *)
LEMMA TallyMoved ==
  ASSUME NEW n \in Node, NEW t \in Terms, NEW old \in [Node -> Stages], Tallied(n, t, old),
         NEW p \in Node, NEW s \in Stages, old[p] \notin {"none", "counted"},
         \A r \in Node : r # p => NoNewFrom(n, t, r), AtStage(n, t, p, s)', VotesKept,
         totalVotes'[n] = totalVotes[n],
         votesReceived'[n] = IF s = "counted" THEN votesReceived[n] + 1 ELSE votesReceived[n]
  PROVE  \E stage \in [Node -> Stages] :
           /\ Tallied(n, t, stage)'
           /\ s = "counted" => stage[p] = "counted"
<1>1. PICK stage \in [Node -> Stages] : \A r \in Node : stage[r] = IF r = p THEN s ELSE old[r]
  <2> DEFINE f == [r \in Node |-> IF r = p THEN s ELSE old[r]]
  <2>1. f \in [Node -> Stages]
    OBVIOUS
  <2>2. QED
    BY <2>1
<1>2. \A r \in Node : AtStage(n, t, r, stage[r])'
  <2> SUFFICES ASSUME NEW r \in Node PROVE AtStage(n, t, r, stage[r])'
    OBVIOUS
  <2>1. CASE r = p
    <3>1. stage[r] = s
      BY <1>1, <2>1
    <3>2. QED
      BY <2>1, <3>1
  <2>2. CASE r # p
    <3>1. stage[r] = old[r]
      BY <1>1, <2>2
    <3>2. AtStage(n, t, r, stage[r]) /\ NoNewFrom(n, t, r)
      BY <2>2, <3>1 DEF Tallied
    <3>3. QED
      BY <3>2, StageKept
  <2>3. QED
    BY <2>1, <2>2
<1>3. n \in Voters(t, n)'
  BY DEF Tallied, Voters, VotesKept
<1> DEFINE C == {r \in Node : old[r] = "counted"}
           D == {r \in Node : stage[r] = "counted"}
<1>4. votesReceived[n] = Cardinality(C) + 1
  BY DEF Tallied
<1>5. p \notin C /\ C \in SUBSET Node /\ D = IF s = "counted" THEN C \cup {p} ELSE C
  BY <1>1
<1> HIDE DEF C, D
<1>6. IsFiniteSet(C) /\ Cardinality(C) \in Nat
  BY <1>5, FS_Subset, FS_CardinalityType, ElectionConstants
<1>7. Cardinality(D) = IF s = "counted" THEN Cardinality(C) + 1 ELSE Cardinality(C)
  BY <1>5, <1>6, FS_AddElement
<1>8. votesReceived'[n] = Cardinality(D) + 1
  BY <1>4, <1>6, <1>7
<1>9. \/ totalVotes'[n] = Cardinality(Node) /\ stage[n] = "none"
      \/ totalVotes'[n] = Cardinality(Node) + 1 /\ ~Unlisted
  BY <1>1 DEF Tallied
<1>10. Tallied(n, t, stage)'
  BY <1>2, <1>3, <1>8, <1>9 DEF Tallied, D
<1>11. QED
  BY <1>1, <1>10

(* A candidate that goes on with its election. *)
LEMMA CountKept ==
  ASSUME CountInv, NEW n \in Node, NEW t \in Terms,
         state[n] = "Candidate", currentTerm[n] = t, NoNew(n, t), VotesKept,
         votesReceived'[n] = votesReceived[n], totalVotes'[n] = totalVotes[n]
  PROVE  \E stage \in [Node -> Stages] : Tallied(n, t, stage)'
<1>1. PICK stage \in [Node -> Stages] : Tallied(n, t, stage)
  BY DEF CountInv
<1>2. Tallied(n, t, stage)'
  BY <1>1, TallyKept
<1>3. QED
  BY <1>2

(* What backs a quorum does not shrink. *)
LEMMA BackedStays ==
  ASSUME WinInv, VotesKept,
         \A w \in wins' : w \in wins
           \/ Backed({p \in Node : w \in votes'[p]})
  PROVE  WinInv'
<1> SUFFICES ASSUME NEW w \in wins,
                    Backed({p \in Node : w \in votes[p]})
             PROVE  Backed({p \in Node : w \in votes'[p]})
  BY DEF WinInv
<1> DEFINE S == {p \in Node : w \in votes[p]}
           T == {p \in Node : w \in votes'[p]}
<1>1. S \in SUBSET T /\ T \in SUBSET Node
  BY DEF VotesKept
<1> HIDE DEF S, T
<1>2. IsFiniteSet(T) /\ IsFiniteSet(Node)
  BY <1>1, FS_Subset, ElectionConstants
<1>3. IsFiniteSet(S) /\ Cardinality(S) <= Cardinality(T)
  BY <1>1, <1>2, FS_Subset
<1>4. Cardinality(S) \in Nat /\ Cardinality(T) \in Nat /\ Cardinality(Node) \in Nat
  BY <1>2, <1>3, FS_CardinalityType
<1>5. Backed(S)
  BY DEF S
<1>6. Backed(T)
  BY <1>3, <1>4, <1>5 DEF Backed
<1>7. QED
  BY <1>6 DEF T

(* A step that has nothing to do with any vote. *)
QuietStep ==
  /\ \A n \in Node : QueueKept(eventCh[n], eventCh'[n])
  /\ \A m \in net' : m.type \in {"RequestVoteReq", "RequestVoteResp"} => m \in net
  /\ \A n \in Node : state'[n] = "Candidate" =>
                       state[n] = "Candidate" /\ currentTerm'[n] = currentTerm[n]
  /\ \A n \in Node : currentTerm'[n] = currentTerm[n] => votedFor'[n] = votedFor[n]
  /\ UNCHANGED <<votesReceived, totalVotes, votes, wins>>

(* Such a step. *)
LEMMA QuietBallots ==
  ASSUME TypeOK, TypeOK', Grows, BallotInv, QuietStep
  PROVE  BallotInv'
<1>1. \A n \in Node, t \in Terms : NoNew(n, t)
  <2>1. \A t, n, p : /\ VoteReq(t, n, p).type = "RequestVoteReq"
                     /\ VoteResp(t, n, p).type = "RequestVoteResp"
    BY DEF VoteReq, VoteResp
  <2>2. \A t, n, p : /\ VoteReq(t, n, p) \in net' => VoteReq(t, n, p) \in net
                     /\ VoteResp(t, n, p) \in net' => VoteResp(t, n, p) \in net
    BY <2>1 DEF QuietStep
  <2>3. QED
    BY <2>2 DEF NoNew, NoNewFrom, QuietStep, QueueKept
<1>2. VotesKept
  BY DEF VotesKept, QuietStep
<1>3. \A n \in Node : /\ currentTerm[n] \in Nat /\ currentTerm'[n] \in Nat
                      /\ currentTerm[n] <= currentTerm'[n]
  BY ElectionConstants DEF Grows, TypeOK, Terms
<1>4. Terms \subseteq Nat
  BY ElectionConstants DEF Terms
<1>5. FreshInv'
  <2> SUFFICES ASSUME NEW t \in Terms, NEW n \in Node, NEW p \in Node, OnItsWay(t, n, p)'
               PROVE  t <= currentTerm'[n]
    BY DEF FreshInv
  <2>1. OnItsWay(t, n, p)
    BY <1>1 DEF OnItsWay, NoNew, NoNewFrom
  <2>2. t <= currentTerm[n]
    BY <2>1 DEF BallotInv, FreshInv
  <2>3. QED
    BY <1>3, <1>4, <2>2
<1>6. VoteInv'
  <2> SUFFICES ASSUME NEW n \in Node, NEW c \in Node, NEW t \in Terms, <<t, c>> \in votes'[n]
               PROVE  t <= currentTerm'[n] /\ (t = currentTerm'[n] => votedFor'[n] = c)
    BY DEF VoteInv
  <2>1. t <= currentTerm[n] /\ (t = currentTerm[n] => votedFor[n] = c)
    BY DEF BallotInv, VoteInv, QuietStep
  <2>2. t = currentTerm'[n] => currentTerm'[n] = currentTerm[n]
    BY <1>3, <1>4, <2>1
  <2>3. QED
    BY <1>3, <1>4, <2>1, <2>2 DEF QuietStep
<1>7. OneVote'
  BY DEF BallotInv, OneVote, QuietStep
<1>8. CountInv'
  <2> SUFFICES ASSUME NEW n \in Node, NEW t \in Terms, state'[n] = "Candidate",
                      currentTerm'[n] = t
               PROVE  \E stage \in [Node -> Stages] : Tallied(n, t, stage)'
    BY DEF CountInv
  <2>1. state[n] = "Candidate" /\ currentTerm[n] = t
    BY DEF QuietStep
  <2>2. votesReceived'[n] = votesReceived[n] /\ totalVotes'[n] = totalVotes[n]
    BY DEF QuietStep
  <2>3. QED
    BY <1>1, <1>2, <2>1, <2>2, CountKept DEF BallotInv
<1>9. WinInv'
  BY <1>2, BackedStays DEF BallotInv, QuietStep
<1>10. QED
  BY <1>5, <1>6, <1>7, <1>8, <1>9 DEF BallotInv

(* Everything but a campaign and the four steps of a vote is such a step. *)
LEMMA QuietSteps ==
  ASSUME TypeOK, [Next]_vars
  PROVE  \/ QuietStep
         \/ \E n \in Node : ElectionTimer(n) \/ (HandleElectionTimeout(n) /\ state[n] # "Leader")
         \/ \E n \in Node : HandleRequestVote(n) \/ HandleRequestVoteResponse(n)
         \/ \E m \in net : ReceiveRequestVote(m) \/ ReceiveVoteReply(m)
<1> DEFINE beat == [type |-> "Heartbeat"]
           expire == [type |-> "ElectionTimeout"]
<1>0. /\ beat \in Events /\ expire \in Events
      /\ {beat.type, expire.type} \cap {"RequestVote", "RequestVoteResponse"} = {}
  BY EventFacts
<1>a. \A m \in net : m.to \in Node /\ m.from \in Node /\ m.term \in Int
  <2>1. \A m \in net : m.to \in Node /\ m.from \in Node /\ m.term \in Terms
    BY MessageTypes
  <2>2. QED
    BY <2>1, ElectionConstants DEF Terms
<1>b. \A n \in Node : /\ QueueKept(eventCh[n], eventCh[n])
                      /\ eventCh[n] # <<>> => QueueKept(eventCh[n], Tail(eventCh[n]))
                      /\ QueueKept(eventCh[n], Send(eventCh[n], beat))
                      /\ QueueKept(eventCh[n], Send(eventCh[n], expire))
  <2>1. \A n \in Node : eventCh[n] \in Seq(Events)
    BY DEF TypeOK
  <2>2. QED
    BY <1>0, <2>1, KeptFacts
<1>c. /\ DOMAIN eventCh = Node /\ DOMAIN state = Node /\ DOMAIN currentTerm = Node
      /\ \A n \in Node : currentTerm[n] \in Int
  BY ElectionConstants DEF TypeOK, Terms
<1> HIDE DEF beat, expire
<1>1. ASSUME NEW n \in Node, HandleElectionTimeout(n), state[n] = "Leader" PROVE QuietStep
  <2>1. eventCh[n] # <<>> /\ eventCh' = [eventCh EXCEPT ![n] = Tail(eventCh[n])]
    BY <1>1 DEF HandleElectionTimeout, Taking, Campaign
  <2>2. \A p \in Node : QueueKept(eventCh[p], eventCh'[p])
    BY <1>b, <1>c, <2>1
  <2>3. QED
    BY <1>1, <2>2 DEF HandleElectionTimeout, Campaign, QuietStep, nodeVars
<1>2. ASSUME NEW n \in Node, HandleBecomeLeader(n) PROVE QuietStep
  <2>1. eventCh[n] # <<>> /\ eventCh' = [eventCh EXCEPT ![n] = Tail(eventCh[n])]
    BY <1>2 DEF HandleBecomeLeader, Taking
  <2>2. \A p \in Node : QueueKept(eventCh[p], eventCh'[p])
    BY <1>b, <1>c, <2>1
  <2>3. \A p \in Node : state'[p] = "Candidate" => state[p] = "Candidate"
    BY <1>2, <1>c DEF HandleBecomeLeader
  <2>4. QED
    BY <1>2, <2>2, <2>3 DEF HandleBecomeLeader, QuietStep
<1>3. ASSUME NEW n \in Node, HandleHeartbeat(n) PROVE QuietStep
  <2>1. eventCh[n] # <<>> /\ eventCh' = [eventCh EXCEPT ![n] = Tail(eventCh[n])]
    BY <1>3 DEF HandleHeartbeat, Taking
  <2>2. \A p \in Node : QueueKept(eventCh[p], eventCh'[p])
    BY <1>b, <1>c, <2>1
  <2>3. \A p \in Node : state'[p] = "Candidate" => state[p] = "Candidate"
    BY <1>3, <1>c DEF HandleHeartbeat
  <2>4. QED
    BY <1>3, <2>2, <2>3 DEF HandleHeartbeat, QuietStep
<1>4. ASSUME NEW n \in Node, NEW peers, UpdateClusterInfo(n, peers) PROVE QuietStep
  BY <1>4, <1>b DEF UpdateClusterInfo, QuietStep, nodeVars
<1>5. ASSUME NEW n \in Node, FirstHeartbeats(n) \/ NextHeartbeats(n) PROVE QuietStep
  <2>1. \A m \in net' : m \in net \/ m.type = "AppendEntriesReq"
    BY <1>5 DEF FirstHeartbeats, NextHeartbeats, Heartbeats
  <2>2. UNCHANGED <<nodeVars, eventCh, votes, wins>>
    BY <1>5 DEF FirstHeartbeats, NextHeartbeats
  <2>3. QED
    BY <1>b, <2>1, <2>2 DEF QuietStep, nodeVars
<1>6. ASSUME NEW n \in Node, ExpiredTimerStops(n) PROVE QuietStep
  BY <1>6, <1>b DEF ExpiredTimerStops, QuietStep, nodeVars
<1>7. ASSUME NEW n \in Node, ExpiredTimerFails(n) PROVE QuietStep
  <2>1. eventCh' = [eventCh EXCEPT ![n] = Send(eventCh[n], expire)]
    BY <1>7 DEF ExpiredTimerFails, expire
  <2>2. \A p \in Node : QueueKept(eventCh[p], eventCh'[p])
    BY <1>b, <1>c, <2>1
  <2>3. QED
    BY <1>7, <2>2 DEF ExpiredTimerFails, QuietStep, nodeVars
<1>8. ASSUME NEW n \in Node, NEW peers, ExpiredTimerAnswered(n, peers) PROVE QuietStep
  <2>1. eventCh' = [eventCh EXCEPT ![n] = Send(eventCh[n], beat)]
    BY <1>8 DEF ExpiredTimerAnswered, beat
  <2>2. \A p \in Node : QueueKept(eventCh[p], eventCh'[p])
    BY <1>b, <1>c, <2>1
  <2>3. QED
    BY <1>8, <2>2 DEF ExpiredTimerAnswered, QuietStep, nodeVars
<1>9. ASSUME NEW m \in net,
             \/ UNCHANGED <<currentTerm, votedFor, state>>
             \/ /\ m.term > currentTerm[m.to]
                /\ currentTerm' = [currentTerm EXCEPT ![m.to] = m.term]
                /\ votedFor' = [votedFor EXCEPT ![m.to] = None]
                /\ state' = [state EXCEPT ![m.to] = "Follower"]
      PROVE  /\ \A n \in Node : state'[n] = "Candidate" =>
                                  state[n] = "Candidate" /\ currentTerm'[n] = currentTerm[n]
             /\ \A n \in Node : currentTerm'[n] = currentTerm[n] => votedFor'[n] = votedFor[n]
  <2>1. CASE UNCHANGED <<currentTerm, votedFor, state>>
    BY <2>1
  <2>2. CASE /\ m.term > currentTerm[m.to]
             /\ currentTerm' = [currentTerm EXCEPT ![m.to] = m.term]
             /\ votedFor' = [votedFor EXCEPT ![m.to] = None]
             /\ state' = [state EXCEPT ![m.to] = "Follower"]
    <3>1. m.to \in Node /\ m.term # currentTerm[m.to]
      BY <1>a, <1>c, <2>2
    <3>2. \A n \in Node : /\ n # m.to => /\ state'[n] = state[n]
                                         /\ currentTerm'[n] = currentTerm[n]
                                         /\ votedFor'[n] = votedFor[n]
                          /\ n = m.to => state'[n] = "Follower" /\ currentTerm'[n] = m.term
      BY <1>c, <2>2 DEF TypeOK
    <3>3. QED
      BY <3>1, <3>2
  <2>3. QED
    BY <1>9, <2>1, <2>2
<1>10. ASSUME NEW m \in net, AppendEntries(m) PROVE QuietStep
  <2>1. eventCh' = [eventCh EXCEPT ![m.to] = Send(eventCh[m.to], beat)]
    BY <1>10 DEF AppendEntries, beat
  <2>2. \A p \in Node : QueueKept(eventCh[p], eventCh'[p])
    BY <1>b, <1>c, <2>1
  <2>3. \A r \in net' : r \in net \/ r.type = "AppendEntriesResp"
    BY <1>10 DEF AppendEntries
  <2>4. \/ UNCHANGED <<currentTerm, votedFor, state>>
        \/ /\ m.term > currentTerm[m.to]
           /\ currentTerm' = [currentTerm EXCEPT ![m.to] = m.term]
           /\ votedFor' = [votedFor EXCEPT ![m.to] = None]
           /\ state' = [state EXCEPT ![m.to] = "Follower"]
    BY <1>10 DEF AppendEntries, StepDown
  <2>5. UNCHANGED <<votesReceived, totalVotes, votes, wins>>
    BY <1>10 DEF AppendEntries
  <2>6. QED
    BY <1>9, <2>2, <2>3, <2>4, <2>5 DEF QuietStep
<1>11. ASSUME NEW m \in net, HeartbeatReply(m) PROVE QuietStep
  <2>1. \/ UNCHANGED <<currentTerm, votedFor, state>>
        \/ /\ m.term > currentTerm[m.to]
           /\ currentTerm' = [currentTerm EXCEPT ![m.to] = m.term]
           /\ votedFor' = [votedFor EXCEPT ![m.to] = None]
           /\ state' = [state EXCEPT ![m.to] = "Follower"]
    BY <1>11 DEF HeartbeatReply, StepDown
  <2>2. net' \subseteq net /\ UNCHANGED <<eventCh, votesReceived, totalVotes, votes, wins>>
    BY <1>11 DEF HeartbeatReply
  <2>3. QED
    BY <1>9, <1>b, <2>1, <2>2 DEF QuietStep
<1>12. CASE UNCHANGED vars
  BY <1>12, <1>b DEF vars, nodeVars, QuietStep
<1>13. QED
  BY <1>1, <1>2, <1>3, <1>4, <1>5, <1>6, <1>7, <1>8, <1>10, <1>11, <1>12 DEF Next

(* Terms as numbers. *)
LEMMA TermNumbers ==
  ASSUME TypeOK, TypeOK'
  PROVE  /\ Terms \subseteq Nat
         /\ \A n \in Node : currentTerm[n] \in Nat /\ currentTerm'[n] \in Nat
  BY ElectionConstants DEF TypeOK, Terms

(* Votes of terms already reached, and the new ones. *)
LEMMA FreshKept ==
  ASSUME TypeOK, TypeOK', Grows, FreshInv,
         \A t \in Terms, n, p \in Node :
           OnItsWay(t, n, p)' => OnItsWay(t, n, p) \/ t <= currentTerm'[n]
  PROVE  FreshInv'
<1> SUFFICES ASSUME NEW t \in Terms, NEW n \in Node, NEW p \in Node, OnItsWay(t, n, p)'
             PROVE  t <= currentTerm'[n]
  BY DEF FreshInv
<1>1. CASE OnItsWay(t, n, p)
  <2>1. t <= currentTerm[n] /\ currentTerm[n] <= currentTerm'[n]
    BY <1>1 DEF FreshInv, Grows
  <2>2. QED
    BY <2>1, TermNumbers
<1>2. QED
  BY <1>1

(* A candidate starts a new election: nothing of it is under way yet, its  *)
(* own vote is cast, and the number of votes it waits for is that of the   *)
(* servers, or one more if it is its own peer.                             *)
LEMMA CampaignBallots ==
  ASSUME TypeOK, TypeOK', Grows, PeersInv, BallotInv, NEW n \in Node,
         NEW rest \in Seq(Events), QueueKept(eventCh[n], rest), Campaign(n, rest)
  PROVE  BallotInv'
<1>t. PICK t \in Terms : t = currentTerm[n] + 1
  <2>1. currentTerm'[n] \in Terms /\ currentTerm'[n] = currentTerm[n] + 1
    BY DEF Campaign, TypeOK
  <2>2. QED
    BY <2>1
<1>1. /\ currentTerm[n] < t /\ currentTerm'[n] = t /\ votedFor'[n] = n
      /\ \A p \in Node : p # n => /\ currentTerm'[p] = currentTerm[p]
                                  /\ votedFor'[p] = votedFor[p] /\ state'[p] = state[p]
                                  /\ votesReceived'[p] = votesReceived[p]
                                  /\ totalVotes'[p] = totalVotes[p]
      /\ votesReceived'[n] = 1 /\ totalVotes'[n] = Cardinality(Peers[n]) + 1
  <2>1. /\ DOMAIN currentTerm = Node /\ DOMAIN votedFor = Node /\ DOMAIN state = Node
        /\ DOMAIN votesReceived = Node /\ DOMAIN totalVotes = Node /\ currentTerm[n] \in Nat
    BY TermNumbers DEF TypeOK
  <2>2. QED
    BY <1>t, <2>1 DEF Campaign
<1>2. \A p \in Node : votes'[p] = IF p = n THEN votes[p] \cup {<<t, n>>} ELSE votes[p]
  <2>1. votes' = [votes EXCEPT ![n] = votes[n] \cup {<<t, n>>}] /\ DOMAIN votes = Node
    BY <1>t DEF Campaign, TypeOK
  <2>2. QED
    BY <2>1
<1>v. \A p \in Node : \A u, c :
        <<u, c>> \in votes'[p] <=> <<u, c>> \in votes[p] \/ (p = n /\ u = t /\ c = n)
  <2> SUFFICES ASSUME NEW p \in Node, NEW u, NEW c
               PROVE  <<u, c>> \in votes'[p]
                        <=> <<u, c>> \in votes[p] \/ (p = n /\ u = t /\ c = n)
    OBVIOUS
  <2>1. <<u, c>> = <<t, n>> <=> u = t /\ c = n
    OBVIOUS
  <2>2. CASE p = n
    BY <1>2, <2>1, <2>2
  <2>3. CASE p # n
    BY <1>2, <2>3
  <2>4. QED
    BY <2>2, <2>3
<1>3. VotesKept
  BY <1>2 DEF VotesKept
<1>4. \A p \in Node : QueueKept(eventCh[p], eventCh'[p])
  <2> DEFINE b == [type |-> "BecomeLeader"]
  <2>1. b \in Events /\ b.type \notin {"RequestVote", "RequestVoteResponse"}
    BY EventFacts
  <2>2. \/ eventCh' = [eventCh EXCEPT ![n] = rest]
        \/ eventCh' = [eventCh EXCEPT ![n] = Send(rest, b)]
    BY DEF Campaign
  <2> HIDE DEF b
  <2>3. \A p \in Node : eventCh[p] \in Seq(Events) /\ DOMAIN eventCh = Node
    BY DEF TypeOK
  <2>4. /\ QueueKept(eventCh[n], Send(rest, b))
        /\ \A p \in Node : QueueKept(eventCh[p], eventCh[p])
    BY <2>1, <2>3, KeptFacts
  <2>5. QED
    BY <2>2, <2>3, <2>4
<1>5. \A u, c, p : /\ VoteResp(u, c, p) \in net' => VoteResp(u, c, p) \in net
                   /\ VoteReq(u, c, p) \in net' =>
                        VoteReq(u, c, p) \in net \/ (u = t /\ c = n /\ p \in Peers[n])
  <2>1. net' \subseteq net \cup {VoteReq(t, n, p) : p \in Peers[n]}
    BY <1>t DEF Campaign, VoteReq
  <2>2. QED
    BY <2>1, VoteDistinct
<1>6. \A c \in Node, u \in Terms : c # n \/ u # t => NoNew(c, u)
  BY <1>4, <1>5 DEF NoNew, NoNewFrom, QueueKept
<1>7. FreshInv'
  <2>1. ASSUME NEW u \in Terms, NEW c \in Node, NEW p \in Node, OnItsWay(u, c, p)'
        PROVE  OnItsWay(u, c, p) \/ u <= currentTerm'[c]
    <3>1. CASE c # n \/ u # t
      BY <1>6, <2>1, <3>1 DEF OnItsWay, NoNew, NoNewFrom
    <3>2. CASE c = n /\ u = t
      BY <1>1, <3>2, TermNumbers
    <3>3. QED
      BY <3>1, <3>2
  <2>2. QED
    BY <2>1, FreshKept DEF BallotInv
<1>8. VoteInv' /\ OneVote'
  <2>1. \A c \in Node : <<t, c>> \notin votes[n]
    BY <1>1, TermNumbers DEF BallotInv, VoteInv
  <2>2. VoteInv'
    <3> SUFFICES ASSUME NEW p \in Node, NEW c \in Node, NEW u \in Terms, <<u, c>> \in votes'[p]
                 PROVE  u <= currentTerm'[p] /\ (u = currentTerm'[p] => votedFor'[p] = c)
      BY DEF VoteInv
    <3>1. CASE <<u, c>> \in votes[p]
      <4>1. u <= currentTerm[p] /\ (u = currentTerm[p] => votedFor[p] = c)
        BY <3>1 DEF BallotInv, VoteInv
      <4>2. QED
        BY <1>1, <4>1, TermNumbers
    <3>2. CASE p = n /\ u = t /\ c = n
      BY <1>1, <3>2, TermNumbers
    <3>3. QED
      BY <1>v, <3>1, <3>2
  <2>3. OneVote'
    <3> SUFFICES ASSUME NEW p \in Node, NEW c \in Node, NEW d \in Node, NEW u \in Terms,
                        <<u, c>> \in votes'[p], <<u, d>> \in votes'[p]
                 PROVE  c = d
      BY DEF OneVote
    <3>1. CASE p = n /\ u = t
      BY <1>v, <2>1, <3>1
    <3>2. CASE p # n \/ u # t
      <4>1. <<u, c>> \in votes[p] /\ <<u, d>> \in votes[p]
        BY <1>v, <3>2
      <4>2. QED
        BY <4>1 DEF BallotInv, OneVote
    <3>3. QED
      BY <3>1, <3>2
  <2>4. QED
    BY <2>2, <2>3
<1>9. \E stage \in [Node -> Stages] : Tallied(n, t, stage)'
  <2>1. PICK stage \in [Node -> Stages] :
          \A p \in Node : stage[p] = IF p \in Peers[n] THEN "asked" ELSE "none"
    <3> DEFINE f == [p \in Node |-> IF p \in Peers[n] THEN "asked" ELSE "none"]
    <3>1. f \in [Node -> Stages]
      BY DEF Stages
    <3>2. QED
      BY <3>1
  <2>2. \A p \in Node : ~OnItsWay(t, n, p)
    BY <1>1, TermNumbers DEF BallotInv, FreshInv
  <2>3. \A p \in Node :
          /\ VoteReq(t, n, p) \in net' => stage[p] = "asked"
          /\ VoteResp(t, n, p) \notin net'
          /\ ~Holds(eventCh'[p], AskEvent(t, n))
          /\ ~Holds(eventCh'[n], AnswerEvent(t, p))
    BY <1>4, <1>5, <2>1, <2>2 DEF OnItsWay, QueueKept
  <2>4. \A q, e : ~Holds(q, e) => HoldsOnce(q, e)
    BY DEF Holds, HoldsOnce
  <2>5. n \in Voters(t, n)'
    BY <1>2 DEF Voters
  <2>6. votesReceived'[n] = Cardinality({p \in Node : stage[p] = "counted"}) + 1
    <3> DEFINE C == {p \in Node : stage[p] = "counted"}
    <3>1. C = {}
      BY <2>1
    <3> HIDE DEF C
    <3>2. Cardinality(C) = 0
      BY <3>1, FS_EmptySet
    <3>3. votesReceived'[n] = Cardinality(C) + 1
      BY <1>1, <3>2
    <3>4. QED
      BY <3>3 DEF C
  <2>7. \/ totalVotes'[n] = Cardinality(Node) /\ stage[n] = "none"
        \/ totalVotes'[n] = Cardinality(Node) + 1 /\ ~Unlisted
    <3>1. GoodPeers(n, Peers[n]) /\ Peers[n] \in SUBSET Node
      BY DEF PeersInv, TypeOK
    <3>2. CASE n \in Peers[n]
      <4>1. Peers[n] = Node /\ ~Unlisted
        BY <3>1, <3>2 DEF GoodPeers
      <4>2. QED
        BY <1>1, <4>1
    <3>3. CASE n \notin Peers[n]
      <4>1. IsFiniteSet(Peers[n]) /\ Node = Peers[n] \cup {n}
        BY <3>1, FS_Subset, ElectionConstants DEF GoodPeers
      <4>2. Cardinality(Node) = Cardinality(Peers[n]) + 1
        BY <3>3, <4>1, FS_AddElement
      <4>3. QED
        BY <1>1, <2>1, <3>3, <4>2
    <3>4. QED
      BY <3>2, <3>3
  <2>8. Tallied(n, t, stage)'
    <3>1. \A p \in Node : AtStage(n, t, p, stage[p])'
      BY <2>1, <2>3, <2>4 DEF AtStage
    <3>2. QED
      BY <2>5, <2>6, <2>7, <3>1 DEF Tallied
  <2>9. QED
    BY <2>8
<1>10. CountInv'
  <2> SUFFICES ASSUME NEW c \in Node, NEW u \in Terms, state'[c] = "Candidate",
                      currentTerm'[c] = u
               PROVE  \E stage \in [Node -> Stages] : Tallied(c, u, stage)'
    BY DEF CountInv
  <2>1. CASE c = n
    <3>1. u = t
      BY <1>1, <2>1
    <3>2. QED
      BY <1>9, <2>1, <3>1
  <2>2. CASE c # n
    <3>1. /\ state[c] = "Candidate" /\ currentTerm[c] = u /\ NoNew(c, u)
          /\ votesReceived'[c] = votesReceived[c] /\ totalVotes'[c] = totalVotes[c]
      BY <1>1, <1>6, <2>2
    <3>2. QED
      BY <1>3, <3>1, CountKept DEF BallotInv
  <2>3. QED
    BY <2>1, <2>2
<1>11. WinInv'
  <2>1. ASSUME NEW w \in wins', w \notin wins
        PROVE  Backed({p \in Node : w \in votes'[p]})
    <3>1. w = <<t, n>> /\ Peers[n] = {}
      BY <1>t, <2>1 DEF Campaign
    <3>2. Node = {n}
      BY <3>1 DEF PeersInv, GoodPeers
    <3> DEFINE S == {p \in Node : w \in votes'[p]}
    <3>3. S = {n}
      BY <1>2, <3>1, <3>2
    <3> HIDE DEF S
    <3>4. Cardinality(S) = 1 /\ Cardinality(Node) = 1
      BY <3>2, <3>3, FS_Singleton
    <3>5. Backed(S)
      BY <3>4 DEF Backed
    <3>6. QED
      BY <3>5 DEF S
  <2>2. QED
    BY <1>3, <2>1, BackedStays DEF BallotInv
<1>12. QED
  BY <1>7, <1>8, <1>10, <1>11 DEF BallotInv

(* A request is queued: the vote is in one place before and after. *)
LEMMA AskedBallots ==
  ASSUME TypeOK, TypeOK', Grows, BallotInv, NEW m \in net, ReceiveRequestVote(m)
  PROVE  BallotInv'
<1>p. PICK t \in Terms, n \in Node, p \in Node : m = VoteReq(t, n, p)
  BY VoteRecords DEF TypeOK, ReceiveRequestVote
<1> DEFINE e == AskEvent(t, n)
<1>1. /\ net' = net \ {m} /\ e \in Events
      /\ eventCh' = [eventCh EXCEPT ![p] = Send(eventCh[p], e)]
  <2>1. m.to = p /\ m.from = n /\ m.term = t
    BY <1>p DEF VoteReq
  <2>2. QED
    BY <2>1, EventFacts DEF ReceiveRequestVote, AskEvent
<1> HIDE DEF e
<1>2. \A r \in Node : eventCh[r] \in Seq(Events)
                        /\ eventCh'[r] = IF r = p THEN Send(eventCh[p], e) ELSE eventCh[r]
  BY <1>1 DEF TypeOK
<1>3. \A r \in Node : \A x :
                         /\ Holds(eventCh'[r], x) => Holds(eventCh[r], x) \/ (r = p /\ x = e)
                         /\ HoldsOnce(eventCh[r], x) /\ (r # p \/ x # e \/ ~Holds(eventCh[r], x))
                              => HoldsOnce(eventCh'[r], x)
  <2> SUFFICES ASSUME NEW r \in Node, NEW x
               PROVE  /\ Holds(eventCh'[r], x) => Holds(eventCh[r], x) \/ (r = p /\ x = e)
                      /\ HoldsOnce(eventCh[r], x) /\ (r # p \/ x # e \/ ~Holds(eventCh[r], x))
                           => HoldsOnce(eventCh'[r], x)
    OBVIOUS
  <2>1. CASE r = p
    BY <1>1, <1>2, <2>1, HoldFacts
  <2>2. CASE r # p
    BY <1>2, <2>2
  <2>3. QED
    BY <2>1, <2>2
<1>4. \A u, c, r : /\ VoteReq(u, c, r) \in net' => VoteReq(u, c, r) \in net
                   /\ VoteResp(u, c, r) \in net' => VoteResp(u, c, r) \in net
  BY <1>1
<1>5. /\ \A u, c : AskEvent(u, c) = e <=> u = t /\ c = n
      /\ \A u, c : AnswerEvent(u, c) # e
  BY VoteDistinct DEF e
<1>6. \A c \in Node, u \in Terms : c # n \/ u # t => NoNew(c, u)
  BY <1>3, <1>4, <1>5 DEF NoNew, NoNewFrom
<1>7. /\ UNCHANGED <<state, currentTerm, votedFor, votesReceived, totalVotes, votes, wins>>
      /\ VotesKept
  BY DEF ReceiveRequestVote, nodeVars, VotesKept
<1>8. FreshInv'
  <2>1. \A u \in Terms, c, r \in Node : OnItsWay(u, c, r)' => OnItsWay(u, c, r)
    BY <1>p, <1>3, <1>4, <1>5 DEF OnItsWay
  <2>2. QED
    BY <2>1, FreshKept DEF BallotInv
<1>9. VoteInv' /\ OneVote'
  BY <1>7 DEF BallotInv, VoteInv, OneVote
<1>10. ASSUME state[n] = "Candidate", currentTerm[n] = t
       PROVE  \E stage \in [Node -> Stages] : Tallied(n, t, stage)'
  <2>1. PICK old \in [Node -> Stages] : Tallied(n, t, old)
    BY <1>10 DEF BallotInv, CountInv
  <2>2. AtStage(n, t, p, old[p]) /\ VoteReq(t, n, p) \in net
    BY <1>p, <2>1 DEF Tallied
  <2>3. old[p] = "asked" /\ HoldsOnce(eventCh[p], e) /\ HoldsOnce(eventCh[n], AnswerEvent(t, p))
    BY <2>2 DEF AtStage, e
  <2>4. ~Holds(eventCh[p], e) /\ VoteResp(t, n, p) \notin net
        /\ ~Holds(eventCh[n], AnswerEvent(t, p))
    BY <2>2, <2>3 DEF AtStage, e
  <2>5. VoteReq(t, n, p) \notin net'
    BY <1>p, <1>1
  <2>6. VoteResp(t, n, p) \notin net' /\ ~Holds(eventCh'[n], AnswerEvent(t, p))
    BY <1>3, <1>4, <1>5, <2>4
  <2>7. HoldsOnce(eventCh'[p], e) /\ HoldsOnce(eventCh'[n], AnswerEvent(t, p))
    BY <1>3, <1>5, <2>3, <2>4
  <2>8. AtStage(n, t, p, "queued")'
    BY <2>5, <2>6, <2>7 DEF AtStage, e
  <2>9. \A r \in Node : r # p => NoNewFrom(n, t, r)
    BY <1>3, <1>4, <1>5 DEF NoNewFrom
  <2>10. /\ totalVotes'[n] = totalVotes[n] /\ votesReceived'[n] = votesReceived[n]
         /\ "queued" \in Stages /\ old[p] \notin {"none", "counted"}
    BY <1>7, <2>3 DEF Stages
  <2>11. QED
    BY <1>7, <2>1, <2>8, <2>9, <2>10, TallyMoved
<1>11. CountInv'
  <2> SUFFICES ASSUME NEW c \in Node, NEW u \in Terms, state'[c] = "Candidate",
                      currentTerm'[c] = u
               PROVE  \E stage \in [Node -> Stages] : Tallied(c, u, stage)'
    BY DEF CountInv
  <2>1. /\ state[c] = "Candidate" /\ currentTerm[c] = u
        /\ votesReceived'[c] = votesReceived[c] /\ totalVotes'[c] = totalVotes[c]
    BY <1>7
  <2>2. CASE c # n \/ u # t
    BY <1>6, <1>7, <2>1, <2>2, CountKept DEF BallotInv
  <2>3. CASE c = n /\ u = t
    BY <1>10, <2>1, <2>3
  <2>4. QED
    BY <2>2, <2>3
<1>12. WinInv'
  BY <1>7, BackedStays DEF BallotInv
<1>13. QED
  BY <1>8, <1>9, <1>11, <1>12 DEF BallotInv

(* A reply is queued at the candidate: again one place before and after. *)
LEMMA RepliedBallots ==
  ASSUME TypeOK, TypeOK', Grows, BallotInv, NEW m \in net, ReceiveVoteReply(m)
  PROVE  BallotInv'
<1>p. PICK t \in Terms, n \in Node, p \in Node : m = VoteResp(t, n, p)
  BY VoteRecords DEF TypeOK, ReceiveVoteReply
<1> DEFINE e == AnswerEvent(t, p)
<1>1. /\ net' = net \ {m} /\ e \in Events
      /\ eventCh' = [eventCh EXCEPT ![n] = Send(eventCh[n], e)]
  <2>1. m.to = n /\ m.from = p /\ m.term = t
    BY <1>p DEF VoteResp
  <2>2. QED
    BY <2>1, EventFacts DEF ReceiveVoteReply, AnswerEvent
<1> HIDE DEF e
<1>2. \A r \in Node : eventCh[r] \in Seq(Events)
                        /\ eventCh'[r] = IF r = n THEN Send(eventCh[n], e) ELSE eventCh[r]
  BY <1>1 DEF TypeOK
<1>3. \A r \in Node : \A x :
                         /\ Holds(eventCh'[r], x) => Holds(eventCh[r], x) \/ (r = n /\ x = e)
                         /\ HoldsOnce(eventCh[r], x) /\ (r # n \/ x # e \/ ~Holds(eventCh[r], x))
                              => HoldsOnce(eventCh'[r], x)
  <2> SUFFICES ASSUME NEW r \in Node, NEW x
               PROVE  /\ Holds(eventCh'[r], x) => Holds(eventCh[r], x) \/ (r = n /\ x = e)
                      /\ HoldsOnce(eventCh[r], x) /\ (r # n \/ x # e \/ ~Holds(eventCh[r], x))
                           => HoldsOnce(eventCh'[r], x)
    OBVIOUS
  <2>1. CASE r = n
    BY <1>1, <1>2, <2>1, HoldFacts
  <2>2. CASE r # n
    BY <1>2, <2>2
  <2>3. QED
    BY <2>1, <2>2
<1>4. \A u, c, r : /\ VoteReq(u, c, r) \in net' => VoteReq(u, c, r) \in net
                   /\ VoteResp(u, c, r) \in net' => VoteResp(u, c, r) \in net
  BY <1>1
<1>5. /\ \A u, c : AnswerEvent(u, c) = e <=> u = t /\ c = p
      /\ \A u, c : AskEvent(u, c) # e
  BY VoteDistinct DEF e
<1>6. \A c \in Node, u \in Terms : c # n \/ u # t => NoNew(c, u)
  BY <1>3, <1>4, <1>5 DEF NoNew, NoNewFrom
<1>7. /\ UNCHANGED <<state, currentTerm, votedFor, votesReceived, totalVotes, votes, wins>>
      /\ VotesKept
  BY DEF ReceiveVoteReply, nodeVars, VotesKept
<1>8. FreshInv'
  <2>1. \A u \in Terms, c, r \in Node : OnItsWay(u, c, r)' => OnItsWay(u, c, r)
    BY <1>p, <1>3, <1>4, <1>5 DEF OnItsWay
  <2>2. QED
    BY <2>1, FreshKept DEF BallotInv
<1>9. VoteInv' /\ OneVote'
  BY <1>7 DEF BallotInv, VoteInv, OneVote
<1>10. ASSUME state[n] = "Candidate", currentTerm[n] = t
       PROVE  \E stage \in [Node -> Stages] : Tallied(n, t, stage)'
  <2>1. PICK old \in [Node -> Stages] : Tallied(n, t, old)
    BY <1>10 DEF BallotInv, CountInv
  <2>2. AtStage(n, t, p, old[p]) /\ VoteResp(t, n, p) \in net
    BY <1>p, <2>1 DEF Tallied
  <2>3. /\ old[p] = "replied" /\ HoldsOnce(eventCh[p], AskEvent(t, n))
        /\ HoldsOnce(eventCh[n], e) /\ p \in Voters(t, n)
    BY <2>2 DEF AtStage, e
  <2>4. ~Holds(eventCh[p], AskEvent(t, n)) /\ VoteReq(t, n, p) \notin net
        /\ ~Holds(eventCh[n], e)
    BY <2>2, <2>3 DEF AtStage, e
  <2>5. VoteResp(t, n, p) \notin net'
    BY <1>p, <1>1
  <2>6. VoteReq(t, n, p) \notin net' /\ ~Holds(eventCh'[p], AskEvent(t, n))
    BY <1>3, <1>4, <1>5, <2>4
  <2>7. /\ HoldsOnce(eventCh'[p], AskEvent(t, n)) /\ HoldsOnce(eventCh'[n], e)
        /\ p \in Voters(t, n)'
    BY <1>3, <1>5, <1>7, <2>3, <2>4 DEF Voters
  <2>8. AtStage(n, t, p, "answered")'
    BY <2>5, <2>6, <2>7 DEF AtStage, e
  <2>9. \A r \in Node : r # p => NoNewFrom(n, t, r)
    BY <1>3, <1>4, <1>5 DEF NoNewFrom
  <2>10. /\ totalVotes'[n] = totalVotes[n] /\ votesReceived'[n] = votesReceived[n]
         /\ "answered" \in Stages /\ old[p] \notin {"none", "counted"}
    BY <1>7, <2>3 DEF Stages
  <2>11. QED
    BY <1>7, <2>1, <2>8, <2>9, <2>10, TallyMoved
<1>11. CountInv'
  <2> SUFFICES ASSUME NEW c \in Node, NEW u \in Terms, state'[c] = "Candidate",
                      currentTerm'[c] = u
               PROVE  \E stage \in [Node -> Stages] : Tallied(c, u, stage)'
    BY DEF CountInv
  <2>1. /\ state[c] = "Candidate" /\ currentTerm[c] = u
        /\ votesReceived'[c] = votesReceived[c] /\ totalVotes'[c] = totalVotes[c]
    BY <1>7
  <2>2. CASE c # n \/ u # t
    BY <1>6, <1>7, <2>1, <2>2, CountKept DEF BallotInv
  <2>3. CASE c = n /\ u = t
    BY <1>10, <2>1, <2>3
  <2>4. QED
    BY <2>2, <2>3
<1>12. WinInv'
  BY <1>7, BackedStays DEF BallotInv
<1>13. QED
  BY <1>8, <1>9, <1>11, <1>12 DEF BallotInv

(* A node answers a request.  It gives its vote of a term to one candidate *)
(* only; a vote it gives is one that was asked for.                        *)
LEMMA VotedBallots ==
  ASSUME TypeOK, TypeOK', Grows, BallotInv, NEW p \in Node, HandleRequestVote(p)
  PROVE  BallotInv'
<1>h. eventCh[p] \in Seq(Events) /\ eventCh[p] # <<>> /\ Head(eventCh[p]).type = "RequestVote"
  BY DEF TypeOK, HandleRequestVote, Taking
<1>p. PICK t \in Terms, n \in Node : Head(eventCh[p]) = AskEvent(t, n)
  BY <1>h, TakeFacts, VoteRecords
<1> DEFINE e == AskEvent(t, n)
           higher == t > currentTerm[p]
           grant == higher \/ (t = currentTerm[p] /\ votedFor[p] \in {None, n})
<1>1. /\ net' = IF grant THEN net \cup {VoteResp(t, n, p)} ELSE net
      /\ currentTerm' = [currentTerm EXCEPT ![p] = IF higher THEN t ELSE @]
      /\ state' = [state EXCEPT ![p] = IF higher THEN "Follower" ELSE @]
      /\ votedFor' = [votedFor EXCEPT ![p] = IF grant THEN n ELSE @]
      /\ votes' = [votes EXCEPT ![p] = IF grant THEN @ \cup {<<t, n>>} ELSE @]
      /\ eventCh' = [eventCh EXCEPT ![p] = Tail(@)]
      /\ UNCHANGED <<votesReceived, totalVotes, wins>>
  <2>1. Head(eventCh[p]).term = t /\ Head(eventCh[p]).cand = n
    BY <1>p DEF AskEvent
  <2>2. QED
    BY <2>1 DEF HandleRequestVote, VoteResp
<1>2. \A r \in Node : /\ r # p => /\ currentTerm'[r] = currentTerm[r] /\ state'[r] = state[r]
                                  /\ votedFor'[r] = votedFor[r] /\ votes'[r] = votes[r]
                      /\ currentTerm[r] \in Nat
  <2>1. \A r \in Node : currentTerm[r] \in Nat
    BY TermNumbers
  <2>2. QED
    BY <1>1, <2>1 DEF TypeOK
<1>3. /\ currentTerm'[p] = IF higher THEN t ELSE currentTerm[p]
      /\ state'[p] = IF higher THEN "Follower" ELSE state[p]
      /\ votedFor'[p] = IF grant THEN n ELSE votedFor[p]
      /\ votes'[p] = IF grant THEN votes[p] \cup {<<t, n>>} ELSE votes[p]
  BY <1>1 DEF TypeOK
<1>4. \A r \in Node : \A u, c :
        <<u, c>> \in votes'[r] <=> <<u, c>> \in votes[r] \/ (grant /\ r = p /\ u = t /\ c = n)
  <2> HIDE DEF grant, higher
  <2> SUFFICES ASSUME NEW r \in Node, NEW u, NEW c
               PROVE  <<u, c>> \in votes'[r]
                        <=> <<u, c>> \in votes[r] \/ (grant /\ r = p /\ u = t /\ c = n)
    OBVIOUS
  <2>1. <<u, c>> = <<t, n>> <=> u = t /\ c = n
    OBVIOUS
  <2>2. CASE r = p
    BY <1>3, <2>1, <2>2
  <2>3. CASE r # p
    BY <1>2, <2>3
  <2>4. QED
    BY <2>2, <2>3
<1>5. VotesKept
  <2> HIDE DEF grant
  <2>1. votes[p] \subseteq votes'[p]
    BY <1>3
  <2>2. QED
    BY <1>2, <2>1 DEF VotesKept
<1>6. t \in Nat /\ n # None /\ e = Head(eventCh[p])
  BY <1>p, TermNumbers, ElectionConstants
<1>7. ASSUME NEW c \in Node, NEW u \in Terms, <<u, c>> \in votes[p]
      PROVE  /\ u <= currentTerm[p] /\ (u = currentTerm[p] => votedFor[p] = c)
             /\ u \in Nat /\ c # None
  BY <1>7, TermNumbers, ElectionConstants DEF BallotInv, VoteInv
<1>8. VoteInv'
  <2> SUFFICES ASSUME NEW r \in Node, NEW c \in Node, NEW u \in Terms, <<u, c>> \in votes'[r]
               PROVE  u <= currentTerm'[r] /\ (u = currentTerm'[r] => votedFor'[r] = c)
    BY DEF VoteInv
  <2>1. CASE r # p
    <3>1. <<u, c>> \in votes[r]
      BY <1>4, <2>1
    <3>2. QED
      BY <1>2, <2>1, <3>1 DEF BallotInv, VoteInv
  <2>2. CASE r = p /\ <<u, c>> \in votes[p]
    <3>1. /\ u <= currentTerm[p] /\ (u = currentTerm[p] => votedFor[p] = c)
          /\ u \in Nat /\ c # None
      BY <1>7, <2>2
    <3>2. QED
      BY <1>2, <1>3, <1>6, <2>2, <3>1
  <2>3. CASE r = p /\ grant /\ u = t /\ c = n
    BY <1>2, <1>3, <1>6, <2>3
  <2>4. QED
    BY <1>4, <2>1, <2>2, <2>3
<1>9. OneVote'
  <2>1. ASSUME grant, NEW d \in Node, <<t, d>> \in votes[p] PROVE d = n
    <3>1. t <= currentTerm[p] /\ (t = currentTerm[p] => votedFor[p] = d) /\ d # None
      BY <1>7, <2>1
    <3>2. QED
      BY <1>2, <1>6, <2>1, <3>1
  <2> HIDE DEF grant
  <2> SUFFICES ASSUME NEW r \in Node, NEW c \in Node, NEW d \in Node, NEW u \in Terms,
                      <<u, c>> \in votes'[r], <<u, d>> \in votes'[r]
               PROVE  c = d
    BY DEF OneVote
  <2>2. CASE <<u, c>> \in votes[r] /\ <<u, d>> \in votes[r]
    BY <2>2 DEF BallotInv, OneVote
  <2>3. CASE ~(<<u, c>> \in votes[r] /\ <<u, d>> \in votes[r])
    BY <1>4, <2>1, <2>3
  <2>4. QED
    BY <2>2, <2>3
<1>10. /\ \A r \in Node : \A x :
                             /\ Holds(eventCh'[r], x) => Holds(eventCh[r], x)
                             /\ HoldsOnce(eventCh[r], x) => HoldsOnce(eventCh'[r], x)
       /\ Holds(eventCh[p], e)
       /\ HoldsOnce(eventCh[p], e) => ~Holds(eventCh'[p], e)
  <2>1. \A r \in Node : eventCh'[r] = IF r = p THEN Tail(eventCh[p]) ELSE eventCh[r]
    BY <1>1 DEF TypeOK
  <2>2. \A x : /\ Holds(Tail(eventCh[p]), x) => Holds(eventCh[p], x)
               /\ HoldsOnce(eventCh[p], x) => HoldsOnce(Tail(eventCh[p]), x)
    BY <1>h, HoldFacts
  <2>3. /\ Holds(eventCh[p], e)
        /\ HoldsOnce(eventCh[p], e) => ~Holds(Tail(eventCh[p]), e)
    BY <1>h, <1>6, HoldFacts
  <2>4. QED
    BY <2>1, <2>2, <2>3
<1>11. \A u, c, r : /\ VoteReq(u, c, r) \in net' => VoteReq(u, c, r) \in net
                    /\ VoteResp(u, c, r) \in net' => \/ VoteResp(u, c, r) \in net
                                                     \/ grant /\ u = t /\ c = n /\ r = p
  <2> HIDE DEF grant
  <2>1. net' \subseteq net \cup {VoteResp(t, n, p)} /\ (~grant => net' = net)
    BY <1>1
  <2>2. QED
    BY <2>1, VoteDistinct
<1> HIDE DEF grant, e
<1>12. \A c \in Node, u \in Terms : c # n \/ u # t => NoNew(c, u)
  BY <1>10, <1>11 DEF NoNew, NoNewFrom
<1>13. FreshInv'
  <2>1. \A u \in Terms, c, r \in Node : OnItsWay(u, c, r)' => OnItsWay(u, c, r)
    BY <1>10, <1>11 DEF OnItsWay, e
  <2>2. QED
    BY <2>1, FreshKept DEF BallotInv
<1>14. ASSUME state[n] = "Candidate", currentTerm[n] = t
       PROVE  \E stage \in [Node -> Stages] : Tallied(n, t, stage)'
  <2>1. PICK old \in [Node -> Stages] : Tallied(n, t, old)
    BY <1>14 DEF BallotInv, CountInv
  <2>2. AtStage(n, t, p, old[p]) /\ Holds(eventCh[p], e)
    BY <1>10, <2>1 DEF Tallied
  <2>3. old[p] = "queued" /\ HoldsOnce(eventCh[p], e) /\ HoldsOnce(eventCh[n], AnswerEvent(t, p))
    BY <2>2 DEF AtStage, e
  <2>4. /\ VoteReq(t, n, p) \notin net /\ VoteResp(t, n, p) \notin net
        /\ ~Holds(eventCh[n], AnswerEvent(t, p))
    BY <2>2, <2>3 DEF AtStage
  <2>5. /\ VoteReq(t, n, p) \notin net' /\ (VoteResp(t, n, p) \in net' => grant)
        /\ ~Holds(eventCh'[n], AnswerEvent(t, p)) /\ ~Holds(eventCh'[p], e)
    BY <1>10, <1>11, <2>3, <2>4
  <2>6. HoldsOnce(eventCh'[p], e) /\ HoldsOnce(eventCh'[n], AnswerEvent(t, p))
    BY <1>10, <2>3
  <2>7. grant => p \in Voters(t, n)'
    BY <1>4 DEF Voters
  <2>8. PICK s \in {"replied", "none"} : s = IF grant THEN "replied" ELSE "none"
    OBVIOUS
  <2>9. AtStage(n, t, p, s)'
    BY <2>5, <2>6, <2>7, <2>8 DEF AtStage, e
  <2>10. \A r \in Node : r # p => NoNewFrom(n, t, r)
    BY <1>10, <1>11 DEF NoNewFrom
  <2>11. /\ totalVotes'[n] = totalVotes[n] /\ votesReceived'[n] = votesReceived[n]
         /\ s \in Stages /\ s # "counted" /\ old[p] \notin {"none", "counted"}
    BY <1>1, <2>3, <2>8 DEF Stages
  <2>12. QED
    BY <1>5, <2>1, <2>9, <2>10, <2>11, TallyMoved
<1>15. CountInv'
  <2> SUFFICES ASSUME NEW c \in Node, NEW u \in Terms, state'[c] = "Candidate",
                      currentTerm'[c] = u
               PROVE  \E stage \in [Node -> Stages] : Tallied(c, u, stage)'
    BY DEF CountInv
  <2>1. state[c] = "Candidate" /\ currentTerm[c] = u
    BY <1>2, <1>3
  <2>2. votesReceived'[c] = votesReceived[c] /\ totalVotes'[c] = totalVotes[c]
    BY <1>1
  <2>3. CASE c # n \/ u # t
    BY <1>5, <1>12, <2>1, <2>2, <2>3, CountKept DEF BallotInv
  <2>4. CASE c = n /\ u = t
    BY <1>14, <2>1, <2>4
  <2>5. QED
    BY <2>3, <2>4
<1>16. WinInv'
  BY <1>1, <1>5, BackedStays DEF BallotInv
<1>17. QED
  BY <1>8, <1>9, <1>13, <1>15, <1>16 DEF BallotInv

(* The votes counted are those of different voters, so a quorum of the     *)
(* number waited for is a majority of the servers, or half of them if the  *)
(* candidate's own vote is among those counted.                            *)
LEMMA QuorumIsBacked ==
  ASSUME NEW n \in Node, NEW V \in SUBSET Node, NEW C \in SUBSET V, n \in V, NEW total,
         \/ total = Cardinality(Node) /\ n \notin C
         \/ total = Cardinality(Node) + 1 /\ ~Unlisted,
         Cardinality(C) + 1 >= total \div 2 + 1
  PROVE  Backed(V)
<1>1. IsFiniteSet(V) /\ IsFiniteSet(C) /\ C \cup {n} \in SUBSET V
  BY FS_Subset, ElectionConstants
<1>2. Cardinality(C) <= Cardinality(V) /\ Cardinality(C \cup {n}) <= Cardinality(V)
  BY <1>1, FS_Subset
<1>3. n \notin C => Cardinality(C) + 1 <= Cardinality(V)
  BY <1>1, <1>2, FS_AddElement
<1>4. Cardinality(C) \in Nat /\ Cardinality(V) \in Nat /\ Cardinality(Node) \in Nat
  BY <1>1, FS_CardinalityType, ElectionConstants
<1>5. 2 * Cardinality(V) >= Cardinality(Node)
  BY <1>2, <1>3, <1>4
<1>6. ASSUME Unlisted PROVE 2 * Cardinality(V) > Cardinality(Node)
  BY <1>2, <1>3, <1>4, <1>6
<1>7. QED
  BY <1>5, <1>6 DEF Backed

(* The candidate takes an answer, and counts it if it belongs to the       *)
(* election it is in.                                                      *)
LEMMA CountedBallots ==
  ASSUME TypeOK, TypeOK', Grows, BallotInv, NEW n \in Node, HandleRequestVoteResponse(n)
  PROVE  BallotInv'
<1>h. /\ eventCh[n] \in Seq(Events) /\ eventCh[n] # <<>>
      /\ Head(eventCh[n]).type = "RequestVoteResponse"
  BY DEF TypeOK, HandleRequestVoteResponse, Taking
<1>p. PICK t \in Terms, p \in Node : Head(eventCh[n]) = AnswerEvent(t, p)
  BY <1>h, TakeFacts, VoteRecords
<1> DEFINE e == AnswerEvent(t, p)
           b == [type |-> "BecomeLeader"]
           counts == state[n] = "Candidate" /\ currentTerm[n] = t
           quorum == counts /\ votesReceived[n] + 1 >= VotesNeeded(n)
<1>1. /\ votesReceived' = [votesReceived EXCEPT ![n] = IF counts THEN @ + 1 ELSE @]
      /\ eventCh' = [eventCh EXCEPT ![n] = IF quorum THEN Send(Tail(@), b) ELSE Tail(@)]
      /\ wins' = IF quorum THEN wins \cup {<<t, n>>} ELSE wins
      /\ UNCHANGED <<state, currentTerm, votedFor, totalVotes, net, votes>>
  <2>1. Head(eventCh[n]).term = t
    BY <1>p DEF AnswerEvent
  <2>2. QED
    BY <2>1 DEF HandleRequestVoteResponse
<1>2. b \in Events /\ b.type \notin {"RequestVote", "RequestVoteResponse"} /\ e = Head(eventCh[n])
  BY <1>p, EventFacts
<1>3. e # b
  <2>1. e.type = "RequestVoteResponse"
    BY DEF AnswerEvent
  <2>2. QED
    BY <1>2, <2>1
<1> HIDE DEF e, b, quorum
<1>4. \A r \in Node : eventCh'[r] =
        IF r = n THEN IF quorum THEN Send(Tail(eventCh[n]), b) ELSE Tail(eventCh[n])
        ELSE eventCh[r]
  BY <1>1 DEF TypeOK
<1>5. /\ \A r \in Node : QueueKept(eventCh[r], eventCh'[r])
      /\ Holds(eventCh[n], e)
      /\ HoldsOnce(eventCh[n], e) => ~Holds(eventCh'[n], e)
  <2>1. Tail(eventCh[n]) \in Seq(Events) /\ \A r \in Node : eventCh[r] \in Seq(Events)
    BY <1>h, TakeFacts DEF TypeOK
  <2>2. QueueKept(eventCh[n], Tail(eventCh[n])) /\ \A r \in Node : QueueKept(eventCh[r], eventCh[r])
    BY <1>h, <2>1, KeptFacts
  <2>3. QueueKept(eventCh[n], Send(Tail(eventCh[n]), b))
    BY <1>2, <2>1, <2>2, KeptFacts
  <2>4. Holds(eventCh[n], e) /\ (HoldsOnce(eventCh[n], e) => ~Holds(Tail(eventCh[n]), e))
    BY <1>h, <1>2, HoldFacts
  <2>5. Holds(Send(Tail(eventCh[n]), b), e) => Holds(Tail(eventCh[n]), e)
    BY <1>2, <1>3, <2>1, HoldFacts
  <2>6. QED
    BY <1>4, <2>2, <2>3, <2>4, <2>5
<1>6. CASE ~counts
  <2>1. /\ votesReceived' = votesReceived /\ wins' = wins
    BY <1>1, <1>6 DEF quorum, TypeOK
  <2>2. QuietStep
    BY <1>1, <1>5, <2>1 DEF QuietStep
  <2>3. QED
    BY <2>2, QuietBallots
<1>7. CASE counts
  <2>1. PICK old \in [Node -> Stages] : Tallied(n, t, old)
    BY <1>7 DEF BallotInv, CountInv
  <2>2. AtStage(n, t, p, old[p]) /\ Holds(eventCh[n], AnswerEvent(t, p))
    BY <1>5, <2>1 DEF Tallied, e
  <2>3. /\ old[p] = "answered" /\ p \in Voters(t, n)
        /\ HoldsOnce(eventCh[p], AskEvent(t, n)) /\ HoldsOnce(eventCh[n], e)
    BY <2>2 DEF AtStage, e
  <2>4. /\ VoteReq(t, n, p) \notin net /\ VoteResp(t, n, p) \notin net
        /\ ~Holds(eventCh[p], AskEvent(t, n))
    BY <2>2, <2>3 DEF AtStage
  <2>5. /\ ~Holds(eventCh'[p], AskEvent(t, n)) /\ ~Holds(eventCh'[n], e)
        /\ HoldsOnce(eventCh'[p], AskEvent(t, n)) /\ HoldsOnce(eventCh'[n], e)
    BY <1>5, <2>3, <2>4 DEF QueueKept, e
  <2>6. VotesKept /\ p \in Voters(t, n)'
    BY <1>1, <2>3 DEF VotesKept, Voters
  <2>7. AtStage(n, t, p, "counted")'
    BY <1>1, <2>4, <2>5, <2>6 DEF AtStage, e
  <2>8. \A c \in Node, u \in Terms : NoNew(c, u)
    BY <1>1, <1>5 DEF NoNew, NoNewFrom, QueueKept
  <2>9. /\ votesReceived'[n] = votesReceived[n] + 1 /\ totalVotes'[n] = totalVotes[n]
        /\ \A c \in Node : c # n => votesReceived'[c] = votesReceived[c]
    BY <1>1, <1>7 DEF TypeOK
  <2>10. "counted" \in Stages /\ old[p] \notin {"none", "counted"}
    BY <2>3 DEF Stages
  <2>11. \A r \in Node : r # p => NoNewFrom(n, t, r)
    BY <2>8 DEF NoNew
  <2>12. PICK stage \in [Node -> Stages] : Tallied(n, t, stage)'
    BY <2>1, <2>6, <2>7, <2>9, <2>10, <2>11, TallyMoved
  <2>13. FreshInv'
    <3>1. \A u \in Terms, c, r \in Node : OnItsWay(u, c, r)' => OnItsWay(u, c, r)
      BY <2>8 DEF NoNew, NoNewFrom, OnItsWay
    <3>2. QED
      BY <3>1, FreshKept DEF BallotInv
  <2>14. VoteInv' /\ OneVote'
    BY <1>1 DEF BallotInv, VoteInv, OneVote
  <2>15. CountInv'
    <3> SUFFICES ASSUME NEW c \in Node, NEW u \in Terms, state'[c] = "Candidate",
                        currentTerm'[c] = u
                 PROVE  \E f \in [Node -> Stages] : Tallied(c, u, f)'
      BY DEF CountInv
    <3>1. state[c] = "Candidate" /\ currentTerm[c] = u /\ totalVotes'[c] = totalVotes[c]
      BY <1>1
    <3>2. CASE c # n
      BY <2>6, <2>8, <2>9, <3>1, <3>2, CountKept DEF BallotInv
    <3>3. CASE c = n
      <4>1. u = t
        BY <1>7, <3>1, <3>3
      <4>2. QED
        BY <2>12, <3>3, <4>1
    <3>4. QED
      BY <3>2, <3>3
  <2>16. WinInv'
    <3>1. ASSUME NEW w \in wins', w \notin wins
          PROVE  Backed({r \in Node : w \in votes'[r]})
      <4>1. w = <<t, n>> /\ quorum
        BY <1>1, <3>1
      <4> DEFINE C == {r \in Node : stage[r] = "counted"}
                 V == {r \in Node : w \in votes'[r]}
      <4>2. /\ C \subseteq V /\ V \in SUBSET Node /\ n \in V
        BY <2>12, <4>1 DEF Tallied, AtStage, Voters
      <4>3. /\ votesReceived'[n] = Cardinality(C) + 1
            /\ \/ totalVotes'[n] = Cardinality(Node) /\ n \notin C
               \/ totalVotes'[n] = Cardinality(Node) + 1 /\ ~Unlisted
        BY <2>12 DEF Tallied
      <4> HIDE DEF C, V
      <4>4. Cardinality(C) + 1 >= totalVotes'[n] \div 2 + 1
        BY <2>9, <4>1, <4>3 DEF quorum, VotesNeeded
      <4>5. Backed(V)
        BY <4>2, <4>3, <4>4, QuorumIsBacked
      <4>6. QED
        BY <4>5 DEF V
    <3>2. QED
      BY <2>6, <3>1, BackedStays DEF BallotInv
  <2>17. QED
    BY <2>13, <2>14, <2>15, <2>16 DEF BallotInv
<1>8. QED
  BY <1>6, <1>7

(* The lists of peers stay complete. *)
LEMMA PeersStep == CompletePeers /\ TypeOK /\ PeersInv /\ [Next]_vars => PeersInv'
<1> SUFFICES ASSUME CompletePeers, TypeOK, PeersInv, [Next]_vars PROVE PeersInv'
  OBVIOUS
<1>1. ASSUME NEW n \in Node, NEW P, GoodPeers(n, P), Peers' = [Peers EXCEPT ![n] = P]
      PROVE  PeersInv'
  <2>1. \A p \in Node : Peers'[p] = IF p = n THEN P ELSE Peers[p]
    BY <1>1 DEF TypeOK
  <2>2. QED
    BY <1>1, <2>1 DEF PeersInv, GoodPeers
<1>2. ASSUME NEW n \in Node, NEW P \in PeerReplies \cup {Peers[n]}, UpdateClusterInfo(n, P)
      PROVE  PeersInv'
  <2>1. GoodPeers(n, P) /\ Peers' = [Peers EXCEPT ![n] = P]
    BY <1>2 DEF UpdateClusterInfo, CompletePeers, Unlisted, GoodPeers, PeersInv
  <2>2. QED
    BY <1>1, <2>1
<1>3. ASSUME NEW n \in Node, NEW P \in PeerReplies, ExpiredTimerAnswered(n, P)
      PROVE  PeersInv'
  <2>1. GoodPeers(n, P) /\ GoodPeers(n, Peers[n])
    BY DEF CompletePeers, Unlisted, GoodPeers, PeersInv
  <2>2. \/ Peers' = [Peers EXCEPT ![n] = P]
        \/ Peers' = [Peers EXCEPT ![n] = Peers[n]]
    BY <1>3 DEF ExpiredTimerAnswered
  <2>3. QED
    BY <1>1, <2>1, <2>2
<1>4. ASSUME UNCHANGED Peers PROVE PeersInv'
  BY <1>4 DEF PeersInv
<1>5. ASSUME ~(\E n \in Node : \E P \in PeerReplies \cup {Peers[n]} : UpdateClusterInfo(n, P)),
             ~(\E n \in Node, P \in PeerReplies : ExpiredTimerAnswered(n, P))
      PROVE  UNCHANGED Peers
  <2>1. CASE UNCHANGED vars
    BY <2>1 DEF vars
  <2>2. ASSUME NEW n \in Node,
               \/ ElectionTimer(n) \/ HandleElectionTimeout(n) \/ HandleRequestVote(n)
               \/ HandleRequestVoteResponse(n) \/ HandleBecomeLeader(n) \/ HandleHeartbeat(n)
        PROVE  UNCHANGED Peers
    BY <2>2 DEF ElectionTimer, HandleElectionTimeout, Campaign, HandleRequestVote,
                HandleRequestVoteResponse, HandleBecomeLeader, HandleHeartbeat
  <2>3. ASSUME NEW n \in Node,
               \/ FirstHeartbeats(n) \/ NextHeartbeats(n) \/ ExpiredTimerStops(n)
               \/ ExpiredTimerFails(n)
        PROVE  UNCHANGED Peers
    BY <2>3 DEF FirstHeartbeats, NextHeartbeats, ExpiredTimerStops, ExpiredTimerFails
  <2>4. ASSUME NEW m \in net,
               \/ ReceiveRequestVote(m) \/ ReceiveVoteReply(m) \/ AppendEntries(m)
               \/ HeartbeatReply(m)
        PROVE  UNCHANGED Peers
    BY <2>4 DEF ReceiveRequestVote, ReceiveVoteReply, AppendEntries, HeartbeatReply
  <2>5. QED
    BY <1>5, <2>1, <2>2, <2>3, <2>4 DEF Next
<1>6. QED
  BY <1>2, <1>3, <1>4, <1>5

(* Every step of an election keeps the account of its votes. *)
LEMMA BallotStep == TypeOK /\ PeersInv /\ BallotInv /\ [Next]_vars => BallotInv'
<1> SUFFICES ASSUME TypeOK, PeersInv, BallotInv, [Next]_vars PROVE BallotInv'
  OBVIOUS
<1> TypeOK' /\ Grows
  BY TypeStep, GrowsStep
<1>1. CASE QuietStep
  BY <1>1, QuietBallots
<1>2. ASSUME NEW n \in Node, ElectionTimer(n) PROVE BallotInv'
  <2>1. eventCh[n] \in Seq(Events)
    BY DEF TypeOK
  <2>2. QED
    BY <1>2, <2>1, KeptFacts, CampaignBallots DEF ElectionTimer
<1>3. ASSUME NEW n \in Node, HandleElectionTimeout(n), state[n] # "Leader" PROVE BallotInv'
  <2>1. eventCh[n] \in Seq(Events) /\ eventCh[n] # <<>> /\ Campaign(n, Tail(eventCh[n]))
    BY <1>3 DEF TypeOK, HandleElectionTimeout, Taking
  <2>2. Tail(eventCh[n]) \in Seq(Events) /\ QueueKept(eventCh[n], Tail(eventCh[n]))
    BY <2>1, TakeFacts, KeptFacts
  <2>3. QED
    BY <2>1, <2>2, CampaignBallots
<1>4. QED
  BY <1>1, <1>2, <1>3, QuietSteps, VotedBallots, CountedBallots, AskedBallots, RepliedBallots

(* The account is right from the start. *)
LEMMA BallotInit == Init => BallotInv
<1> SUFFICES ASSUME Init PROVE BallotInv
  OBVIOUS
<1>1. \A e : ~Holds(<<>>, e)
  BY DEF Holds
<1>2. FreshInv
  BY <1>1 DEF Init, FreshInv, OnItsWay
<1>3. VoteInv /\ OneVote /\ CountInv /\ WinInv
  BY DEF Init, VoteInv, OneVote, CountInv, WinInv
<1>4. QED
  BY <1>2, <1>3 DEF BallotInv

(* The account of the votes holds in every reachable state. *)
LEMMA BallotInvariant == ASSUME CompletePeers PROVE Spec => [](TypeOK /\ BallotInv)
<1>1. Init => PeersInv
  BY DEF Init, CompletePeers, Unlisted, GoodPeers, PeersInv
<1>2. TypeOK /\ PeersInv /\ [Next]_vars => PeersInv'
  BY PeersStep
<1>3. QED
  BY <1>1, <1>2, BallotInit, BallotStep, TypeCorrect, PTL DEF Spec

(* A counted quorum stands for the votes of at least half of the servers,  *)
(* for any number of them and although a candidate that is in its own list *)
(* of peers counts its own vote twice.                                     *)
THEOREM QuorumsAreHalves ==
  ASSUME CompletePeers
  PROVE  Spec => [](\A w \in wins :
                      2 * Cardinality({n \in Node : w \in votes[n]}) >= Cardinality(Node))
<1>1. BallotInv => \A w \in wins :
                     2 * Cardinality({n \in Node : w \in votes[n]}) >= Cardinality(Node)
  BY DEF BallotInv, WinInv, Backed
<1>2. QED
  BY <1>1, BallotInvariant, PTL

(* A counted quorum is a real one: more than half of the servers gave that *)
(* node their vote of that term, however requests, replies and events are  *)
(* delayed and interleaved, provided that every list of servers is         *)
(* complete and that either the number of servers is odd or no node is in  *)
(* its own list.                                                           *)
THEOREM QuorumsAreMajorities ==
  ASSUME CompletePeers, OddServers \/ Unlisted
  PROVE  Spec => []WinHasMajority
<1>1. ASSUME BallotInv PROVE WinHasMajority
  <2> SUFFICES ASSUME NEW w \in wins
               PROVE  2 * Cardinality({n \in Node : w \in votes[n]}) > Cardinality(Node)
    BY DEF WinHasMajority
  <2> DEFINE S == {n \in Node : w \in votes[n]}
  <2>1. Backed(S) /\ S \in SUBSET Node
    BY <1>1 DEF BallotInv, WinInv
  <2> HIDE DEF S
  <2>2. Cardinality(S) \in Nat /\ Cardinality(Node) \in Nat
    BY <2>1, FS_Subset, FS_CardinalityType, ElectionConstants
  <2>3. 2 * Cardinality(S) > Cardinality(Node)
    BY <2>1, <2>2 DEF Backed, OddServers
  <2>4. QED
    BY <2>3 DEF S
<1>2. QED
  BY <1>1, BallotInvariant, PTL

(* In one term at most one node counts a quorum, under the same two        *)
(* conditions: two majorities share a server, and a server has one vote    *)
(* per term.                                                               *)
THEOREM OneQuorumPerTerm ==
  ASSUME CompletePeers, OddServers \/ Unlisted
  PROVE  Spec => []QuorumWinUnique
<1>1. ASSUME TypeOK, BallotInv, WinHasMajority PROVE QuorumWinUnique
  <2> SUFFICES ASSUME NEW v \in wins, NEW w \in wins, v[1] = w[1] PROVE v = w
    BY DEF QuorumWinUnique
  <2> DEFINE S == {p \in Node : v \in votes[p]}
             T == {p \in Node : w \in votes[p]}
  <2>1. 2 * Cardinality(S) > Cardinality(Node) /\ 2 * Cardinality(T) > Cardinality(Node)
    BY <1>1 DEF WinHasMajority
  <2>2. S \in SUBSET Node /\ T \in SUBSET Node
    OBVIOUS
  <2> HIDE DEF S, T
  <2>3. IsFiniteSet(Node) /\ IsFiniteSet(S) /\ IsFiniteSet(T)
    BY <2>2, FS_Subset, ElectionConstants
  <2>4. Cardinality(S) \in Nat /\ Cardinality(T) \in Nat /\ Cardinality(Node) \in Nat
    BY <2>3, FS_CardinalityType
  <2>5. Cardinality(S) + Cardinality(T) > Cardinality(Node)
    BY <2>1, <2>4
  <2>6. S \cap T # {}
    BY <2>2, <2>3, <2>5, FS_MajoritiesIntersect
  <2>7. PICK p \in Node : v \in votes[p] /\ w \in votes[p]
    BY <2>6 DEF S, T
  <2>8. /\ v[1] \in Terms /\ v[2] \in Node /\ w[2] \in Node
        /\ v = <<v[1], v[2]>> /\ w = <<w[1], w[2]>>
    BY <1>1 DEF TypeOK
  <2>9. v[2] = w[2]
    BY <1>1, <2>7, <2>8 DEF BallotInv, OneVote
  <2>10. QED
    BY <2>8, <2>9
<1>2. QED
  BY <1>1, BallotInvariant, QuorumsAreMajorities, PTL

===============================================================================
