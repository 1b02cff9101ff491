------------------------------ MODULE EventLoop ------------------------------
(***************************************************************************)
(* The goroutines of one RaftStateMachine and what they wait for           *)
(* (ddbr-server/infra/raft_state_machine.go): the lock sm.mu, the bounded  *)
(* channel eventCh, the reply channel of each RequestVote call and the     *)
(* election timer of run().                                                *)
(*                                                                         *)
(* A lock section without a channel operation inside is one step that      *)
(* needs the lock to be free.  Only AppendEntries keeps the lock while it  *)
(* sends to eventCh.  What the handlers decide about terms and votes is in *)
(* RaftVoting and RaftElection; here they keep what decides whether run()  *)
(* sends to its own channel.                                               *)
(***************************************************************************)
EXTENDS Naturals, Sequences, FiniteSets

CONSTANTS Appender,    \* AppendEntries calls, one goroutine each
          Voter,       \* RequestVote calls, one goroutine each
          Peer,        \* sm.Peers
          Free,        \* the lock has no owner
          Cap,         \* capacity of eventCh (100 in the code)
          RespCap,     \* capacity of a reply channel (1 in the code)
          MaxTicks,    \* bound on the rounds of ExpiredTimer
          MaxTerm      \* bound on the elections of this node

ASSUME LoopConstants ==
  /\ Cap \in Nat \ {0} /\ RespCap \in Nat \ {0}
  /\ MaxTicks \in Nat /\ MaxTerm \in Nat
  /\ Free \notin Appender

VARIABLES
  mu,            \* owner of sm.mu across steps
  eventCh,       \* events waiting for run()
  loop,          \* where run() stands, the event in hand, and where it goes on
  timer,         \* electionTimer: armed, expired (its tick is unread) or idle
  apc, vpc,      \* where each AppendEntries and RequestVote call stands
  respCh,        \* reply channel of each RequestVote call
  watcher,       \* where ExpiredTimer stands
  ticks,         \* its rounds so far
  asked,         \* <<peer, term>> of the vote requests under way
  state, term, votes   \* sm.state, sm.currentTerm, sm.votesReceived

raftVars == <<state, term, votes>>
callVars == <<apc, vpc, respCh, watcher, ticks>>
vars == <<mu, eventCh, loop, timer, apc, vpc, respCh, watcher, ticks, asked, raftVars>>

Event ==
  [type : {"Heartbeat", "ElectionTimeout", "BecomeLeader"}]
    \cup [type : {"RequestVote"}, from : Voter]
    \cup [type : {"RequestVoteResponse"}, term : 0 .. MaxTerm, granted : BOOLEAN]

Tick == [type |-> "Tick"]   \* the event in hand when the timer fired

Selecting == [pc |-> "select", ev |-> Tick, next |-> "select"]

Init ==
  /\ mu = Free
  /\ eventCh = <<>>
  /\ loop = Selecting
  /\ timer = "armed"
  /\ apc = [a \in Appender |-> "start"]
  /\ vpc = [v \in Voter |-> "start"]
  /\ respCh = [v \in Voter |-> <<>>]
  /\ watcher = "sleep"
  /\ ticks = 0
  /\ asked = {}
  /\ state = "Follower" /\ term = 0 /\ votes = 0

(* A send blocks while the channel is full. *)
Send(e) == Len(eventCh) < Cap /\ eventCh' = Append(eventCh, e)

At(pc) == loop.pc = pc
GoOn(pc) == loop' = IF pc = "select" THEN Selecting ELSE [loop EXCEPT !.pc = pc]

----------------------------------------------------------------------------
(* Callers.                                                                *)

(* AppendEntries takes the lock ...                                        *)
AppendEntriesLock(a) ==
  /\ apc[a] = "start" /\ mu = Free
  /\ mu' = a
  /\ apc' = [apc EXCEPT ![a] = "send"]
  /\ UNCHANGED <<eventCh, loop, timer, vpc, respCh, watcher, ticks, asked, raftVars>>

(* ... sends the heartbeat event while it holds it ...                     *)
AppendEntriesSend(a) ==
  /\ apc[a] = "send"
  /\ Send([type |-> "Heartbeat"])
  /\ apc' = [apc EXCEPT ![a] = "sent"]
  /\ UNCHANGED <<mu, loop, timer, vpc, respCh, watcher, ticks, asked, raftVars>>


(* ... and unlocks when it returns, a follower if the request's term is    *)
(* higher.                                                                 *)
AppendEntriesReturn(a) ==
  /\ apc[a] = "sent"
  /\ mu' = Free
  /\ apc' = [apc EXCEPT ![a] = "done"]
  /\ \/ UNCHANGED raftVars
     \/ term < MaxTerm /\ term' = term + 1 /\ state' = "Follower" /\ UNCHANGED votes
  /\ UNCHANGED <<eventCh, loop, timer, vpc, respCh, watcher, ticks, asked>>

(* RequestVote hands the request to run() with a channel for the reply.    *)
RequestVoteSend(v) ==
  /\ vpc[v] = "start"
  /\ Send([type |-> "RequestVote", from |-> v])
  /\ vpc' = [vpc EXCEPT ![v] = "wait"]
  /\ UNCHANGED <<mu, loop, timer, apc, respCh, watcher, ticks, asked, raftVars>>

RequestVoteReply(v) ==
  /\ vpc[v] = "wait" /\ respCh[v] # <<>>
  /\ vpc' = [vpc EXCEPT ![v] = "answered"]
  /\ respCh' = [respCh EXCEPT ![v] = Tail(@)]
  /\ UNCHANGED <<mu, eventCh, loop, timer, apc, watcher, ticks, asked, raftVars>>

(* 500 ms passed: the caller is told that no vote was granted, and nobody  *)
(* will read the reply channel.                                            *)
RequestVoteTimeout(v) ==
  /\ vpc[v] = "wait"
  /\ vpc' = [vpc EXCEPT ![v] = "timedout"]
  /\ UNCHANGED <<mu, eventCh, loop, timer, apc, respCh, watcher, ticks, asked, raftVars>>

(* ExpiredTimer, once per third of the election timeout: it ends when the  *)
(* node leads and calls the master's HeartBeat otherwise.                  *)
WatcherTick ==
  /\ watcher = "sleep" /\ mu = Free
  /\ ticks < MaxTicks
  /\ ticks' = ticks + 1
  /\ watcher' = IF state = "Leader" THEN "done" ELSE "call"
  /\ UNCHANGED <<mu, eventCh, loop, timer, apc, vpc, respCh, asked, raftVars>>

(* The master's answer sets lastHeartbeat and Peers under the lock; after  *)
(* a failed call BeginVote looks at the state and at lastHeartbeat.        *)
WatcherCalled ==
  /\ watcher = "call" /\ mu = Free
  /\ \/ watcher' = "heartbeat"
     \/ watcher' = "sleep"
     \/ state # "Leader" /\ watcher' = "beginVote"
  /\ UNCHANGED <<mu, eventCh, loop, timer, apc, vpc, respCh, ticks, asked, raftVars>>

(* Its event, sent without the lock. *)
WatcherSend ==
  /\ \/ watcher = "heartbeat" /\ Send([type |-> "Heartbeat"])
     \/ watcher = "beginVote" /\ Send([type |-> "ElectionTimeout"])
  /\ watcher' = "sleep"
  /\ UNCHANGED <<mu, loop, timer, apc, vpc, respCh, ticks, asked, raftVars>>

(* The goroutine of one vote request: a reply becomes an event, an error   *)
(* ends it.                                                                *)
VoteReply(p, t, granted) ==
  /\ <<p, t>> \in asked
  /\ asked' = asked \ {<<p, t>>}
  /\ Send([type |-> "RequestVoteResponse", term |-> t, granted |-> granted])
  /\ UNCHANGED <<mu, loop, timer, callVars, raftVars>>

VoteRequestFails(p, t) ==
  /\ <<p, t>> \in asked
  /\ asked' = asked \ {<<p, t>>}
  /\ UNCHANGED <<mu, eventCh, loop, timer, callVars, raftVars>>

----------------------------------------------------------------------------
(* run().                                                                  *)

TimerFires ==
  /\ timer = "armed"
  /\ timer' = "expired"
  /\ UNCHANGED <<mu, eventCh, loop, callVars, asked, raftVars>>

(* Faulty variant: after a tick the timer is drained like after an event. *)
SelectTimerDrains ==
  /\ At("select") /\ timer = "expired"
  /\ timer' = "idle"
  /\ loop' = [pc |-> "handle", ev |-> Tick, next |-> "rearm"]
  /\ UNCHANGED <<mu, eventCh, callVars, asked, raftVars>>

(* The select: the timer's tick or the next event.                         *)
SelectTimer ==
  /\ At("select") /\ timer = "expired"
  /\ timer' = "idle"
  /\ loop' = [pc |-> "handle", ev |-> Tick, next |-> "reset"]
  /\ UNCHANGED <<mu, eventCh, callVars, asked, raftVars>>


(* After which events the timer is started again. *)
Rearms(type) == type \in {"Heartbeat", "ElectionTimeout"}

SelectEvent ==
  /\ At("select") /\ eventCh # <<>>
  /\ eventCh' = Tail(eventCh)
  /\ loop' = [pc |-> "handle", ev |-> Head(eventCh),
              next |-> IF Rearms(Head(eventCh).type) THEN "rearm" ELSE "select"]
  /\ UNCHANGED <<mu, timer, callVars, asked, raftVars>>

(* Every handler begins with the lock. *)
Handling(type) == At("handle") /\ loop.ev.type = type /\ mu = Free

(* handleRequestVote: its lock sections, then the reply. *)
HandleRequestVote ==
  /\ Handling("RequestVote")
  /\ GoOn("answer")
  /\ \/ UNCHANGED raftVars
     \/ term < MaxTerm /\ term' = term + 1 /\ state' = "Follower" /\ UNCHANGED votes
  /\ UNCHANGED <<mu, eventCh, timer, callVars, asked>>

(* Faulty variant: no return after the reply that rejects an old term. *)
AnswerVoteAgain ==
  /\ At("answer")
  /\ LET v == loop.ev.from IN
     /\ Len(respCh[v]) < RespCap
     /\ respCh' = [respCh EXCEPT ![v] = Append(@, "vote")]
  /\ UNCHANGED <<mu, eventCh, loop, timer, apc, vpc, watcher, ticks, asked, raftVars>>

AnswerVote ==
  /\ At("answer")
  /\ LET v == loop.ev.from IN
     /\ Len(respCh[v]) < RespCap
     /\ respCh' = [respCh EXCEPT ![v] = Append(@, "vote")]
  /\ GoOn(loop.next)
  /\ UNCHANGED <<mu, eventCh, timer, apc, vpc, watcher, ticks, asked, raftVars>>

VotesNeeded == (Cardinality(Peer) + 1) \div 2 + 1

(* handleRequestVoteResponse: from the quorum on, every vote makes run()   *)
(* send to its own channel, the lock released for it.                      *)
HandleVoteResponse ==
  /\ Handling("RequestVoteResponse")
  /\ IF state = "Candidate" /\ term = loop.ev.term /\ loop.ev.granted
     THEN /\ votes' = votes + 1
          /\ GoOn(IF votes + 1 >= VotesNeeded THEN "becomeLeader" ELSE loop.next)
     ELSE GoOn(loop.next) /\ UNCHANGED votes
  /\ UNCHANGED <<mu, eventCh, timer, callVars, asked, state, term>>

SendBecomeLeader ==
  /\ At("becomeLeader")
  /\ Send([type |-> "BecomeLeader"])
  /\ GoOn(loop.next)
  /\ UNCHANGED <<mu, timer, callVars, asked, raftVars>>

HandleHeartbeat ==
  /\ Handling("Heartbeat")
  /\ state' = "Follower"
  /\ GoOn(loop.next)
  /\ UNCHANGED <<mu, eventCh, timer, callVars, asked, term, votes>>

(* handleElectionTimeout; a single node sends to its own channel. *)
Campaign ==
  /\ state # "Leader" /\ term < MaxTerm
  /\ state' = "Candidate" /\ term' = term + 1 /\ votes' = 1
  /\ asked' = asked \cup {<<p, term + 1>> : p \in Peer}
  /\ GoOn(IF Peer = {} THEN "becomeLeader" ELSE loop.next)

(* The timer's tick: a leader ignores it without taking the lock, another  *)
(* node does so soon after a heartbeat.                                    *)
HandleTick ==
  /\ At("handle") /\ loop.ev = Tick
  /\ mu = Free \/ state = "Leader"
  /\ \/ Campaign
     \/ GoOn(loop.next) /\ UNCHANGED <<state, term, votes, asked>>
  /\ UNCHANGED <<mu, eventCh, timer, callVars>>

HandleElectionTimeout ==
  /\ Handling("ElectionTimeout")
  /\ \/ Campaign
     \/ /\ state = "Leader" \/ term = MaxTerm
        /\ GoOn(loop.next) /\ UNCHANGED <<state, term, votes, asked>>
  /\ UNCHANGED <<mu, eventCh, timer, callVars>>

HandleBecomeLeader ==
  /\ Handling("BecomeLeader")
  /\ state' = IF state = "Candidate" THEN "Leader" ELSE state
  /\ GoOn(loop.next)
  /\ UNCHANGED <<mu, eventCh, timer, callVars, asked, term, votes>>

(* After a tick the timer is started again. *)
ResetTimer ==
  /\ At("reset")
  /\ timer' = "armed"
  /\ GoOn("select")
  /\ UNCHANGED <<mu, eventCh, callVars, asked, raftVars>>

(* After a heartbeat or an election event it is stopped first.  Stop       *)
(* stops a running timer and takes back a tick that was not read; of any   *)
(* other it says that it was not running, and run() waits for a tick that  *)
(* nobody will send.                                                       *)
RearmTimer ==
  /\ At("rearm") /\ timer # "idle"
  /\ timer' = "armed"
  /\ GoOn("select")
  /\ UNCHANGED <<mu, eventCh, callVars, asked, raftVars>>

----------------------------------------------------------------------------
Run ==
  \/ SelectTimer \/ SelectEvent
  \/ HandleRequestVote \/ AnswerVote \/ HandleVoteResponse \/ SendBecomeLeader
  \/ HandleHeartbeat \/ HandleTick \/ HandleElectionTimeout \/ HandleBecomeLeader
  \/ ResetTimer \/ RearmTimer

AppendCall(a) == AppendEntriesLock(a) \/ AppendEntriesSend(a) \/ AppendEntriesReturn(a)
VoteCall(v) == RequestVoteSend(v) \/ RequestVoteReply(v) \/ RequestVoteTimeout(v)
Watch == WatcherTick \/ WatcherCalled \/ WatcherSend
VoteAnswers == \E pt \in asked :
                 \/ \E granted \in BOOLEAN : VoteReply(pt[1], pt[2], granted)
                 \/ VoteRequestFails(pt[1], pt[2])

Next ==
  \/ Run \/ Watch \/ VoteAnswers \/ TimerFires
  \/ \E a \in Appender : AppendCall(a)
  \/ \E v \in Voter : VoteCall(v)

(* Every goroutine that can go on does.  The lock and the channels serve   *)
(* their waiters in order, and a select with several ready cases chooses   *)
(* at random, so what is possible again and again happens.                 *)
Fairness ==
  /\ SF_vars(Run) /\ SF_vars(SelectEvent)
  /\ \A a \in Appender : SF_vars(AppendCall(a))
  /\ \A v \in Voter : SF_vars(VoteCall(v))
  /\ SF_vars(WatcherCalled \/ WatcherSend)
  /\ WF_vars(VoteAnswers)

Spec == Init /\ [][Next]_vars
FairSpec == Spec /\ Fairness

----------------------------------------------------------------------------
(* Types; the votes counted never exceed one per peer and the node's own,  *)
(* and the channel its capacity.                                           *)
TypeOK ==
  /\ mu \in Appender \cup {Free}
  /\ eventCh \in Seq(Event) /\ Len(eventCh) <= Cap
  /\ loop \in [pc : {"select", "handle", "answer", "becomeLeader", "reset", "rearm"},
               ev : Event \cup {Tick}, next : {"select", "reset", "rearm"}]
  /\ timer \in {"armed", "expired", "idle"}
  /\ apc \in [Appender -> {"start", "send", "sent", "done"}]
  /\ vpc \in [Voter -> {"start", "wait", "answered", "timedout"}]
  /\ \A v \in Voter : Len(respCh[v]) <= RespCap
  /\ watcher \in {"sleep", "call", "heartbeat", "beginVote", "done"}
  /\ ticks \in 0 .. MaxTicks
  /\ asked \subseteq Peer \X (1 .. MaxTerm)
  /\ state \in {"Follower", "Candidate", "Leader"} /\ term \in 0 .. MaxTerm
  /\ votes \in 0 .. Cardinality(Peer) + 1

(* A reply to a RequestVote call that has already timed out never holds    *)
(* run() up: the reply channel always has room (RequestVote makes it with  *)
(* capacity 1 and hands it over once).                                     *)
ReplyHasRoom == At("answer") => Len(respCh[loop.ev.from]) < RespCap

(* When run() stops the timer before starting it again, the timer is       *)
(* running or its tick is still unread, so the receive that drains it      *)
(* never waits for ever.                                                   *)
DrainEnds == At("rearm") => timer # "idle"

(* The goroutines wait for each other: the channel is full and run(), the  *)
(* only one to empty it, waits for room in it itself, or for the lock of   *)
(* an AppendEntries call that waits for room.                              *)
Jammed ==
  /\ Len(eventCh) = Cap
  /\ \/ At("becomeLeader")
     \/ /\ At("handle") /\ ~(loop.ev = Tick /\ state = "Leader")
        /\ mu # Free /\ apc[mu] = "send"




(* What the comment in AppendEntries relies on: the event it sends is      *)
(* handled by run(), which starts the election timer again.  The code      *)
(* does not keep it when the channel is full.                              *)
HeartbeatAlwaysHandled ==
  \A a \in Appender :
    apc[a] = "send" ~> (At("rearm") /\ loop.ev.type = "Heartbeat")

=============================================================================
