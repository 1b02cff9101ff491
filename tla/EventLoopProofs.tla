--------------------------- MODULE EventLoopProofs ---------------------------
(***************************************************************************)
(* Proofs about EventLoop, for any number of calls at once, any peers and  *)
(* any capacity of the event channel: run() never waits for a reader of a  *)
(* reply channel, nor for a tick of a timer that does not run.             *)
(***************************************************************************)
EXTENDS EventLoop, TLAPS

USE LoopConstants

(* Where run() can stand. *)
LoopRec ==
  [pc : {"select", "handle", "answer", "becomeLeader", "reset", "rearm"},
   ev : Event \cup {Tick}, next : {"select", "reset", "rearm"}]

(* The part of TypeOK the proofs need.  How far votes can count is not     *)
(* part of it: that takes counting the responses in the channel.           *)
LoopTypes ==
  /\ mu \in Appender \cup {Free}
  /\ eventCh \in Seq(Event) /\ Len(eventCh) <= Cap
  /\ loop \in LoopRec
  /\ timer \in {"armed", "expired", "idle"}
  /\ apc \in [Appender -> {"start", "send", "sent", "done"}]
  /\ vpc \in [Voter -> {"start", "wait", "answered", "timedout"}]
  /\ respCh \in [Voter -> Seq({"vote"})]
  /\ watcher \in {"sleep", "call", "heartbeat", "beginVote", "done"}
  /\ ticks \in 0 .. MaxTicks
  /\ asked \subseteq Peer \X (1 .. MaxTerm)
  /\ state \in {"Follower", "Candidate", "Leader"} /\ term \in 0 .. MaxTerm
  /\ votes \in Nat

(* The sequence operators on the channel, element by element. *)
LEMMA SendSeq ==
  ASSUME NEW e \in Event, eventCh \in Seq(Event), Len(eventCh) <= Cap, Send(e)
  PROVE  /\ eventCh' \in Seq(Event) /\ Len(eventCh') <= Cap
         /\ Len(eventCh') = Len(eventCh) + 1
         /\ \A i \in 1 .. Len(eventCh) : eventCh'[i] = eventCh[i]
         /\ eventCh'[Len(eventCh) + 1] = e
  BY DEF Send

(* Receiving from the channel. *)
LEMMA ReceiveSeq ==
  ASSUME eventCh \in Seq(Event), eventCh # <<>>, eventCh' = Tail(eventCh)
  PROVE  /\ eventCh' \in Seq(Event) /\ Len(eventCh') = Len(eventCh) - 1
         /\ \A i \in 1 .. Len(eventCh') : eventCh'[i] = eventCh[i + 1]
         /\ Head(eventCh) = eventCh[1] /\ Head(eventCh) \in Event
         /\ Len(eventCh) \in Nat \ {0}
  OBVIOUS

(* The events the callers make. *)
LEMMA Events ==
  /\ [type |-> "Heartbeat"] \in Event /\ [type |-> "ElectionTimeout"] \in Event
  /\ [type |-> "BecomeLeader"] \in Event
  /\ \A v \in Voter : [type |-> "RequestVote", from |-> v] \in Event
  /\ \A t \in 0 .. MaxTerm, g \in BOOLEAN :
       [type |-> "RequestVoteResponse", term |-> t, granted |-> g] \in Event
  /\ \A e \in Event : e.type = "RequestVote" => e.from \in Voter
  BY DEF Event

(* Where a handler goes on. *)
LEMMA GoOnTypes ==
  ASSUME loop \in LoopRec,
         NEW pc \in {"select", "answer", "becomeLeader", "reset", "rearm"}, GoOn(pc)
  PROVE  loop' \in LoopRec
<1>1. Selecting \in LoopRec
  BY DEF Selecting, LoopRec
<1>2. [loop EXCEPT !.pc = pc] \in LoopRec
  BY DEF LoopRec
<1>3. QED
  BY <1>1, <1>2 DEF GoOn

(* The field next names a place. *)
LEMMA NextTypes ==
  LoopTypes => loop \in LoopRec /\ loop.next \in {"select", "reset", "rearm"}
  BY DEF LoopTypes, LoopRec

(* What a campaign leaves behind. *)
LEMMA CampaignTypes ==
  ASSUME LoopTypes, Campaign
  PROVE  /\ loop' \in LoopRec /\ asked' \subseteq Peer \X (1 .. MaxTerm)
         /\ state' = "Candidate" /\ term' \in 0 .. MaxTerm /\ votes' = 1
<1>1. term + 1 \in 1 .. MaxTerm
  BY DEF LoopTypes, Campaign
<1>2. asked' \subseteq Peer \X (1 .. MaxTerm)
  BY <1>1 DEF LoopTypes, Campaign
<1>3. loop' \in LoopRec
  BY GoOnTypes, NextTypes DEF Campaign
<1>4. QED
  BY <1>1, <1>2, <1>3 DEF Campaign

(* At the start every variable is in its range. *)
LEMMA TypesInit == Init => LoopTypes
  BY DEF Init, LoopTypes, LoopRec, Selecting

(* Every step keeps them there. *)
LEMMA TypesStep == LoopTypes /\ [Next]_vars => LoopTypes'
<1> SUFFICES ASSUME LoopTypes, [Next]_vars PROVE LoopTypes'
  OBVIOUS
<1> USE DEF LoopTypes, raftVars, callVars
<1>1. ASSUME NEW a \in Appender, AppendEntriesLock(a) PROVE LoopTypes'
  BY <1>1 DEF AppendEntriesLock
<1>2. ASSUME NEW a \in Appender, AppendEntriesSend(a) PROVE LoopTypes'
  BY <1>2, SendSeq, Events DEF AppendEntriesSend
<1>3. ASSUME NEW a \in Appender, AppendEntriesReturn(a) PROVE LoopTypes'
  BY <1>3 DEF AppendEntriesReturn
<1>4. ASSUME NEW v \in Voter, RequestVoteSend(v) PROVE LoopTypes'
  BY <1>4, SendSeq, Events DEF RequestVoteSend
<1>5. ASSUME NEW v \in Voter, RequestVoteReply(v) PROVE LoopTypes'
  BY <1>5 DEF RequestVoteReply
<1>6. ASSUME NEW v \in Voter, RequestVoteTimeout(v) PROVE LoopTypes'
  BY <1>6 DEF RequestVoteTimeout
<1>7. CASE WatcherTick
  BY <1>7 DEF WatcherTick
<1>8. CASE WatcherCalled
  BY <1>8 DEF WatcherCalled
<1>9. CASE WatcherSend
  BY <1>9, SendSeq, Events DEF WatcherSend
<1>10. ASSUME NEW pt \in asked, NEW granted \in BOOLEAN,
                VoteReply(pt[1], pt[2], granted)
         PROVE  LoopTypes'
  BY <1>10, SendSeq, Events DEF VoteReply
<1>11. ASSUME NEW pt \in asked, VoteRequestFails(pt[1], pt[2]) PROVE LoopTypes'
  BY <1>11 DEF VoteRequestFails
<1>12. CASE TimerFires
  BY <1>12 DEF TimerFires
<1>13. CASE SelectTimer
  BY <1>13 DEF SelectTimer, At, LoopRec
<1>14. CASE SelectEvent
  BY <1>14, ReceiveSeq DEF SelectEvent, LoopRec
<1>15. CASE HandleRequestVote
  BY <1>15, GoOnTypes, NextTypes DEF HandleRequestVote
<1>16. CASE AnswerVote
  <2>1. loop' \in LoopRec
    BY <1>16, GoOnTypes, NextTypes DEF AnswerVote
  <2>2. \A c \in Seq({"vote"}) : Append(c, "vote") \in Seq({"vote"})
    OBVIOUS
  <2>3. respCh' \in [Voter -> Seq({"vote"})]
    BY <1>16, <2>2 DEF AnswerVote
  <2>4. QED
    BY <1>16, <2>1, <2>3 DEF AnswerVote
<1>17. CASE HandleVoteResponse
  <2>1. loop' \in LoopRec
    BY <1>17, GoOnTypes, NextTypes DEF HandleVoteResponse
  <2>2. QED
    BY <1>17, <2>1 DEF HandleVoteResponse
<1>18. CASE SendBecomeLeader
  BY <1>18, SendSeq, Events, GoOnTypes, NextTypes DEF SendBecomeLeader
<1>19. CASE HandleHeartbeat
  BY <1>19, GoOnTypes, NextTypes DEF HandleHeartbeat
<1>20. CASE HandleTick
  BY <1>20, GoOnTypes, NextTypes, CampaignTypes DEF HandleTick
<1>21. CASE HandleElectionTimeout
  BY <1>21, GoOnTypes, NextTypes, CampaignTypes DEF HandleElectionTimeout
<1>22. CASE HandleBecomeLeader
  BY <1>22, GoOnTypes, NextTypes DEF HandleBecomeLeader
<1>23. CASE ResetTimer
  BY <1>23, GoOnTypes, NextTypes DEF ResetTimer
<1>24. CASE RearmTimer
  BY <1>24, GoOnTypes, NextTypes DEF RearmTimer
<1>25. CASE UNCHANGED vars
  BY <1>25 DEF vars
<1>26. QED
  BY <1>1, <1>2, <1>3, <1>4, <1>5, <1>6, <1>7, <1>8, <1>9, <1>10, <1>11, <1>12,
     <1>13, <1>14, <1>15, <1>16, <1>17, <1>18, <1>19, <1>20, <1>21, <1>22,
     <1>23, <1>24, <1>25 DEF Next, Run, AppendCall, VoteCall, Watch,
     VoteAnswers

(* Calls, channels and run() stay in their declared ranges. *)
THEOREM TypesCorrect == Spec => []LoopTypes
  BY TypesInit, TypesStep, PTL DEF Spec

----------------------------------------------------------------------------
(* The timer: it is idle only between the tick that run() has read and the *)
(* reset that follows it, and that way does not lead through the drain.    *)
DrainInv ==
  /\ At("select") => loop.next = "select"
  /\ timer = "idle" => loop.next = "reset" /\ ~At("rearm")

(* Every step keeps the timer running wherever run() would drain it. *)
LEMMA DrainStep == LoopTypes /\ DrainInv /\ [Next]_vars => DrainInv'
<1> SUFFICES ASSUME LoopTypes, DrainInv, [Next]_vars PROVE DrainInv'
  OBVIOUS
<1> USE DEF LoopTypes, LoopRec, raftVars, callVars, Selecting, DrainInv, At
<1>1. ASSUME NEW a \in Appender, AppendEntriesLock(a) PROVE DrainInv'
  BY <1>1 DEF AppendEntriesLock
<1>2. ASSUME NEW a \in Appender, AppendEntriesSend(a) PROVE DrainInv'
  BY <1>2 DEF AppendEntriesSend, Send
<1>3. ASSUME NEW a \in Appender, AppendEntriesReturn(a) PROVE DrainInv'
  BY <1>3 DEF AppendEntriesReturn
<1>4. ASSUME NEW v \in Voter, RequestVoteSend(v) PROVE DrainInv'
  BY <1>4 DEF RequestVoteSend, Send
<1>5. ASSUME NEW v \in Voter, RequestVoteReply(v) PROVE DrainInv'
  BY <1>5 DEF RequestVoteReply
<1>6. ASSUME NEW v \in Voter, RequestVoteTimeout(v) PROVE DrainInv'
  BY <1>6 DEF RequestVoteTimeout
<1>7. CASE WatcherTick
  BY <1>7 DEF WatcherTick
<1>8. CASE WatcherCalled
  BY <1>8 DEF WatcherCalled
<1>9. CASE WatcherSend
  BY <1>9 DEF WatcherSend, Send
<1>10. ASSUME NEW pt \in asked, NEW granted \in BOOLEAN,
                VoteReply(pt[1], pt[2], granted)
         PROVE  DrainInv'
  BY <1>10 DEF VoteReply, Send
<1>11. ASSUME NEW pt \in asked, VoteRequestFails(pt[1], pt[2]) PROVE DrainInv'
  BY <1>11 DEF VoteRequestFails
<1>12. CASE TimerFires
  BY <1>12 DEF TimerFires
<1>13. CASE SelectTimer
  BY <1>13 DEF SelectTimer, At, LoopRec
<1>14. CASE SelectEvent
  BY <1>14 DEF SelectEvent, At, Rearms
<1>15. CASE HandleRequestVote
  BY <1>15 DEF HandleRequestVote, Handling, At, GoOn
<1>16. CASE AnswerVote
  BY <1>16 DEF AnswerVote, At, GoOn
<1>17. CASE HandleVoteResponse
  BY <1>17 DEF HandleVoteResponse, Handling, At, GoOn
<1>18. CASE SendBecomeLeader
  BY <1>18 DEF SendBecomeLeader, At, GoOn, Send
<1>19. CASE HandleHeartbeat
  BY <1>19 DEF HandleHeartbeat, Handling, At, GoOn
<1>20. CASE HandleTick
  BY <1>20 DEF HandleTick, At, GoOn, Campaign
<1>21. CASE HandleElectionTimeout
  BY <1>21 DEF HandleElectionTimeout, Handling, At, GoOn, Campaign
<1>22. CASE HandleBecomeLeader
  BY <1>22 DEF HandleBecomeLeader, Handling, At, GoOn
<1>23. CASE ResetTimer
  BY <1>23 DEF ResetTimer, At, GoOn
<1>24. CASE RearmTimer
  BY <1>24 DEF RearmTimer, At, GoOn
<1>25. CASE UNCHANGED vars
  BY <1>25 DEF vars
<1>26. QED
  BY <1>1, <1>2, <1>3, <1>4, <1>5, <1>6, <1>7, <1>8, <1>9, <1>10, <1>11, <1>12,
     <1>13, <1>14, <1>15, <1>16, <1>17, <1>18, <1>19, <1>20, <1>21, <1>22,
     <1>23, <1>24, <1>25 DEF Next, Run, AppendCall, VoteCall, Watch,
     VoteAnswers

(* The receive that drains the timer never waits for ever: a timer that    *)
(* run() stops is running, or its tick is unread.                          *)
THEOREM DrainAlwaysEnds == Spec => []DrainEnds
<1>1. Init => DrainInv
  BY DEF Init, DrainInv, At, Selecting
<1>2. DrainInv => DrainEnds
  BY DEF DrainInv, DrainEnds
<1>3. QED
  BY <1>1, <1>2, DrainStep, TypesCorrect, PTL DEF Spec

----------------------------------------------------------------------------
(* The reply channels: the event of a RequestVote call is in one place.    *)

VoteOf(e, v) == e.type = "RequestVote" /\ e.from = v
Queued(v) == \E i \in 1 .. Len(eventCh) : VoteOf(eventCh[i], v)
InHand(v) == loop.pc \in {"handle", "answer"} /\ VoteOf(loop.ev, v)
Once(v) == \A i, j \in 1 .. Len(eventCh) :
             VoteOf(eventCh[i], v) /\ VoteOf(eventCh[j], v) => i = j

(* It is sent once, is in the channel or in hand but not in both, and as   *)
(* long as it is there nothing has been answered; what is answered is such *)
(* an event.                                                               *)
AnswerInv ==
  /\ At("answer") => loop.ev.type = "RequestVote" /\ loop.ev.from \in Voter
  /\ \A v \in Voter :
       /\ Once(v)
       /\ ~(Queued(v) /\ InHand(v))
       /\ Queued(v) \/ InHand(v) => vpc[v] # "start"
       /\ Queued(v) \/ InHand(v) \/ vpc[v] = "start" => respCh[v] = <<>>

(* A send puts one more event into the channel. *)
LEMMA SendQueued ==
  ASSUME NEW e \in Event, NEW v \in Voter, LoopTypes, Send(e)
  PROVE  /\ Queued(v)' <=> Queued(v) \/ VoteOf(e, v)
         /\ Once(v) /\ ~(Queued(v) /\ VoteOf(e, v)) => Once(v)'
<1>1. /\ Len(eventCh') = Len(eventCh) + 1 /\ Len(eventCh) \in Nat
      /\ \A i \in 1 .. Len(eventCh) : eventCh'[i] = eventCh[i]
      /\ eventCh'[Len(eventCh) + 1] = e
  BY SendSeq DEF LoopTypes
<1>2. Queued(v)' <=> Queued(v) \/ VoteOf(e, v)
  BY <1>1 DEF Queued, VoteOf
<1>3. Once(v) /\ ~(Queued(v) /\ VoteOf(e, v)) => Once(v)'
  BY <1>1 DEF Queued, Once, VoteOf
<1>4. QED
  BY <1>2, <1>3

(* What run() takes from the channel is no longer in it. *)
LEMMA ReceiveQueued ==
  ASSUME NEW v \in Voter, LoopTypes, eventCh # <<>>, eventCh' = Tail(eventCh), Once(v)
  PROVE  /\ Once(v)'
         /\ Queued(v)' => Queued(v) /\ ~VoteOf(Head(eventCh), v)
         /\ VoteOf(Head(eventCh), v) => Queued(v)
<1>1. /\ Len(eventCh') = Len(eventCh) - 1 /\ Len(eventCh) \in Nat \ {0}
      /\ \A i \in 1 .. Len(eventCh') : eventCh'[i] = eventCh[i + 1]
      /\ Head(eventCh) = eventCh[1]
  BY ReceiveSeq DEF LoopTypes
<1>2. Once(v)'
  <2> SUFFICES ASSUME NEW i \in 1 .. Len(eventCh'), NEW j \in 1 .. Len(eventCh'),
                      VoteOf(eventCh'[i], v), VoteOf(eventCh'[j], v)
               PROVE  i = j
    BY DEF Once, VoteOf
  <2>1. i + 1 \in 1 .. Len(eventCh) /\ j + 1 \in 1 .. Len(eventCh)
    BY <1>1
  <2>2. i + 1 = j + 1
    BY <1>1, <2>1 DEF Once
  <2>3. QED
    BY <2>2
<1>3. Queued(v)' => Queued(v) /\ ~VoteOf(Head(eventCh), v)
  BY <1>1 DEF Queued, Once, VoteOf
<1>4. VoteOf(Head(eventCh), v) => Queued(v)
  BY <1>1 DEF Queued
<1>5. QED
  BY <1>2, <1>3, <1>4

(* A step that leaves the channel alone leaves it what it is. *)
LEMMA SameQueued ==
  ASSUME NEW v \in Voter, eventCh' = eventCh
  PROVE  (Queued(v)' <=> Queued(v)) /\ (Once(v)' <=> Once(v))
  BY DEF Queued, Once, VoteOf


(* Every step keeps each event in one place. *)
LEMMA AnswerStep == LoopTypes /\ AnswerInv /\ [Next]_vars => AnswerInv'
<1> SUFFICES ASSUME LoopTypes, AnswerInv, [Next]_vars PROVE AnswerInv'
  OBVIOUS
<1> USE DEF LoopTypes, LoopRec, raftVars, callVars, Selecting, Tick, AnswerInv,
            InHand, VoteOf, At
<1>1. ASSUME NEW a \in Appender, AppendEntriesLock(a) PROVE AnswerInv'
  BY <1>1, SameQueued, Events DEF AppendEntriesLock
<1>2. ASSUME NEW a \in Appender, AppendEntriesSend(a) PROVE AnswerInv'
  BY <1>2, SendQueued, Events, GoOnTypes DEF AppendEntriesSend
<1>3. ASSUME NEW a \in Appender, AppendEntriesReturn(a) PROVE AnswerInv'
  BY <1>3, SameQueued, Events DEF AppendEntriesReturn
<1>4. ASSUME NEW v \in Voter, RequestVoteSend(v) PROVE AnswerInv'
  <2>1. [type |-> "RequestVote", from |-> v] \in Event
    BY Events
  <2>2. \A w \in Voter :
          /\ Queued(w)' <=> Queued(w) \/ w = v
          /\ Once(w) /\ ~(Queued(w) /\ w = v) => Once(w)'
    BY <1>4, <2>1, SendQueued DEF RequestVoteSend
  <2>3. QED
    BY <1>4, <2>2 DEF RequestVoteSend
<1>5. ASSUME NEW v \in Voter, RequestVoteReply(v) PROVE AnswerInv'
  BY <1>5, SameQueued, Events DEF RequestVoteReply
<1>6. ASSUME NEW v \in Voter, RequestVoteTimeout(v) PROVE AnswerInv'
  BY <1>6, SameQueued, Events DEF RequestVoteTimeout
<1>7. CASE WatcherTick
  BY <1>7, SameQueued, Events DEF WatcherTick
<1>8. CASE WatcherCalled
  BY <1>8, SameQueued, Events DEF WatcherCalled
<1>9. CASE WatcherSend
  BY <1>9, SendQueued, Events, GoOnTypes DEF WatcherSend
<1>10. ASSUME NEW pt \in asked, NEW granted \in BOOLEAN,
                VoteReply(pt[1], pt[2], granted)
         PROVE  AnswerInv'
  <2> DEFINE e == [type |-> "RequestVoteResponse", term |-> pt[2], granted |-> granted]
  <2>1. e \in Event
    BY Events
  <2>2. Send(e)
    BY <1>10 DEF VoteReply
  <2>3. \A v \in Voter : (Queued(v)' <=> Queued(v)) /\ (Once(v) => Once(v)')
    BY <2>1, <2>2, SendQueued
  <2>4. QED
    BY <1>10, <2>3 DEF VoteReply
<1>11. ASSUME NEW pt \in asked, VoteRequestFails(pt[1], pt[2]) PROVE AnswerInv'
  BY <1>11, SameQueued, Events DEF VoteRequestFails
<1>12. CASE TimerFires
  BY <1>12, SameQueued, Events DEF TimerFires
<1>13. CASE SelectTimer
  BY <1>13, SameQueued, Events DEF SelectTimer, At, LoopRec
<1>14. CASE SelectEvent
  BY <1>14, ReceiveQueued DEF SelectEvent
<1>15. CASE HandleRequestVote
  BY <1>15, SameQueued, Events DEF HandleRequestVote, Handling, At, GoOn
<1>16. CASE AnswerVote
  BY <1>16, SameQueued, Events DEF AnswerVote, At, GoOn
<1>17. CASE HandleVoteResponse
  BY <1>17, SameQueued, Events DEF HandleVoteResponse, Handling, At, GoOn
<1>18. CASE SendBecomeLeader
  BY <1>18, SendQueued, Events, GoOnTypes DEF SendBecomeLeader, GoOn, Selecting, Tick
<1>19. CASE HandleHeartbeat
  BY <1>19, SameQueued, Events DEF HandleHeartbeat, Handling, At, GoOn
<1>20. CASE HandleTick
  BY <1>20, SameQueued, Events DEF HandleTick, At, GoOn, Campaign
<1>21. CASE HandleElectionTimeout
  BY <1>21, SameQueued, Events DEF HandleElectionTimeout, Handling, At, GoOn, Campaign
<1>22. CASE HandleBecomeLeader
  BY <1>22, SameQueued, Events DEF HandleBecomeLeader, Handling, At, GoOn
<1>23. CASE ResetTimer
  BY <1>23, SameQueued, Events DEF ResetTimer, At, GoOn
<1>24. CASE RearmTimer
  BY <1>24, SameQueued, Events DEF RearmTimer, At, GoOn
<1>25. CASE UNCHANGED vars
  BY <1>25, SameQueued DEF vars
<1>26. QED
  BY <1>1, <1>2, <1>3, <1>4, <1>5, <1>6, <1>7, <1>8, <1>9, <1>10, <1>11, <1>12,
     <1>13, <1>14, <1>15, <1>16, <1>17, <1>18, <1>19, <1>20, <1>21, <1>22,
     <1>23, <1>24, <1>25 DEF Next, Run, AppendCall, VoteCall, Watch,
     VoteAnswers

(* A reply never holds run() up, also when the caller has timed out and    *)
(* nobody will read the channel.                                           *)
THEOREM ReplyAlwaysHasRoom == Spec => []ReplyHasRoom
<1>1. Init => AnswerInv
  BY DEF Init, AnswerInv, At, Selecting, Tick, Once, Queued, InHand, VoteOf
<1>2. AnswerInv => ReplyHasRoom
  BY DEF AnswerInv, ReplyHasRoom, InHand, VoteOf, At
<1>3. QED
  BY <1>1, <1>2, AnswerStep, TypesCorrect, PTL DEF Spec

=============================================================================
