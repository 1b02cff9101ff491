------------------------------ MODULE Membership ------------------------------
(***************************************************************************)
(* The member list of the master: HeartBeat and JoinCluster                *)
(* (heart_service.go), the list they keep (meta_data.go), RaftState.Peers, *)
(* which replication uses, and the list each follower takes from the reply *)
(* to its HeartBeat (ExpiredTimer, raft_state_machine.go).                 *)
(*                                                                         *)
(* Every call is handled by a goroutine of its own.  The list and Peers    *)
(* have a lock each, so each action is one access to one of them, and      *)
(* handlers interleave in between.  A follower gives up a HeartBeat after  *)
(* 3 s and sends the next one while the handler of the first goes on.  The *)
(* master may be restarted, with empty lists; followers then do not join   *)
(* again, they only send heartbeats.                                       *)
(*                                                                         *)
(* A follower is named by its host as GetRemoteHost gives it, without a    *)
(* port; Self is the master's own address as GetLocalHost gives it, with   *)
(* one, or NoHost when the address cannot be found (net_util.go 36-40).  A *)
(* HeartBeat whose caller's address is not known changes nothing and is    *)
(* left out.                                                               *)
(***************************************************************************)
EXTENDS Naturals, SequencesExt

CONSTANTS Host,        \* the followers
          Self,        \* the master's own address, or NoHost
          NoHost,      \* the empty address
          Handler,     \* bound: calls under way at once
          None,
          MaxRestarts  \* bound: restarts of the master

ASSUME MembershipConstants ==
  Self \notin Host /\ NoHost \notin Host /\ None \notin Host /\ None \notin Handler /\ MaxRestarts \in Nat

VARIABLES
  ServerHost,   \* repo data.ServerHost
  Peers,        \* RaftState.Peers
  handler,      \* what each handler goroutine does
  waiting,      \* the HeartBeat each follower waits for
  view,         \* RaftStateMachine.Peers of each follower
  restarts,
  overlapped    \* the master has handled calls of two hosts at a time

vars == <<ServerHost, Peers, handler, waiting, view, restarts, overlapped>>

Free == [step |-> "free"]

Init ==
  /\ ServerHost = <<>>
  /\ Peers = <<>>
  /\ handler = [c \in Handler |-> Free]
  /\ waiting = [h \in Host |-> None]
  /\ view = [h \in Host |-> <<>>]
  /\ restarts = 0
  /\ overlapped = FALSE

SetHandler(c, r) == handler' = [handler EXCEPT ![c] = r]

(* A call of h begins in handler c. *)
Begins(c, h, r) ==
  /\ handler[c] = Free
  /\ SetHandler(c, r)
  /\ overlapped' = (overlapped \/ \E d \in Handler :
                       handler[d] # Free /\ handler[d].host # h)

----------------------------------------------------------------------------
(* meta_data.go                                                            *)

(* Faulty variant: a host is added without looking for it. *)
HostsWithAgain(host) == Append(ServerHost, host)

(* Faulty variant: nothing is added. *)
HostsUnchanged(host) == ServerHost

(* The list after AddServerHost. *)
HostsWith(host) ==
  IF Contains(ServerHost, host) THEN ServerHost ELSE Append(ServerHost, host)

----------------------------------------------------------------------------
(* JoinCluster                                                             *)

(* AddServerHost *)
JoinCluster(c, h) ==
  /\ Begins(c, h, [step |-> "joinRead", host |-> h])
  /\ ServerHost' = HostsWith(h)
  /\ UNCHANGED <<Peers, waiting, view, restarts>>

(* GetServerHosts *)
JoinRead(c) ==
  /\ handler[c].step = "joinRead"
  /\ SetHandler(c, [step |-> "joinSet", host |-> handler[c].host, peers |-> ServerHost])
  /\ UNCHANGED <<ServerHost, Peers, waiting, view, restarts, overlapped>>

(* Faulty variant: the list is not handed to replication. *)
JoinSetMissing(c) ==
  /\ handler[c].step = "joinSet"
  /\ SetHandler(c, Free)
  /\ UNCHANGED <<ServerHost, Peers, waiting, view, restarts, overlapped>>

(* SetPeers, and the reply. *)
JoinSet(c) ==
  /\ handler[c].step = "joinSet"
  /\ Peers' = handler[c].peers
  /\ SetHandler(c, Free)
  /\ UNCHANGED <<ServerHost, waiting, view, restarts, overlapped>>

----------------------------------------------------------------------------
(* HeartBeat                                                               *)

WithItem(list, item) == IF Contains(list, item) THEN list ELSE Append(list, item)

(* Faulty variant: the master does not add itself. *)
ReplyPeersWithoutSelf(hosts, h) == WithItem(hosts, h)

(* The list in the reply: the master itself, if it knows its address, and  *)
(* the caller are added.                                                   *)
ReplyPeers(hosts, h) ==
  WithItem(IF Self # NoHost THEN WithItem(hosts, Self) ELSE hosts, h)

(* A follower's tick: the request, and GetServerHosts in its handler. *)
HeartBeat(c, h) ==
  /\ waiting[h] = None
  /\ Begins(c, h, [step |-> IF Contains(ServerHost, h) THEN "reply" ELSE "beatAdd",
                   host |-> h, peers |-> ReplyPeers(ServerHost, h)])
  /\ waiting' = [waiting EXCEPT ![h] = c]
  /\ UNCHANGED <<ServerHost, Peers, view, restarts>>

(* A caller that was not in the list read: AddServerHost. *)
BeatAdd(c) ==
  /\ handler[c].step = "beatAdd"
  /\ ServerHost' = HostsWith(handler[c].host)
  /\ SetHandler(c, [handler[c] EXCEPT !.step = "beatSet"])
  /\ UNCHANGED <<Peers, waiting, view, restarts, overlapped>>

(* SetPeers *)
BeatSet(c) ==
  /\ handler[c].step = "beatSet"
  /\ Peers' = handler[c].peers
  /\ SetHandler(c, [handler[c] EXCEPT !.step = "reply"])
  /\ UNCHANGED <<ServerHost, waiting, view, restarts, overlapped>>

(* The reply; a caller that has given up does not see it. *)
BeatReply(c) ==
  /\ handler[c].step = "reply"
  /\ LET h == handler[c].host IN
     IF waiting[h] = c
     THEN /\ view' = [view EXCEPT ![h] = handler[c].peers]
          /\ waiting' = [waiting EXCEPT ![h] = None]
     ELSE UNCHANGED <<view, waiting>>
  /\ SetHandler(c, Free)
  /\ UNCHANGED <<ServerHost, Peers, restarts, overlapped>>

(* The follower's 3 s are over, or the call fails. *)
BeatTimeout(h) ==
  /\ waiting[h] # None
  /\ waiting' = [waiting EXCEPT ![h] = None]
  /\ UNCHANGED <<ServerHost, Peers, handler, view, restarts, overlapped>>

----------------------------------------------------------------------------
(* The master is stopped and started: its lists and handlers are gone, and *)
(* the calls fail.                                                         *)
RestartMaster ==
  /\ restarts < MaxRestarts
  /\ restarts' = restarts + 1
  /\ ServerHost' = <<>>
  /\ Peers' = <<>>
  /\ handler' = [c \in Handler |-> Free]
  /\ waiting' = [h \in Host |-> None]
  /\ overlapped' = FALSE
  /\ UNCHANGED view

Handles(c) == JoinRead(c) \/ JoinSet(c) \/ BeatAdd(c) \/ BeatSet(c) \/ BeatReply(c)

Next ==
  \/ \E c \in Handler, h \in Host : JoinCluster(c, h) \/ HeartBeat(c, h)
  \/ \E c \in Handler : Handles(c)
  \/ \E h \in Host : BeatTimeout(h)
  \/ RestartMaster

Spec == Init /\ [][Next]_vars

(* Handlers are goroutines that wait for nothing but two locks held for a  *)
(* few instructions.  Followers tick for ever; a tick is not lost because  *)
(* handlers are busy, which the bound on Handler would otherwise allow,    *)
(* and not every call takes longer than 3 s.                               *)
FairSpec ==
  /\ Spec
  /\ \A c \in Handler : WF_vars(Handles(c))
  /\ \A h \in Host :
       /\ SF_vars(\E c \in Handler : HeartBeat(c, h))
       /\ SF_vars(\E c \in Handler : waiting[h] = c /\ BeatReply(c))

----------------------------------------------------------------------------
(* The cluster, as far as it has addresses. *)
Members == Host \cup ({Self} \ {NoHost})

Distinct(list) == \A i, j \in DOMAIN list : list[i] = list[j] => i = j

(* Every variable has its shape, and no list names a server twice: neither *)
(* the stored one, although HeartBeat decides to add on a copy that may be *)
(* stale (heart_service.go 35-38, meta_data.go 33-45), nor Peers, whose    *)
(* length replication takes its threshold from (replication.go 41), nor    *)
(* the list a follower counts votes with.                                  *)
TypeOK ==
  /\ ToSet(ServerHost) \subseteq Host /\ Distinct(ServerHost)
  /\ ToSet(Peers) \subseteq Members /\ Distinct(Peers)
  /\ \A h \in Host : ToSet(view[h]) \subseteq Members /\ Distinct(view[h])
  /\ waiting \in [Host -> Handler \cup {None}]
  /\ \A c \in Handler :
       handler[c].step \in {"free", "joinRead", "joinSet", "beatAdd", "beatSet", "reply"}
  /\ restarts \in 0 .. MaxRestarts /\ overlapped \in BOOLEAN

(* Replication never sends to a server that is not in the stored list, and *)
(* a handler never holds one that is not, except the caller it is about to *)
(* add: a copy taken under one lock and written under another may be old,  *)
(* never invented (heart_service.go 26-42, 80-88).                         *)
PeersAreMembers ==
  /\ ToSet(Peers) \subseteq ToSet(ServerHost) \cup {Self}
  /\ \A c \in Handler :
       handler[c].step \in {"joinSet", "beatSet"} =>
         ToSet(handler[c].peers) \subseteq ToSet(ServerHost) \cup {Self}

Quiet == \A c \in Handler : handler[c] = Free

(* Replication knows every member whenever no call is under way, provided  *)
(* calls of two hosts never overlapped.  When they did, a SetPeers with an *)
(* older copy may be the last one, and since the stored list has the host, *)
(* no later HeartBeat repairs Peers (heart_service.go 35, 83-88).          *)
PeersComplete == Quiet /\ ~overlapped => ToSet(ServerHost) \subseteq ToSet(Peers)

(* In the end every follower has the whole cluster in its list, which it   *)
(* needs for an election once the master is gone: joined or not, through   *)
(* restarts of the master, and whatever calls overlapped or timed out      *)
(* (heart_service.go 34-47, raft_state_machine.go 1078-1091).              *)
ViewsComplete == <>[](\A h \in Host : ToSet(view[h]) = Members)

============================================================================
