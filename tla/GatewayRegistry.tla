---------------------------- MODULE GatewayRegistry ----------------------------
(***************************************************************************)
(* The gateway's registry of servers and of the leader                     *)
(* (ddbr-gateway/service/gateway_service.go, repo/, client/) and the       *)
(* servers that use it: at their start (RegisterNodeAndGetInfo and         *)
(* JoinCluster of init_manager.go) and when they win an election           *)
(* (updateClusterInfo of raft_state_machine.go).                           *)
(*                                                                         *)
(* The gateway handles calls concurrently.  One action is one section      *)
(* under a lock of the registry, or one unlocked access to leaderHost.     *)
(* pc[s] is the place in the call server s is in, on its own side or in    *)
(* the gateway's handler.  A server is one process: one that is started    *)
(* again has another node id (LoadConfig makes one up) on the same host.   *)
(***************************************************************************)
EXTENDS Integers

CONSTANTS Server,             \* processes, named by their node id
          Host,               \* addresses as GetRemoteHost gives them: no port
          HostOf,             \* the host of each server
          StartsAsMaster,     \* servers started with -master
          None,               \* "" for a host, -1 for an id
          Unmade,             \* MasterHost before the first GetGatewayRepo
          MaxElections,       \* bound on elections won
          MaxGatewayRestarts  \* bound on restarts of the gateway

ASSUME RegistryConstants ==
  /\ HostOf \in [Server -> Host] /\ StartsAsMaster \subseteq Server
  /\ None \notin Server \cup Host /\ Unmade \notin Host \cup {None}
  /\ MaxElections \in Nat /\ MaxGatewayRestarts \in Nat

VARIABLES
  nodeMap, leaderHost,             \* SeverInfo; nodeMap[s] = None: not in the map
  leaderId, MasterHost,            \* GatewayRepo
  pool,                            \* hosts with a client in serverClientPool
  pc, mode,                        \* each server: where it is, and in which errand
  reg, found,                      \* ... the reply to RegisterSever, the id SetLeader found
  isMaster, masterAddr, joined,    \* ... configs.IsMaster, MasterAddr, hasJoinedCluster
  elections, restarts

registry == <<nodeMap, leaderHost, leaderId, MasterHost, pool>>
serverVars == <<mode, reg, found, isMaster, masterAddr, joined>>
bounds == <<elections, restarts>>
vars == <<registry, pc, serverVars, bounds>>

NoReply == [id |-> None, host |-> None]

Init ==
  /\ nodeMap = [s \in Server |-> None]
  /\ leaderHost = None
  /\ leaderId = None
  /\ MasterHost = Unmade
  /\ pool = {}
  /\ pc = [s \in Server |-> "off"]
  /\ mode = [s \in Server |-> "start"]
  /\ reg = [s \in Server |-> NoReply]
  /\ found = [s \in Server |-> None]
  /\ isMaster = [s \in Server |-> FALSE]
  /\ masterAddr = [s \in Server |-> None]
  /\ joined = [s \in Server |-> FALSE]
  /\ elections = 0
  /\ restarts = 0

Goto(s, where) == pc' = [pc EXCEPT ![s] = where]

(* MasterHost as GetGatewayRepo returns it: read from leaderHost by the    *)
(* first call, never again.                                                *)
GatewayRepoHost == IF MasterHost = Unmade THEN leaderHost ELSE MasterHost

----------------------------------------------------------------------------
(* A server starts: LoadConfig, then RegisterNodeAndGetInfo.               *)
Start(s) ==
  /\ pc[s] = "off"
  /\ isMaster' = [isMaster EXCEPT ![s] = s \in StartsAsMaster]
  /\ Goto(s, "add")
  /\ UNCHANGED <<registry, mode, reg, found, masterAddr, joined, bounds>>

(* RegisterSever in the gateway: AddSever.  severList, which the reply     *)
(* lists, holds the hosts of nodeMap.                                      *)
AddSever(s) ==
  /\ pc[s] = "add"
  /\ nodeMap' = [nodeMap EXCEPT ![s] = HostOf[s]]
  /\ Goto(s, "id")
  /\ UNCHANGED <<leaderHost, leaderId, MasterHost, pool, serverVars, bounds>>

(* GetLeaderId.  A leader without an id is given one when it registers, if *)
(* MasterHost names it.                                                    *)
ReadLeaderId(s) ==
  /\ pc[s] = "id"
  /\ MasterHost' = GatewayRepoHost
  /\ leaderId' = IF leaderId = None /\ GatewayRepoHost = HostOf[s] THEN s ELSE leaderId
  /\ reg' = [reg EXCEPT ![s].id = leaderId']
  /\ Goto(s, "host")
  /\ UNCHANGED <<nodeMap, leaderHost, pool, mode, found, isMaster, masterAddr,
                 joined, bounds>>

(* Faulty variant: the reply carries MasterHost. *)
AnswerMasterHost(s) ==
  /\ pc[s] = "host"
  /\ reg' = [reg EXCEPT ![s].host = MasterHost]
  /\ Goto(s, "registered")
  /\ UNCHANGED <<registry, mode, found, isMaster, masterAddr, joined, bounds>>

(* GetAllSevers, GetLeaderHost, and the reply. *)
ReadLeaderHost(s) ==
  /\ pc[s] = "host"
  /\ reg' = [reg EXCEPT ![s].host = leaderHost]
  /\ Goto(s, "registered")
  /\ UNCHANGED <<registry, mode, found, isMaster, masterAddr, joined, bounds>>

(* Faulty variant: a master does not give way to a registered leader. *)
NeverGiveWay(s) ==
  /\ pc[s] = "registered"
  /\ Goto(s, IF mode[s] = "elected" THEN "running"
             ELSE IF isMaster[s] /\ reg[s].id = None THEN "ask" ELSE "join")
  /\ UNCHANGED <<registry, serverVars, bounds>>

(* Faulty variant: every server without a leader asks to be it. *)
EveryoneAsks(s) ==
  /\ pc[s] = "registered"
  /\ isMaster' = [isMaster EXCEPT ![s] = @ /\ (mode[s] = "start" => reg[s].id = None)]
  /\ Goto(s, IF mode[s] = "elected" THEN "running"
             ELSE IF reg[s].id = None THEN "ask" ELSE "join")
  /\ UNCHANGED <<registry, mode, reg, found, masterAddr, joined, bounds>>

(* The server has the reply.  A master asks to be leader if there is none  *)
(* and otherwise goes on as a follower; a follower goes on to join.  An    *)
(* elected leader only wanted the list.                                    *)
Registered(s) ==
  /\ pc[s] = "registered"
  /\ isMaster' = [isMaster EXCEPT ![s] = @ /\ (mode[s] = "start" => reg[s].id = None)]
  /\ Goto(s, IF mode[s] = "elected" THEN "running"
             ELSE IF isMaster'[s] THEN "ask" ELSE "join")
  /\ UNCHANGED <<registry, mode, reg, found, masterAddr, joined, bounds>>

----------------------------------------------------------------------------
(* SetLeader in the gateway.                                               *)

(* What a server does when SetLeader is refused: at its start it becomes a *)
(* follower, after an election it stays what it is.                        *)
Refused(s) ==
  IF mode[s] = "elected"
  THEN Goto(s, "running") /\ UNCHANGED isMaster
  ELSE Goto(s, "join") /\ isMaster' = [isMaster EXCEPT ![s] = FALSE]

(* The check for a leader.  leaderHost is read before the id; since        *)
(* neither is cleared, reading both at once has the same outcomes.         *)
CheckLeader(s) ==
  /\ pc[s] = "ask"
  /\ MasterHost' = GatewayRepoHost
  /\ IF leaderHost # None /\ leaderId # None
     THEN Refused(s)
     ELSE Goto(s, "write") /\ UNCHANGED isMaster
  /\ UNCHANGED <<nodeMap, leaderHost, leaderId, pool, mode, reg, found,
                 masterAddr, joined, bounds>>

(* repo.SetLeader, without a lock. *)
WriteLeaderHost(s) ==
  /\ pc[s] = "write"
  /\ leaderHost' = HostOf[s]
  /\ Goto(s, "find")
  /\ UNCHANGED <<nodeMap, leaderId, MasterHost, pool, serverVars, bounds>>

(* Some id of the host, in whatever order the map is ranged over. *)
FindNodeId(s) ==
  /\ pc[s] = "find"
  /\ LET ids == {n \in Server : nodeMap[n] = HostOf[s]}
     IN \/ \E n \in ids : found' = [found EXCEPT ![s] = n] /\ Goto(s, "setid")
        \/ ids = {} /\ Goto(s, "answered") /\ UNCHANGED found
  /\ UNCHANGED <<registry, mode, reg, isMaster, masterAddr, joined, bounds>>

SetLeaderId(s) ==
  /\ pc[s] = "setid"
  /\ leaderId' = found[s]
  /\ found' = [found EXCEPT ![s] = None]
  /\ Goto(s, "answered")
  /\ UNCHANGED <<nodeMap, leaderHost, MasterHost, pool, mode, reg, isMaster, masterAddr,
                 joined, bounds>>

(* The server has the reply: an elected leader registers next. *)
LeaderSet(s) ==
  /\ pc[s] = "answered"
  /\ Goto(s, IF mode[s] = "elected" THEN "add" ELSE "join")
  /\ UNCHANGED <<registry, serverVars, bounds>>

----------------------------------------------------------------------------
(* The rest of RegisterNodeAndGetInfo and of JoinCluster.                  *)

(* A follower that was told a leader joins it (the call succeeds, or no    *)
(* client could be made); whoever was told a leader's id has joined.       *)
Join(s) ==
  /\ pc[s] = "join"
  /\ masterAddr' = [masterAddr EXCEPT ![s] = IF ~isMaster[s] /\ reg[s].host # None
                                             THEN reg[s].host ELSE @]
  /\ joined' = [joined EXCEPT ![s] = @ \/ reg[s].id # None]
  /\ Goto(s, "running")
  /\ UNCHANGED <<registry, mode, reg, found, isMaster, bounds>>

(* The leader's JoinCluster fails; the server starts nevertheless. *)
JoinFails(s) ==
  /\ pc[s] = "join" /\ ~isMaster[s] /\ reg[s].host # None
  /\ masterAddr' = [masterAddr EXCEPT ![s] = reg[s].host]
  /\ Goto(s, "running")
  /\ UNCHANGED <<registry, mode, reg, found, isMaster, joined, bounds>>

(* What a failed call leads to: RegisterNodeAndGetInfo prints *resp before *)
(* it looks at the error of RegisterSever, and resp is nil then; any other *)
(* error ends the errand, and the server runs as what it is.               *)
AfterFailure(s) ==
  IF pc[s] \in {"add", "id", "host", "registered"} /\ mode[s] = "start"
  THEN "dead" ELSE "running"

(* A call fails before the gateway handles it, or its reply is lost. *)
CallFails(s) ==
  /\ pc[s] \in {"add", "registered", "ask", "answered"}
  /\ Goto(s, AfterFailure(s))
  /\ UNCHANGED <<registry, serverVars, bounds>>

----------------------------------------------------------------------------
(* handleBecomeLeader, and the goroutine with updateClusterInfo. *)
WinElection(s) ==
  /\ pc[s] = "running" /\ elections < MaxElections
  /\ elections' = elections + 1
  /\ isMaster' = [isMaster EXCEPT ![s] = TRUE]
  /\ mode' = [mode EXCEPT ![s] = "elected"]
  /\ Goto(s, "ask")
  /\ UNCHANGED <<registry, reg, found, masterAddr, joined, restarts>>

(* A message of a higher term (AppendEntries, sendHeartbeats). *)
StepDown(s) ==
  /\ isMaster[s] /\ (pc[s] = "running" \/ (mode[s] = "elected" /\ pc[s] # "dead"))
  /\ isMaster' = [isMaster EXCEPT ![s] = FALSE]
  /\ UNCHANGED <<registry, pc, mode, reg, found, masterAddr, joined, bounds>>

(* A running server ends. *)
Stop(s) ==
  /\ pc[s] = "running"
  /\ Goto(s, "dead")
  /\ UNCHANGED <<registry, serverVars, bounds>>

(* A client for the leader's host, made or taken from the pool. *)
GetServerClient ==
  /\ leaderHost # None
  /\ pool' = pool \cup {leaderHost}

(* Get, Set and Delete of the gateway; without a leader they fail. *)
RouteRequest ==
  /\ GetServerClient
  /\ UNCHANGED <<nodeMap, leaderHost, leaderId, MasterHost, pc, serverVars, bounds>>

(* The gateway ends and starts with an empty registry; calls it was        *)
(* handling fail.                                                          *)
GatewayRestart ==
  /\ restarts < MaxGatewayRestarts
  /\ restarts' = restarts + 1
  /\ nodeMap' = [s \in Server |-> None]
  /\ leaderHost' = None
  /\ leaderId' = None
  /\ MasterHost' = Unmade
  /\ pool' = {}
  /\ pc' = [s \in Server |-> IF pc[s] \in {"id", "host", "write", "find", "setid"}
                             THEN AfterFailure(s) ELSE pc[s]]
  /\ UNCHANGED <<serverVars, elections>>

ServerStep(s) ==
  \/ Start(s) \/ AddSever(s) \/ ReadLeaderId(s) \/ ReadLeaderHost(s)
  \/ Registered(s) \/ CheckLeader(s) \/ WriteLeaderHost(s) \/ FindNodeId(s)
  \/ SetLeaderId(s) \/ LeaderSet(s) \/ Join(s) \/ JoinFails(s) \/ CallFails(s)
  \/ WinElection(s) \/ StepDown(s) \/ Stop(s)

Next ==
  \/ \E s \in Server : ServerStep(s)
  \/ RouteRequest
  \/ GatewayRestart

Spec == Init /\ [][Next]_vars

----------------------------------------------------------------------------
Places == {"off", "add", "id", "host", "registered", "ask", "write", "find",
           "setid", "answered", "join", "running", "dead"}

(* Every variable of gateway and servers has its declared range; clients   *)
(* are only made for hosts.                                                *)
TypeOK ==
  /\ pool \subseteq Host
  /\ nodeMap \in [Server -> Host \cup {None}]
  /\ leaderHost \in Host \cup {None}
  /\ leaderId \in Server \cup {None}
  /\ MasterHost \in Host \cup {None, Unmade}
  /\ pc \in [Server -> Places]
  /\ mode \in [Server -> {"start", "elected"}]
  /\ reg \in [Server -> [id : Server \cup {None}, host : Host \cup {None}]]
  /\ found \in [Server -> Server \cup {None}]
  /\ isMaster \in [Server -> BOOLEAN] /\ joined \in [Server -> BOOLEAN]
  /\ masterAddr \in [Server -> Host \cup {None}]
  /\ elections \in 0 .. MaxElections /\ restarts \in 0 .. MaxGatewayRestarts

(* A server started with -master that was told of a leader when it         *)
(* registered does not serve as master, unless it wins an election.        *)
LateMasterYields ==
  \A s \in Server : pc[s] = "running" /\ mode[s] = "start" /\ reg[s].id # None
    => ~isMaster[s]

(* A server that takes itself for a member of the cluster has a leader's   *)
(* address: SetLeader writes the host before the id and RegisterSever      *)
(* reads the id before the host, so an id never comes without a host.      *)
JoinedKnowsLeader ==
  \A s \in Server : joined[s] => masterAddr[s] # None

(* Clients are never sent to a server that only ever followed: every host  *)
(* the gateway takes for the leader's, or has a client for, is the host of *)
(* a server once started as master or elected, though it may have been     *)
(* deposed or stopped since.                                               *)
RoutedToClaimant ==
  \A h \in pool \cup ({leaderHost} \ {None}) :
    \E s \in Server : HostOf[s] = h /\ (s \in StartsAsMaster \/ mode[s] = "elected")

(* What the design asks for after a change of leader, that requests are    *)
(* routed to the current one: the gateway does not hold on to another      *)
(* leader when an elected server asks to be registered.  The code does:    *)
(* SetLeader is refused as long as any leader is registered, and no        *)
(* registration is ever taken back.                                        *)
ElectedIsRegistered ==
  \A s \in Server : isMaster[s] /\ mode[s] = "elected" /\ pc[s] = "ask"
    => leaderHost \in {None, HostOf[s]} \/ leaderId = None

=============================================================================
