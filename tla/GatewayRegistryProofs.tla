------------------------ MODULE GatewayRegistryProofs ------------------------
(***************************************************************************)
(* Proofs about GatewayRegistry, for any set of processes on any hosts and *)
(* any number of elections and restarts of the gateway.                    *)
(***************************************************************************)
EXTENDS GatewayRegistry, TLAPS

USE RegistryConstants

(* Before the first call every variable is in its range. *)
LEMMA TypeInit == Init => TypeOK
  BY DEF Init, TypeOK, NoReply, Places

(* Every step keeps gateway and servers in their declared ranges. *)
LEMMA TypeStep == TypeOK /\ [Next]_vars => TypeOK'
<1> SUFFICES ASSUME TypeOK, [Next]_vars PROVE TypeOK'
  OBVIOUS
<1> USE DEF TypeOK, Goto, registry, serverVars, bounds
<1>1. ASSUME NEW s \in Server, Start(s) PROVE TypeOK'
  BY <1>1 DEF Start, Places
<1>2. ASSUME NEW s \in Server, AddSever(s) PROVE TypeOK'
  BY <1>2 DEF AddSever, Places
<1>3. ASSUME NEW s \in Server, ReadLeaderId(s) PROVE TypeOK'
  BY <1>3 DEF ReadLeaderId, GatewayRepoHost, Places
<1>4. ASSUME NEW s \in Server, ReadLeaderHost(s) PROVE TypeOK'
  BY <1>4 DEF ReadLeaderHost, Places
<1>5. ASSUME NEW s \in Server, Registered(s) PROVE TypeOK'
  BY <1>5 DEF Registered, Places
<1>6. ASSUME NEW s \in Server, CheckLeader(s) PROVE TypeOK'
  BY <1>6 DEF CheckLeader, Refused, GatewayRepoHost, Places
<1>7. ASSUME NEW s \in Server, WriteLeaderHost(s) PROVE TypeOK'
  BY <1>7 DEF WriteLeaderHost, Places
<1>8. ASSUME NEW s \in Server, FindNodeId(s) PROVE TypeOK'
  BY <1>8 DEF FindNodeId, Places
<1>9. ASSUME NEW s \in Server, SetLeaderId(s) PROVE TypeOK'
  BY <1>9 DEF SetLeaderId, Places
<1>10. ASSUME NEW s \in Server, LeaderSet(s) PROVE TypeOK'
  BY <1>10 DEF LeaderSet, Places
<1>11. ASSUME NEW s \in Server, Join(s) PROVE TypeOK'
  BY <1>11 DEF Join, Places
<1>12. ASSUME NEW s \in Server, JoinFails(s) PROVE TypeOK'
  BY <1>12 DEF JoinFails, Places
<1>13. ASSUME NEW s \in Server, CallFails(s) PROVE TypeOK'
  BY <1>13 DEF CallFails, AfterFailure, Places
<1>14. ASSUME NEW s \in Server, WinElection(s) PROVE TypeOK'
  BY <1>14 DEF WinElection, Places
<1>15. ASSUME NEW s \in Server, StepDown(s) PROVE TypeOK'
  BY <1>15 DEF StepDown
<1>16. ASSUME NEW s \in Server, Stop(s) PROVE TypeOK'
  BY <1>16 DEF Stop, Places
<1>17. CASE RouteRequest
  BY <1>17 DEF RouteRequest, GetServerClient
<1>18. CASE GatewayRestart
  BY <1>18 DEF GatewayRestart, AfterFailure, Places
<1>19. CASE UNCHANGED vars
  BY <1>19 DEF vars
<1>20. QED
  BY <1>1, <1>2, <1>3, <1>4, <1>5, <1>6, <1>7, <1>8, <1>9, <1>10, <1>11, <1>12,
     <1>13, <1>14, <1>15, <1>16, <1>17, <1>18, <1>19 DEF Next, ServerStep

(* Gateway and servers stay in their declared ranges, and clients are made *)
(* for hosts only.                                                         *)
THEOREM TypeCorrect == Spec => []TypeOK
  BY TypeInit, TypeStep, PTL DEF Spec

----------------------------------------------------------------------------
(* What is known at each place of a server's errand.                       *)

(* Who asks to be the leader was started as master, or elected. *)
ClaimInv ==
  /\ \A s \in Server : isMaster[s] => s \in StartsAsMaster \/ mode[s] = "elected"
  /\ \A s \in Server : pc[s] \in {"ask", "write"} =>
       s \in StartsAsMaster \/ mode[s] = "elected"

(* A starting server asks to be the leader only if it was told of none,    *)
(* and it is not master behind that point if it was told of one.           *)
YieldInv ==
  \A s \in Server : mode[s] = "start" =>
    /\ pc[s] \in {"ask", "write", "find", "setid", "answered"} => reg[s].id = None
    /\ pc[s] \in {"join", "running"} /\ reg[s].id # None => ~isMaster[s]

(* An id never comes without a host, neither in the registry nor in the    *)
(* reply that is put together from two reads.                              *)
IdHasHost ==
  /\ leaderId # None \/ MasterHost \in Host => leaderHost # None
  /\ \A s \in Server :
       /\ pc[s] \in {"find", "setid"} => leaderHost # None
       /\ pc[s] = "host" /\ reg[s].id # None => leaderHost # None
       /\ pc[s] \in {"registered", "join"} /\ reg[s].id # None => reg[s].host # None
       /\ pc[s] = "join" => mode[s] = "start"

RegistryInv ==
  /\ TypeOK
  /\ ClaimInv /\ RoutedToClaimant
  /\ YieldInv
  /\ IdHasHost /\ JoinedKnowsLeader

(* At the start nobody has asked or been told anything. *)
LEMMA RegistryInit == Init => RegistryInv
  BY TypeInit DEF Init, RegistryInv, ClaimInv, RoutedToClaimant, YieldInv, IdHasHost,
                  JoinedKnowsLeader, NoReply

(* A server comes to ask only as master; an election makes it a claimant   *)
(* for good, since mode never goes back.                                   *)
LEMMA ClaimStep == TypeOK /\ ClaimInv /\ [Next]_vars => ClaimInv'
<1> SUFFICES ASSUME TypeOK, ClaimInv, [Next]_vars PROVE ClaimInv'
  OBVIOUS
<1> USE DEF TypeOK, Goto, registry, serverVars, bounds, ClaimInv
<1>1. ASSUME NEW s \in Server, Start(s) PROVE ClaimInv'
  BY <1>1 DEF Start
<1>2. ASSUME NEW s \in Server, AddSever(s) PROVE ClaimInv'
  BY <1>2 DEF AddSever
<1>3. ASSUME NEW s \in Server, ReadLeaderId(s) PROVE ClaimInv'
  BY <1>3 DEF ReadLeaderId, GatewayRepoHost
<1>4. ASSUME NEW s \in Server, ReadLeaderHost(s) PROVE ClaimInv'
  BY <1>4 DEF ReadLeaderHost
<1>5. ASSUME NEW s \in Server, Registered(s) PROVE ClaimInv'
  BY <1>5 DEF Registered
<1>6. ASSUME NEW s \in Server, CheckLeader(s) PROVE ClaimInv'
  BY <1>6 DEF CheckLeader, Refused, GatewayRepoHost
<1>7. ASSUME NEW s \in Server, WriteLeaderHost(s) PROVE ClaimInv'
  BY <1>7 DEF WriteLeaderHost
<1>8. ASSUME NEW s \in Server, FindNodeId(s) PROVE ClaimInv'
  BY <1>8 DEF FindNodeId
<1>9. ASSUME NEW s \in Server, SetLeaderId(s) PROVE ClaimInv'
  BY <1>9 DEF SetLeaderId
<1>10. ASSUME NEW s \in Server, LeaderSet(s) PROVE ClaimInv'
  BY <1>10 DEF LeaderSet
<1>11. ASSUME NEW s \in Server, Join(s) PROVE ClaimInv'
  BY <1>11 DEF Join
<1>12. ASSUME NEW s \in Server, JoinFails(s) PROVE ClaimInv'
  BY <1>12 DEF JoinFails
<1>13. ASSUME NEW s \in Server, CallFails(s) PROVE ClaimInv'
  BY <1>13 DEF CallFails, AfterFailure
<1>14. ASSUME NEW s \in Server, WinElection(s) PROVE ClaimInv'
  BY <1>14 DEF WinElection
<1>15. ASSUME NEW s \in Server, StepDown(s) PROVE ClaimInv'
  BY <1>15 DEF StepDown
<1>16. ASSUME NEW s \in Server, Stop(s) PROVE ClaimInv'
  BY <1>16 DEF Stop
<1>17. CASE RouteRequest
  BY <1>17 DEF RouteRequest, GetServerClient
<1>18. CASE GatewayRestart
  BY <1>18 DEF GatewayRestart, AfterFailure
<1>19. CASE UNCHANGED vars
  BY <1>19 DEF vars
<1>20. QED
  BY <1>1, <1>2, <1>3, <1>4, <1>5, <1>6, <1>7, <1>8, <1>9, <1>10, <1>11, <1>12,
     <1>13, <1>14, <1>15, <1>16, <1>17, <1>18, <1>19 DEF Next, ServerStep

(* leaderHost is written by who passed the check, clients are made for     *)
(* leaderHost only.                                                        *)
LEMMA RoutedStep ==
  TypeOK /\ ClaimInv /\ RoutedToClaimant /\ [Next]_vars => RoutedToClaimant'
<1> SUFFICES ASSUME TypeOK, ClaimInv, RoutedToClaimant, [Next]_vars
             PROVE  RoutedToClaimant'
  OBVIOUS
<1> USE DEF TypeOK, Goto, registry, serverVars, bounds, ClaimInv,
            RoutedToClaimant
<1>1. ASSUME NEW s \in Server, Start(s) PROVE RoutedToClaimant'
  BY <1>1 DEF Start
<1>2. ASSUME NEW s \in Server, AddSever(s) PROVE RoutedToClaimant'
  BY <1>2 DEF AddSever
<1>3. ASSUME NEW s \in Server, ReadLeaderId(s) PROVE RoutedToClaimant'
  BY <1>3 DEF ReadLeaderId, GatewayRepoHost
<1>4. ASSUME NEW s \in Server, ReadLeaderHost(s) PROVE RoutedToClaimant'
  BY <1>4 DEF ReadLeaderHost
<1>5. ASSUME NEW s \in Server, Registered(s) PROVE RoutedToClaimant'
  BY <1>5 DEF Registered
<1>6. ASSUME NEW s \in Server, CheckLeader(s) PROVE RoutedToClaimant'
  BY <1>6 DEF CheckLeader, Refused, GatewayRepoHost
<1>7. ASSUME NEW s \in Server, WriteLeaderHost(s) PROVE RoutedToClaimant'
  BY <1>7 DEF WriteLeaderHost
<1>8. ASSUME NEW s \in Server, FindNodeId(s) PROVE RoutedToClaimant'
  BY <1>8 DEF FindNodeId
<1>9. ASSUME NEW s \in Server, SetLeaderId(s) PROVE RoutedToClaimant'
  BY <1>9 DEF SetLeaderId
<1>10. ASSUME NEW s \in Server, LeaderSet(s) PROVE RoutedToClaimant'
  BY <1>10 DEF LeaderSet
<1>11. ASSUME NEW s \in Server, Join(s) PROVE RoutedToClaimant'
  BY <1>11 DEF Join
<1>12. ASSUME NEW s \in Server, JoinFails(s) PROVE RoutedToClaimant'
  BY <1>12 DEF JoinFails
<1>13. ASSUME NEW s \in Server, CallFails(s) PROVE RoutedToClaimant'
  BY <1>13 DEF CallFails, AfterFailure
<1>14. ASSUME NEW s \in Server, WinElection(s) PROVE RoutedToClaimant'
  BY <1>14 DEF WinElection
<1>15. ASSUME NEW s \in Server, StepDown(s) PROVE RoutedToClaimant'
  BY <1>15 DEF StepDown
<1>16. ASSUME NEW s \in Server, Stop(s) PROVE RoutedToClaimant'
  BY <1>16 DEF Stop
<1>17. CASE RouteRequest
  BY <1>17 DEF RouteRequest, GetServerClient
<1>18. CASE GatewayRestart
  BY <1>18 DEF GatewayRestart, AfterFailure
<1>19. CASE UNCHANGED vars
  BY <1>19 DEF vars
<1>20. QED
  BY <1>1, <1>2, <1>3, <1>4, <1>5, <1>6, <1>7, <1>8, <1>9, <1>10, <1>11, <1>12,
     <1>13, <1>14, <1>15, <1>16, <1>17, <1>18, <1>19 DEF Next, ServerStep

(* Registered and Refused clear isMaster of a starting server.             *)
LEMMA YieldStep == TypeOK /\ YieldInv /\ [Next]_vars => YieldInv'
<1> SUFFICES ASSUME TypeOK, YieldInv, [Next]_vars PROVE YieldInv'
  OBVIOUS
<1> USE DEF TypeOK, Goto, registry, serverVars, bounds, YieldInv
<1>1. ASSUME NEW s \in Server, Start(s) PROVE YieldInv'
  BY <1>1 DEF Start
<1>2. ASSUME NEW s \in Server, AddSever(s) PROVE YieldInv'
  BY <1>2 DEF AddSever
<1>3. ASSUME NEW s \in Server, ReadLeaderId(s) PROVE YieldInv'
  BY <1>3 DEF ReadLeaderId, GatewayRepoHost
<1>4. ASSUME NEW s \in Server, ReadLeaderHost(s) PROVE YieldInv'
  BY <1>4 DEF ReadLeaderHost
<1>5. ASSUME NEW s \in Server, Registered(s) PROVE YieldInv'
  BY <1>5 DEF Registered
<1>6. ASSUME NEW s \in Server, CheckLeader(s) PROVE YieldInv'
  BY <1>6 DEF CheckLeader, Refused, GatewayRepoHost
<1>7. ASSUME NEW s \in Server, WriteLeaderHost(s) PROVE YieldInv'
  BY <1>7 DEF WriteLeaderHost
<1>8. ASSUME NEW s \in Server, FindNodeId(s) PROVE YieldInv'
  BY <1>8 DEF FindNodeId
<1>9. ASSUME NEW s \in Server, SetLeaderId(s) PROVE YieldInv'
  BY <1>9 DEF SetLeaderId
<1>10. ASSUME NEW s \in Server, LeaderSet(s) PROVE YieldInv'
  BY <1>10 DEF LeaderSet
<1>11. ASSUME NEW s \in Server, Join(s) PROVE YieldInv'
  BY <1>11 DEF Join
<1>12. ASSUME NEW s \in Server, JoinFails(s) PROVE YieldInv'
  BY <1>12 DEF JoinFails
<1>13. ASSUME NEW s \in Server, CallFails(s) PROVE YieldInv'
  BY <1>13 DEF CallFails, AfterFailure
<1>14. ASSUME NEW s \in Server, WinElection(s) PROVE YieldInv'
  BY <1>14 DEF WinElection
<1>15. ASSUME NEW s \in Server, StepDown(s) PROVE YieldInv'
  BY <1>15 DEF StepDown
<1>16. ASSUME NEW s \in Server, Stop(s) PROVE YieldInv'
  BY <1>16 DEF Stop
<1>17. CASE RouteRequest
  BY <1>17 DEF RouteRequest, GetServerClient
<1>18. CASE GatewayRestart
  BY <1>18 DEF GatewayRestart, AfterFailure
<1>19. CASE UNCHANGED vars
  BY <1>19 DEF vars
<1>20. QED
  BY <1>1, <1>2, <1>3, <1>4, <1>5, <1>6, <1>7, <1>8, <1>9, <1>10, <1>11, <1>12,
     <1>13, <1>14, <1>15, <1>16, <1>17, <1>18, <1>19 DEF Next, ServerStep

(* The host is written before the id and read after it; a restart of the   *)
(* gateway fails the calls that are between the two.                       *)
LEMMA HostStep == TypeOK /\ YieldInv /\ IdHasHost /\ [Next]_vars => IdHasHost'
<1> SUFFICES ASSUME TypeOK, YieldInv, IdHasHost, [Next]_vars PROVE IdHasHost'
  OBVIOUS
<1> USE DEF TypeOK, Goto, registry, serverVars, bounds, YieldInv, IdHasHost
<1>1. ASSUME NEW s \in Server, Start(s) PROVE IdHasHost'
  BY <1>1 DEF Start
<1>2. ASSUME NEW s \in Server, AddSever(s) PROVE IdHasHost'
  BY <1>2 DEF AddSever
<1>3. ASSUME NEW s \in Server, ReadLeaderId(s) PROVE IdHasHost'
  BY <1>3 DEF ReadLeaderId, GatewayRepoHost
<1>4. ASSUME NEW s \in Server, ReadLeaderHost(s) PROVE IdHasHost'
  BY <1>4 DEF ReadLeaderHost
<1>5. ASSUME NEW s \in Server, Registered(s) PROVE IdHasHost'
  BY <1>5 DEF Registered
<1>6. ASSUME NEW s \in Server, CheckLeader(s) PROVE IdHasHost'
  BY <1>6 DEF CheckLeader, Refused, GatewayRepoHost
<1>7. ASSUME NEW s \in Server, WriteLeaderHost(s) PROVE IdHasHost'
  BY <1>7 DEF WriteLeaderHost
<1>8. ASSUME NEW s \in Server, FindNodeId(s) PROVE IdHasHost'
  BY <1>8 DEF FindNodeId
<1>9. ASSUME NEW s \in Server, SetLeaderId(s) PROVE IdHasHost'
  BY <1>9 DEF SetLeaderId
<1>10. ASSUME NEW s \in Server, LeaderSet(s) PROVE IdHasHost'
  BY <1>10 DEF LeaderSet
<1>11. ASSUME NEW s \in Server, Join(s) PROVE IdHasHost'
  BY <1>11 DEF Join
<1>12. ASSUME NEW s \in Server, JoinFails(s) PROVE IdHasHost'
  BY <1>12 DEF JoinFails
<1>13. ASSUME NEW s \in Server, CallFails(s) PROVE IdHasHost'
  BY <1>13 DEF CallFails, AfterFailure
<1>14. ASSUME NEW s \in Server, WinElection(s) PROVE IdHasHost'
  BY <1>14 DEF WinElection
<1>15. ASSUME NEW s \in Server, StepDown(s) PROVE IdHasHost'
  BY <1>15 DEF StepDown
<1>16. ASSUME NEW s \in Server, Stop(s) PROVE IdHasHost'
  BY <1>16 DEF Stop
<1>17. CASE RouteRequest
  BY <1>17 DEF RouteRequest, GetServerClient
<1>18. CASE GatewayRestart
  BY <1>18 DEF GatewayRestart, AfterFailure
<1>19. CASE UNCHANGED vars
  BY <1>19 DEF vars
<1>20. QED
  BY <1>1, <1>2, <1>3, <1>4, <1>5, <1>6, <1>7, <1>8, <1>9, <1>10, <1>11, <1>12,
     <1>13, <1>14, <1>15, <1>16, <1>17, <1>18, <1>19 DEF Next, ServerStep

(* Who joins has been told a host, and is not master if it was told an id. *)
LEMMA JoinedStep ==
  TypeOK /\ YieldInv /\ IdHasHost /\ JoinedKnowsLeader /\ [Next]_vars => JoinedKnowsLeader'
<1> SUFFICES ASSUME TypeOK, YieldInv, IdHasHost, JoinedKnowsLeader, [Next]_vars
             PROVE  JoinedKnowsLeader'
  OBVIOUS
<1> USE DEF TypeOK, Goto, registry, serverVars, bounds, YieldInv, IdHasHost,
            JoinedKnowsLeader
<1>1. ASSUME NEW s \in Server, Start(s) PROVE JoinedKnowsLeader'
  BY <1>1 DEF Start
<1>2. ASSUME NEW s \in Server, AddSever(s) PROVE JoinedKnowsLeader'
  BY <1>2 DEF AddSever
<1>3. ASSUME NEW s \in Server, ReadLeaderId(s) PROVE JoinedKnowsLeader'
  BY <1>3 DEF ReadLeaderId, GatewayRepoHost
<1>4. ASSUME NEW s \in Server, ReadLeaderHost(s) PROVE JoinedKnowsLeader'
  BY <1>4 DEF ReadLeaderHost
<1>5. ASSUME NEW s \in Server, Registered(s) PROVE JoinedKnowsLeader'
  BY <1>5 DEF Registered
<1>6. ASSUME NEW s \in Server, CheckLeader(s) PROVE JoinedKnowsLeader'
  BY <1>6 DEF CheckLeader, Refused, GatewayRepoHost
<1>7. ASSUME NEW s \in Server, WriteLeaderHost(s) PROVE JoinedKnowsLeader'
  BY <1>7 DEF WriteLeaderHost
<1>8. ASSUME NEW s \in Server, FindNodeId(s) PROVE JoinedKnowsLeader'
  BY <1>8 DEF FindNodeId
<1>9. ASSUME NEW s \in Server, SetLeaderId(s) PROVE JoinedKnowsLeader'
  BY <1>9 DEF SetLeaderId
<1>10. ASSUME NEW s \in Server, LeaderSet(s) PROVE JoinedKnowsLeader'
  BY <1>10 DEF LeaderSet
<1>11. ASSUME NEW s \in Server, Join(s) PROVE JoinedKnowsLeader'
  BY <1>11 DEF Join
<1>12. ASSUME NEW s \in Server, JoinFails(s) PROVE JoinedKnowsLeader'
  BY <1>12 DEF JoinFails
<1>13. ASSUME NEW s \in Server, CallFails(s) PROVE JoinedKnowsLeader'
  BY <1>13 DEF CallFails, AfterFailure
<1>14. ASSUME NEW s \in Server, WinElection(s) PROVE JoinedKnowsLeader'
  BY <1>14 DEF WinElection
<1>15. ASSUME NEW s \in Server, StepDown(s) PROVE JoinedKnowsLeader'
  BY <1>15 DEF StepDown
<1>16. ASSUME NEW s \in Server, Stop(s) PROVE JoinedKnowsLeader'
  BY <1>16 DEF Stop
<1>17. CASE RouteRequest
  BY <1>17 DEF RouteRequest, GetServerClient
<1>18. CASE GatewayRestart
  BY <1>18 DEF GatewayRestart, AfterFailure
<1>19. CASE UNCHANGED vars
  BY <1>19 DEF vars
<1>20. QED
  BY <1>1, <1>2, <1>3, <1>4, <1>5, <1>6, <1>7, <1>8, <1>9, <1>10, <1>11, <1>12,
     <1>13, <1>14, <1>15, <1>16, <1>17, <1>18, <1>19 DEF Next, ServerStep

(* The parts together are inductive. *)
LEMMA RegistryStep == RegistryInv /\ [Next]_vars => RegistryInv'
  BY TypeStep, ClaimStep, RoutedStep, YieldStep, HostStep, JoinedStep DEF RegistryInv

(* RegistryInv holds in every reachable state. *)
THEOREM RegistryInvariant == Spec => []RegistryInv
  BY RegistryInit, RegistryStep, PTL DEF Spec

(* A server started with -master that was told of a leader never serves as *)
(* master without winning an election, whatever calls fail and however     *)
(* often the gateway restarts meanwhile.                                   *)
THEOREM MasterYields == Spec => []LateMasterYields
<1>1. RegistryInv => LateMasterYields
  BY DEF RegistryInv, YieldInv, LateMasterYields
<1>2. QED
  BY <1>1, RegistryInvariant, PTL

(* A server that takes itself for a member has a leader's address: the     *)
(* id never comes without the host, although SetLeader and RegisterSever   *)
(* access the two under different locks and one of them under none.        *)
THEOREM JoinedKnows == Spec => []JoinedKnowsLeader
<1>1. RegistryInv => JoinedKnowsLeader
  BY DEF RegistryInv
<1>2. QED
  BY <1>1, RegistryInvariant, PTL

(* Clients are never sent to a host none of whose servers was started as   *)
(* master or elected.                                                      *)
THEOREM ClientsReachClaimants == Spec => []RoutedToClaimant
<1>1. RegistryInv => RoutedToClaimant
  BY DEF RegistryInv
<1>2. QED
  BY <1>1, RegistryInvariant, PTL

=============================================================================
