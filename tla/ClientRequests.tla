---------------------------- MODULE ClientRequests ----------------------------
(***************************************************************************)
(* A client's Set, Get and Delete on their way through a gateway to the    *)
(* leader and back: client.go, the password of the gateways                *)
(* (password_service.go, cmd_service.go, GetGatewayInfoFromMaster and      *)
(* RegisterGatewayService), AuthorityMiddleware, the gateway's handlers    *)
(* with their pooled client to the leader, and Get (kv_impl.go).           *)
(*                                                                         *)
(* The server is that of LogReplication: a Set or Delete that has reached  *)
(* it goes its way there, step by step and beside the others.  A gateway   *)
(* waits 3 s for the server, which may begin or end the call later.        *)
(***************************************************************************)
EXTENDS LogReplication

CONSTANTS Reader, ReadKey,  \* calls that are a Get, and the key of each
          Gateway,
          MasterGateway,    \* the one started with -gateway master
          MaxStarts         \* bound: starts of gateways

ASSUME RequestConstants ==
  /\ MasterGateway \in Gateway
  /\ Reader \cap Op = {} /\ ReadKey \in [Reader -> Key]
  /\ MaxStarts \in Nat

Call == Op \cup Reader

VARIABLES
  password,     \* service.password of each gateway; 0 = not running
  drawnBy,      \* the gateway processes so far; each draws a password, which is
                \* named by its number (12 random digits, taken as all different)
  leaderKnown,  \* does the gateway have a leader's host
  request       \* each call: where it is, whether it has left the gateway, through
                \* which gateway and with which password, the answer, and the writes
                \* that were answered OK before it

gatewayVars == <<password, drawnBy, leaderKnown>>
requestVars == <<gatewayVars, request, vars>>

RequestInit ==
  /\ Init
  /\ password = [g \in Gateway |-> 0]
  /\ drawnBy = <<>>
  /\ leaderKnown = [g \in Gateway |-> FALSE]
  /\ request = [c \in Call |-> [at |-> "idle", out |-> FALSE, g |-> MasterGateway, pw |-> 0,
                                code |-> "none", val |-> None, seen |-> {}]]

----------------------------------------------------------------------------
(* The gateways.                                                           *)

(* Faulty variant: a slave keeps the password it drew. *)
StartPasswordOwn(g) == Len(drawnBy) + 1

(* The password a gateway starts with: every process draws one, and a      *)
(* slave then takes the master's.                                          *)
StartPassword(g) == IF g = MasterGateway THEN Len(drawnBy) + 1 ELSE password[MasterGateway]

(* main of the gateway and CmdService; a slave that does not reach the     *)
(* master ends with a panic.                                               *)
StartGateway(g) ==
  /\ password[g] = 0 /\ Len(drawnBy) < MaxStarts
  /\ g = MasterGateway \/ password[MasterGateway] # 0
  /\ drawnBy' = Append(drawnBy, g)
  /\ password' = [password EXCEPT ![g] = StartPassword(g)]
  /\ UNCHANGED <<leaderKnown, request, vars>>

(* Its calls fail; a request that has left it may still reach the server. *)
StopGateway(g) ==
  /\ password[g] # 0
  /\ password' = [password EXCEPT ![g] = 0]
  /\ leaderKnown' = [leaderKnown EXCEPT ![g] = FALSE]
  /\ request' = [c \in Call |->
       IF request[c].at \in {"sent", "waiting"} /\ request[c].g = g
       THEN [request[c] EXCEPT !.at = "answered", !.code = "error", !.val = None]
       ELSE request[c]]
  /\ UNCHANGED <<drawnBy, vars>>

(* SetLeader of the server, which is configured with the master gateway. *)
SetLeader ==
  /\ password[MasterGateway] # 0 /\ ~leaderKnown[MasterGateway]
  /\ leaderKnown' = [leaderKnown EXCEPT ![MasterGateway] = TRUE]
  /\ UNCHANGED <<password, drawnBy, request, vars>>

----------------------------------------------------------------------------
(* A call on the client and in the gateway.                                *)

Ok(c) == request[c].at = "answered" /\ request[c].code = "ok"

(* The client calls with a wrong password or none (0), or with one that a  *)
(* gateway has.                                                            *)
Send(c, g, pw) ==
  /\ request[c].at = "idle" /\ password[g] # 0
  /\ request' = [request EXCEPT ![c].at = "sent", ![c].g = g, ![c].pw = pw,
                                ![c].seen = {w \in Op : Ok(w)}]
  /\ UNCHANGED <<gatewayVars, vars>>

(* The gateway's goroutine ends with an answer. *)
Answer(c, code, val) ==
  request' = [request EXCEPT ![c].at = "answered", ![c].code = code, ![c].val = val]

(* AuthorityMiddleware: a request without a password fails as well. *)
Authorised(c) == request[c].pw = password[request[c].g]

(* The middleware, then the handler: MustGetServerClient panics without a  *)
(* leader, which the framework turns into an error.  Else the request goes *)
(* out to the server.                                                      *)
Handle(c) ==
  /\ request[c].at = "sent"
  /\ IF ~Authorised(c) THEN Answer(c, "denied", None)
     ELSE IF ~leaderKnown[request[c].g] THEN Answer(c, "error", None)
     ELSE request' = [request EXCEPT ![c].at = "waiting", ![c].out = TRUE]
  /\ UNCHANGED <<gatewayVars, vars>>

(* The server does not answer in 3 s.  The request may still be under way, *)
(* or lost.                                                                *)
Timeout(c) ==
  /\ request[c].at = "waiting"
  /\ Answer(c, "error", None)
  /\ UNCHANGED <<gatewayVars, vars>>

----------------------------------------------------------------------------
(* The server.                                                             *)

(* The server runs beside the gateways; it takes up a Set or Delete once   *)
(* the request is out, whether or not the gateway still waits.             *)
ServerStep ==
  /\ Next
  /\ \A o \in Op : pc[o] = "idle" => request[o].out \/ pc'[o] = "idle"
  /\ UNCHANGED <<gatewayVars, request>>

(* What Get answers for what is stored: a text of its own for nothing. *)
Shown(v) == IF v = None THEN <<"(nil)">> ELSE v

ReadValue(key) == Shown(data[key])

(* Get on the server; nobody sees the reply unless the gateway waits. *)
ServeGet(r) ==
  /\ request[r].at = "waiting" /\ request[r].code = "none"
  /\ request' = [request EXCEPT
       ![r].code = IF IsMaster THEN "ok" ELSE "failed",
       ![r].val = IF IsMaster THEN ReadValue(ReadKey[r]) ELSE None]
  /\ UNCHANGED <<gatewayVars, vars>>

(* The server's RespCode for a call. *)
RespCode(c) ==
  IF c \in Reader THEN request[c].code
  ELSE IF pc[c] = "acked" THEN "ok"
  ELSE IF pc[c] \in {"refused", "failed"} THEN "failed" ELSE "none"

(* Faulty variant: the gateway reports success whenever the server answered. *)
ReturnSuccess(c) ==
  /\ request[c].at = "waiting" /\ RespCode(c) # "none"
  /\ Answer(c, "ok", request[c].val)
  /\ UNCHANGED <<gatewayVars, vars>>

(* The gateway's handler passes the server's code and value on. *)
Return(c) ==
  /\ request[c].at = "waiting" /\ RespCode(c) # "none"
  /\ Answer(c, RespCode(c), request[c].val)
  /\ UNCHANGED <<gatewayVars, vars>>

RequestNext ==
  \/ \E g \in Gateway : StartGateway(g) \/ StopGateway(g)
  \/ SetLeader
  \/ \E c \in Call :
       \/ \E g \in Gateway, pw \in {0} \cup {password[h] : h \in Gateway} : Send(c, g, pw)
       \/ Handle(c) \/ Timeout(c) \/ Return(c)
  \/ \E r \in Reader : ServeGet(r)
  \/ ServerStep

RequestSpec == RequestInit /\ [][RequestNext]_requestVars

----------------------------------------------------------------------------
Codes == {"none", "ok", "failed", "denied", "error"}

(* Every variable of clients and gateways has its range; a password is the *)
(* number of a start.                                                      *)
RequestTypeOK ==
  /\ password \in [Gateway -> 0 .. Len(drawnBy)]
  /\ drawnBy \in Seq(Gateway) /\ Len(drawnBy) <= MaxStarts
  /\ leaderKnown \in [Gateway -> BOOLEAN]
  /\ DOMAIN request = Call
  /\ \A c \in Call :
       /\ request[c].at \in {"idle", "sent", "waiting", "answered"}
       /\ request[c].out \in BOOLEAN /\ request[c].g \in Gateway /\ request[c].pw \in Nat
       /\ request[c].code \in Codes /\ request[c].seen \subseteq Op

(* A running gateway has the password that the master gateway had when     *)
(* that gateway was started, whatever was restarted in between             *)
(* (cmd_service.go 11-31, gateway_service.go 21-40): never one of its own, *)
(* and never an older one.                                                 *)
SharedPassword ==
  \A g \in Gateway : password[g] # 0 =>
    LET started == Max({i \in DOMAIN drawnBy : drawnBy[i] = g}) IN
    /\ drawnBy[password[g]] = MasterGateway
    /\ \A i \in password[g] + 1 .. started : drawnBy[i] # MasterGateway

(* Some call the server has taken up writes v to the key. *)
WrittenTo(key, v) == \E p \in Op : pc[p] \notin {"idle", "refused"} /\ <<key, v>> \in Writes(p)

(* What a client is told of a write holds of the store and the log, not    *)
(* only of the server's reply.  After success the key has the value, or    *)
(* what another call the server took up writes to it, and never again what *)
(* was there before; a call turned away for its password, or by a gateway  *)
(* that knows no leader, leaves no entry in the log, not even late         *)
(* (password_middware.go 15-32, gateway_service.go 191-241, kv_impl.go     *)
(* 66-88).  Failure says nothing of the kind: the entry may be in the log  *)
(* and be applied by a later call (raft_state.go 741-788).                 *)
HonestAnswers ==
  \A c \in Op : request[c].at = "answered" =>
    /\ request[c].code = "ok" => WrittenTo(KeyOf[c], data[KeyOf[c]])
    /\ ~request[c].out => request[c].code # "ok" /\ \A i \in DOMAIN Logs : Logs[i].cmd # c

(* A Get called after a write of its key was answered OK answers with what *)
(* some call writes to that key: not with an older value, and with "(nil)" *)
(* only if there is a Delete (kv_impl.go 85, 154-165).  Whether it is the  *)
(* newest such value is another matter: see Replaced in LogReplication.    *)
ReadsSeeAcked ==
  \A r \in Reader : Ok(r) /\ (\E w \in request[r].seen : KeyOf[w] = ReadKey[r]) =>
    \E p \in Op : \E w \in Writes(p) :
      /\ pc[p] \notin {"idle", "refused"}
      /\ w[1] = ReadKey[r] /\ request[r].val = Shown(w[2])

============================================================================
