------------------------- MODULE ClientRequestsProofs -------------------------
(***************************************************************************)
(* Proofs about ClientRequests, for any calls, keys, gateways and          *)
(* followers and any number of starts: the server in it is that of         *)
(* LogReplication, so what is proved there holds here; which password a    *)
(* gateway has; what an answer says of the store and the log; and what a   *)
(* Get answers with.                                                       *)
(***************************************************************************)
EXTENDS ClientRequests, LogReplicationProofs

(* Clients and gateways add no step to the server, they only decide when   *)
(* a call begins.                                                          *)
LEMMA ServerNext == RequestNext => [Next]_vars
  BY DEF RequestNext, StartGateway, StopGateway, SetLeader, Send, Handle, Timeout, Return,
         ServeGet, ServerStep

(* The system of clients, gateways and server implements the write path of *)
(* LogReplication: every theorem about Spec holds of RequestSpec.          *)
THEOREM ServerIsLogReplication == RequestSpec => Spec
<1>1. RequestInit => Init
  BY DEF RequestInit
<1>2. [RequestNext]_requestVars => [Next]_vars
  BY ServerNext DEF requestVars
<1>3. QED
  BY <1>1, <1>2, PTL DEF RequestSpec, Spec

----------------------------------------------------------------------------
(* The password.                                                           *)

(* s is the last start of g. *)
LastStart(g, s) ==
  /\ s \in 1 .. Len(drawnBy) /\ drawnBy[s] = g
  /\ \A i \in s + 1 .. Len(drawnBy) : drawnBy[i] # g

(* A running gateway has the password of the master gateway's last start   *)
(* before its own.                                                         *)
PasswordInv ==
  /\ drawnBy \in Seq(Gateway)
  /\ password \in [Gateway -> Nat]
  /\ \A g \in Gateway : password[g] # 0 =>
       \E s \in 1 .. Len(drawnBy) :
         /\ LastStart(g, s)
         /\ password[g] \in 1 .. s /\ drawnBy[password[g]] = MasterGateway
         /\ \A i \in password[g] + 1 .. s : drawnBy[i] # MasterGateway

(* A start of one gateway leaves the starts of the others where they are. *)
LEMMA StartAppends ==
  ASSUME PasswordInv, NEW g \in Gateway, StartGateway(g)
  PROVE  /\ drawnBy' \in Seq(Gateway) /\ Len(drawnBy') = Len(drawnBy) + 1 /\ Len(drawnBy) \in Nat
         /\ drawnBy'[Len(drawnBy) + 1] = g
         /\ \A i \in 1 .. Len(drawnBy) : drawnBy'[i] = drawnBy[i]
  BY DEF PasswordInv, StartGateway

(* The password of a new process. *)
LEMMA StartPasswordStep ==
  ASSUME PasswordInv, NEW g \in Gateway, StartGateway(g)
  PROVE  PasswordInv'
<1>1. PICK n \in Nat : n = Len(drawnBy)
  BY DEF PasswordInv
<1>2. /\ drawnBy' \in Seq(Gateway) /\ Len(drawnBy') = n + 1 /\ n \in Nat
      /\ drawnBy'[n + 1] = g /\ \A i \in 1 .. n : drawnBy'[i] = drawnBy[i]
  BY <1>1, StartAppends
<1>3. MasterGateway \in Gateway
  BY RequestConstants
<1>4. /\ password'[g] = IF g = MasterGateway THEN n + 1 ELSE password[MasterGateway]
      /\ \A h \in Gateway : h # g => password'[h] = password[h]
      /\ g = MasterGateway \/ password[MasterGateway] # 0
  BY <1>1 DEF StartGateway, StartPassword, PasswordInv
<1>5. password' \in [Gateway -> Nat]
  BY <1>1, <1>2, <1>3 DEF StartGateway, StartPassword, PasswordInv
<1>6. ASSUME NEW h \in Gateway, h # g, password'[h] # 0
      PROVE  \E s \in 1 .. n + 1 :
               /\ LastStart(h, s)'
               /\ password'[h] \in 1 .. s /\ drawnBy'[password'[h]] = MasterGateway
               /\ \A i \in password'[h] + 1 .. s : drawnBy'[i] # MasterGateway
  <2>1. PICK s \in 1 .. n :
          /\ LastStart(h, s)
          /\ password[h] \in 1 .. s /\ drawnBy[password[h]] = MasterGateway
          /\ \A i \in password[h] + 1 .. s : drawnBy[i] # MasterGateway
    BY <1>1, <1>4, <1>6 DEF PasswordInv
  <2>2. s \in 1 .. n + 1 /\ \A i \in 1 .. s : i \in 1 .. n
    BY <1>2
  <2>3. drawnBy'[s] = h
    BY <1>2, <2>1 DEF LastStart
  <2>4. \A i \in s + 1 .. n + 1 : drawnBy'[i] # h
    <3>1. \A i \in s + 1 .. n + 1 : (i \in 1 .. n /\ i \in s + 1 .. n) \/ i = n + 1
      BY <1>2
    <3>2. QED
      BY <1>1, <1>2, <1>6, <2>1, <3>1 DEF LastStart
  <2>5. LastStart(h, s)'
    BY <1>2, <2>2, <2>3, <2>4 DEF LastStart
  <2>6. password'[h] = password[h] /\ drawnBy'[password[h]] = MasterGateway
    BY <1>2, <1>4, <1>6, <2>1, <2>2
  <2>7. \A i \in password[h] + 1 .. s : i \in 1 .. n
    BY <2>1, <2>2
  <2>8. \A i \in password[h] + 1 .. s : drawnBy'[i] # MasterGateway
    BY <1>2, <2>1, <2>7
  <2>9. QED
    BY <2>1, <2>2, <2>5, <2>6, <2>8
<1>7. /\ password'[g] \in 1 .. n + 1 /\ drawnBy'[password'[g]] = MasterGateway
      /\ \A i \in password'[g] + 1 .. n + 1 : drawnBy'[i] # MasterGateway
  <2>1. CASE g = MasterGateway
    BY <1>2, <1>4, <2>1
  <2>2. CASE g # MasterGateway
    <3>1. PICK s \in 1 .. n :
            /\ LastStart(MasterGateway, s)
            /\ password[MasterGateway] \in 1 .. s
            /\ drawnBy[password[MasterGateway]] = MasterGateway
            /\ \A i \in password[MasterGateway] + 1 .. s : drawnBy[i] # MasterGateway
      BY <1>1, <1>3, <1>4, <2>2 DEF PasswordInv
    <3>2. password[MasterGateway] = s
      <4>1. ~(s \in password[MasterGateway] + 1 .. s)
        BY <3>1 DEF LastStart
      <4>2. QED
        BY <1>2, <3>1, <4>1
    <3>3. \A i \in s + 1 .. n + 1 : (i \in 1 .. n /\ i \in s + 1 .. n) \/ i = n + 1
      BY <1>2
    <3>4. \A i \in s + 1 .. n + 1 : drawnBy'[i] # MasterGateway
      BY <1>1, <1>2, <2>2, <3>1, <3>3 DEF LastStart
    <3>5. password'[g] = s /\ s \in 1 .. n + 1 /\ drawnBy'[s] = MasterGateway
      BY <1>2, <1>4, <2>2, <3>1, <3>2
    <3>6. QED
      BY <3>4, <3>5
  <2>3. QED
    BY <2>1, <2>2
<1>8. LastStart(g, n + 1)'
  BY <1>2 DEF LastStart
<1>9. \E s \in 1 .. n + 1 :
        /\ LastStart(g, s)'
        /\ password'[g] \in 1 .. s /\ drawnBy'[password'[g]] = MasterGateway
        /\ \A i \in password'[g] + 1 .. s : drawnBy'[i] # MasterGateway
  <2>1. n + 1 \in 1 .. n + 1
    BY <1>2
  <2>2. QED
    BY <1>7, <1>8, <2>1
<1>10. \A h \in Gateway : password'[h] # 0 =>
          \E s \in 1 .. n + 1 :
            /\ LastStart(h, s)'
            /\ password'[h] \in 1 .. s /\ drawnBy'[password'[h]] = MasterGateway
            /\ \A i \in password'[h] + 1 .. s : drawnBy'[i] # MasterGateway
  BY <1>6, <1>9
<1>11. QED
  BY <1>2, <1>5, <1>10 DEF PasswordInv

(* A stop takes a password away and changes no other. *)
LEMMA StopPasswordStep ==
  ASSUME PasswordInv, NEW g \in Gateway, StopGateway(g)
  PROVE  PasswordInv'
<1>1. /\ drawnBy' = drawnBy /\ password' \in [Gateway -> Nat] /\ password'[g] = 0
      /\ \A h \in Gateway : h # g => password'[h] = password[h]
  BY DEF StopGateway, PasswordInv
<1>2. \A h, s : LastStart(h, s)' <=> LastStart(h, s)
  BY <1>1 DEF LastStart
<1>3. ASSUME NEW h \in Gateway, password'[h] # 0
      PROVE  \E s \in 1 .. Len(drawnBy) :
               /\ LastStart(h, s)
               /\ password'[h] \in 1 .. s /\ drawnBy[password'[h]] = MasterGateway
               /\ \A i \in password'[h] + 1 .. s : drawnBy[i] # MasterGateway
  <2>1. h # g /\ password'[h] = password[h]
    BY <1>1, <1>3
  <2>2. QED
    BY <1>3, <2>1 DEF PasswordInv
<1>4. QED
  BY <1>1, <1>2, <1>3 DEF PasswordInv

(* The passwords in every reachable state. *)
THEOREM PasswordInvariant == RequestSpec => []PasswordInv
<1>1. RequestInit => PasswordInv
  <2> DEFINE empty == <<>>
  <2>1. empty \in Seq(Gateway)
    OBVIOUS
  <2> HIDE DEF empty
  <2>2. RequestInit => drawnBy = empty /\ password = [g \in Gateway |-> 0]
    BY DEF RequestInit, empty
  <2>3. QED
    BY <2>1, <2>2 DEF PasswordInv
<1>2. PasswordInv /\ [RequestNext]_requestVars => PasswordInv'
  <2> SUFFICES ASSUME PasswordInv, [RequestNext]_requestVars PROVE PasswordInv'
    OBVIOUS
  <2>1. ASSUME NEW g \in Gateway, StartGateway(g) PROVE PasswordInv'
    BY <2>1, StartPasswordStep
  <2>2. ASSUME NEW g \in Gateway, StopGateway(g) PROVE PasswordInv'
    BY <2>2, StopPasswordStep
  <2>3. ASSUME UNCHANGED <<password, drawnBy>> PROVE PasswordInv'
    BY <2>3 DEF PasswordInv, LastStart
  <2>4. \/ \E g \in Gateway : StartGateway(g) \/ StopGateway(g)
        \/ UNCHANGED <<password, drawnBy>>
    BY DEF RequestNext, requestVars, gatewayVars, SetLeader, Send, Handle, Return, ServeGet,
           Timeout, ServerStep
  <2>5. QED
    BY <2>1, <2>2, <2>3, <2>4
<1>3. QED
  BY <1>1, <1>2, PTL DEF RequestSpec

(* A running gateway has the password that the master gateway had when     *)
(* that gateway was started: never one of its own and never an older one.  *)
THEOREM PasswordIsShared == RequestSpec => []SharedPassword
<1>1. PasswordInv => SharedPassword
  <2> SUFFICES ASSUME PasswordInv, NEW g \in Gateway, password[g] # 0
               PROVE  LET started == Max({i \in DOMAIN drawnBy : drawnBy[i] = g}) IN
                      /\ drawnBy[password[g]] = MasterGateway
                      /\ \A i \in password[g] + 1 .. started : drawnBy[i] # MasterGateway
    BY DEF SharedPassword
  <2> DEFINE starts == {i \in DOMAIN drawnBy : drawnBy[i] = g}
  <2>1. PICK s \in 1 .. Len(drawnBy) :
          /\ LastStart(g, s)
          /\ password[g] \in 1 .. s /\ drawnBy[password[g]] = MasterGateway
          /\ \A i \in password[g] + 1 .. s : drawnBy[i] # MasterGateway
    BY DEF PasswordInv
  <2>2. DOMAIN drawnBy = 1 .. Len(drawnBy) /\ Len(drawnBy) \in Nat
    BY DEF PasswordInv
  <2>3. s \in starts /\ \A i \in starts : s >= i /\ i \in Nat
    BY <2>1, <2>2 DEF LastStart
  <2> HIDE DEF starts
  <2>4. Max(starts) \in starts /\ \A i \in starts : Max(starts) >= i
    BY <2>3 DEF Max
  <2>5. Max(starts) = s
    <3>1. Max(starts) \in Nat /\ s \in Nat /\ Max(starts) >= s /\ s >= Max(starts)
      BY <2>3, <2>4
    <3>2. QED
      BY <3>1
  <2>6. QED
    BY <2>1, <2>5 DEF starts
<1>2. QED
  BY <1>1, PasswordInvariant, PTL

----------------------------------------------------------------------------
(* The requests.                                                           *)

Steps == {"idle", "sent", "waiting", "answered"}

(* A request whose answer carries v, whatever that is. *)
Request(v) == [at : Steps, out : BOOLEAN, g : Gateway, pw : Nat, code : Codes, val : {v},
               seen : SUBSET Op]

RequestTypes ==
  /\ DOMAIN request = Call /\ request = [c \in Call |-> request[c]]
  /\ \A c \in Call : \E v : request[c] \in Request(v)
  /\ leaderKnown \in [Gateway -> BOOLEAN]

(* Where a request is and what the gateway and the server know of it. *)
Placed(c) ==
  LET r == request[c] IN
  /\ r.at \in {"idle", "sent"} => ~r.out /\ r.code = "none"
  /\ r.at = "waiting" => r.out
  /\ c \in Op => /\ ~r.out => pc[c] = "idle" /\ r.code # "ok"
                 /\ r.code = "ok" => pc[c] = "acked"

(* A call that has been made writes what is shown for the key. *)
ShownFor(key, val) ==
  \E p \in Op : Made(p) /\ \E w \in Writes(p) : w[1] = key /\ val = Shown(w[2])

(* The writes a request counts as answered before it are acknowledged, and *)
(* a Get that has read one of their keys has seen some call's value.       *)
ReadSound(c) ==
  /\ \A w \in request[c].seen : pc[w] = "acked"
  /\ c \in Reader /\ request[c].code = "ok" /\ (\E w \in request[c].seen : KeyOf[w] = ReadKey[c])
       => ShownFor(ReadKey[c], request[c].val)

RequestInv == \A c \in Call : Placed(c) /\ ReadSound(c)

(* A step of one request that leaves the server alone. *)
LEMMA OneRequest ==
  ASSUME RequestTypes, RequestInv, NEW c \in Call, NEW v, NEW n \in Request(v),
         request' = [request EXCEPT ![c] = n], UNCHANGED <<leaderKnown, pc>>,
         /\ n.at \in {"idle", "sent"} => ~n.out /\ n.code = "none"
         /\ n.at = "waiting" => n.out
         /\ c \in Op /\ ~n.out => pc[c] = "idle" /\ n.code # "ok"
         /\ c \in Op /\ n.code = "ok" => pc[c] = "acked",
         \A w \in n.seen : pc[w] = "acked",
         c \in Reader /\ n.code = "ok" /\ (\E w \in n.seen : KeyOf[w] = ReadKey[c])
           => ShownFor(ReadKey[c], n.val)
  PROVE  RequestTypes' /\ RequestInv'
<1>1. /\ DOMAIN request' = Call /\ request'[c] = n
      /\ \A d \in Call : d # c => request'[d] = request[d]
  BY DEF RequestTypes
<1>2. request' = [d \in Call |-> request'[d]]
  BY DEF RequestTypes
<1>3. RequestTypes'
  BY <1>1, <1>2 DEF RequestTypes
<1>4. \A key, val : ShownFor(key, val)' <=> ShownFor(key, val)
  BY DEF ShownFor, Made
<1>5. ASSUME NEW d \in Call PROVE Placed(d)'
  <2>1. CASE d = c
    BY <1>1, <2>1 DEF Placed
  <2>2. CASE d # c
    BY <1>1, <2>2 DEF Placed, RequestInv
  <2>3. QED
    BY <2>1, <2>2
<1>6. ASSUME NEW d \in Call PROVE ReadSound(d)'
  <2>1. CASE d = c
    BY <1>1, <1>4, <2>1 DEF ReadSound
  <2>2. CASE d # c
    BY <1>1, <1>4, <2>2 DEF ReadSound, RequestInv
  <2>3. QED
    BY <2>1, <2>2
<1>7. QED
  BY <1>3, <1>5, <1>6 DEF RequestInv

(* What the invariant says of one request. *)
LEMMA OneOf ==
  ASSUME RequestTypes, RequestInv, NEW c \in Call
  PROVE  /\ \E v : request[c] \in Request(v)
         /\ request[c].seen \subseteq Op
         /\ Placed(c) /\ ReadSound(c)
  BY DEF RequestTypes, RequestInv, Request

(* An error, or the code and value the server gave. *)
LEMMA AnswerStep ==
  ASSUME RequestTypes, RequestInv, NEW c \in Call, NEW code \in Codes, NEW val,
         Answer(c, code, val), UNCHANGED <<leaderKnown, pc>>,
         \/ code # "ok"
         \/ c \in Op /\ pc[c] = "acked" /\ request[c].out
         \/ c \in Reader /\ request[c].code = "ok" /\ val = request[c].val
  PROVE  RequestTypes' /\ RequestInv'
<1>1. PICK v : request[c] \in Request(v)
  BY OneOf
<1> DEFINE n == [request[c] EXCEPT !.at = "answered", !.code = code, !.val = val]
<1>2. request' = [request EXCEPT ![c] = n]
  BY DEF Answer, RequestTypes
<1>3. /\ n \in Request(val) /\ n.at = "answered" /\ n.code = code /\ n.val = val
      /\ n.out = request[c].out /\ n.seen = request[c].seen
  BY <1>1 DEF Request, Steps
<1> HIDE DEF n
<1>4. Placed(c) /\ ReadSound(c) /\ Reader \cap Op = {}
  BY OneOf, RequestConstants
<1>5. /\ c \in Op /\ ~n.out => pc[c] = "idle" /\ n.code # "ok"
      /\ c \in Op /\ n.code = "ok" => pc[c] = "acked"
  BY <1>3, <1>4 DEF Placed
<1>6. /\ \A w \in n.seen : pc[w] = "acked"
      /\ c \in Reader /\ n.code = "ok" /\ (\E w \in n.seen : KeyOf[w] = ReadKey[c])
           => ShownFor(ReadKey[c], n.val)
  BY <1>3, <1>4 DEF ReadSound
<1>7. n.at \notin {"idle", "sent"} /\ n.at # "waiting"
  BY <1>3
<1>8. QED
  BY <1>2, <1>3, <1>5, <1>6, <1>7, OneRequest

(* The client's call. *)
LEMMA SendStep ==
  ASSUME RequestTypes, RequestInv, NEW c \in Call, NEW g \in Gateway, NEW pw \in Nat, Send(c, g, pw)
  PROVE  RequestTypes' /\ RequestInv'
<1>1. PICK v : request[c] \in Request(v)
  BY OneOf
<1> DEFINE seen == {w \in Op : Ok(w)}
           n == [request[c] EXCEPT !.at = "sent", !.g = g, !.pw = pw, !.seen = seen]
<1>2. request' = [request EXCEPT ![c] = n]
  BY DEF Send, RequestTypes
<1>3. /\ n \in Request(v) /\ n.at = "sent" /\ n.code = request[c].code
      /\ n.out = request[c].out /\ n.seen = seen
  <2>1. seen \in SUBSET Op
    OBVIOUS
  <2> HIDE DEF seen
  <2>2. QED
    BY <1>1, <2>1 DEF Request, Steps
<1> HIDE DEF n
<1>4. Placed(c) /\ request[c].at = "idle"
  BY OneOf DEF Send
<1>5. ~n.out /\ n.code = "none" /\ (c \in Op => pc[c] = "idle")
  BY <1>3, <1>4 DEF Placed
<1>6. \A w \in n.seen : pc[w] = "acked"
  BY <1>3 DEF RequestInv, Placed, Ok, Call
<1>7. UNCHANGED <<leaderKnown, pc>>
  BY DEF Send, gatewayVars, vars
<1>8. QED
  BY <1>2, <1>3, <1>5, <1>6, <1>7, OneRequest

(* The gateway's handler. *)
LEMMA HandleStep ==
  ASSUME RequestTypes, RequestInv, NEW c \in Call, Handle(c)
  PROVE  RequestTypes' /\ RequestInv'
<1>1. UNCHANGED <<leaderKnown, pc>>
  BY DEF Handle, gatewayVars, vars
<1>2. CASE Answer(c, "denied", None) \/ Answer(c, "error", None)
  <2>1. "denied" \in Codes /\ "error" \in Codes /\ "denied" # "ok" /\ "error" # "ok"
    BY DEF Codes
  <2>2. QED
    BY <1>1, <1>2, <2>1, AnswerStep
<1>3. CASE request' = [request EXCEPT ![c].at = "waiting", ![c].out = TRUE]
  <2>1. PICK v : request[c] \in Request(v)
    BY OneOf
  <2> DEFINE n == [request[c] EXCEPT !.at = "waiting", !.out = TRUE]
  <2>2. request' = [request EXCEPT ![c] = n]
    BY <1>3 DEF RequestTypes
  <2>3. /\ n \in Request(v) /\ n.at = "waiting" /\ n.code = request[c].code /\ n.out
        /\ n.val = request[c].val /\ n.seen = request[c].seen
    BY <2>1 DEF Request, Steps
  <2> HIDE DEF n
  <2>4. Placed(c) /\ ReadSound(c) /\ request[c].at = "sent"
    BY OneOf DEF Handle
  <2>5. n.code = "none" /\ \A w \in n.seen : pc[w] = "acked"
    BY <2>3, <2>4 DEF Placed, ReadSound
  <2>6. QED
    BY <1>1, <2>2, <2>3, <2>5, OneRequest
<1>4. QED
  BY <1>2, <1>3 DEF Handle

(* The server's answer on its way back. *)
LEMMA ReturnStep ==
  ASSUME RequestTypes, RequestInv, NEW c \in Call, Return(c)
  PROVE  RequestTypes' /\ RequestInv'
<1>1. UNCHANGED <<leaderKnown, pc>> /\ Answer(c, RespCode(c), request[c].val)
  BY DEF Return, gatewayVars, vars
<1>2. PICK v : request[c] \in Request(v)
  BY OneOf
<1>3. RespCode(c) \in Codes
  BY <1>2 DEF RespCode, Codes, Request
<1>4. request[c].at = "waiting" /\ Placed(c)
  BY OneOf DEF Return
<1>5. CASE c \in Reader
  BY <1>1, <1>3, <1>5, AnswerStep DEF RespCode
<1>6. CASE c \notin Reader
  <2>1. c \in Op /\ request[c].out
    BY <1>4, <1>6 DEF Call, Placed
  <2>2. RespCode(c) # "ok" \/ pc[c] = "acked"
    BY <1>6 DEF RespCode
  <2>3. QED
    BY <1>1, <1>3, <2>1, <2>2, AnswerStep
<1>7. QED
  BY <1>5, <1>6

(* A Get reads the store. *)
LEMMA GetStep ==
  ASSUME RequestTypes, RequestInv, AckedVisible, NEW r \in Reader, ServeGet(r)
  PROVE  RequestTypes' /\ RequestInv'
<1>1. r \in Call /\ r \notin Op /\ ReadKey[r] \in Key
  BY RequestConstants DEF Call
<1>2. PICK v : request[r] \in Request(v)
  BY <1>1, OneOf
<1> DEFINE code == IF IsMaster THEN "ok" ELSE "failed"
           val == IF IsMaster THEN ReadValue(ReadKey[r]) ELSE None
<1>3. /\ request' = [request EXCEPT ![r].code = code, ![r].val = val]
      /\ code \in Codes /\ (code = "ok" => val = ReadValue(ReadKey[r]))
  BY DEF ServeGet, Codes
<1> HIDE DEF code, val
<1> DEFINE n == [request[r] EXCEPT !.code = code, !.val = val]
<1>4. request' = [request EXCEPT ![r] = n]
  BY <1>1, <1>3 DEF RequestTypes
<1>5. /\ n \in Request(val) /\ n.at = request[r].at /\ n.code = code /\ n.val = val
      /\ n.out = request[r].out /\ n.seen = request[r].seen
  BY <1>2, <1>3 DEF Request
<1> HIDE DEF n
<1>6. /\ Placed(r) /\ ReadSound(r) /\ request[r].at = "waiting" /\ request[r].seen \subseteq Op
      /\ UNCHANGED <<leaderKnown, pc>>
  BY <1>1, OneOf DEF ServeGet, gatewayVars, vars
<1>7. n.at = "waiting" /\ n.out /\ \A w \in n.seen : pc[w] = "acked"
  BY <1>5, <1>6 DEF Placed, ReadSound
<1>8. ASSUME n.code = "ok", NEW w \in n.seen, KeyOf[w] = ReadKey[r]
      PROVE  ShownFor(ReadKey[r], n.val)
  <2>1. w \in Op /\ pc[w] = "acked"
    BY <1>5, <1>6, <1>7, <1>8
  <2>2. PICK p \in Op : Made(p) /\ <<KeyOf[w], data[KeyOf[w]]>> \in Writes(p)
    BY <2>1 DEF AckedVisible, Made
  <2>3. n.val = Shown(data[ReadKey[r]])
    BY <1>3, <1>5, <1>8 DEF ReadValue
  <2>4. PICK u : u = <<ReadKey[r], data[ReadKey[r]]>>
    OBVIOUS
  <2>5. u \in Writes(p) /\ u[1] = ReadKey[r] /\ u[2] = data[ReadKey[r]]
    BY <1>8, <2>2, <2>4
  <2>6. n.val = Shown(u[2])
    BY <2>3, <2>5
  <2>7. QED
    BY <2>2, <2>5, <2>6 DEF ShownFor
<1>9. QED
  BY <1>1, <1>4, <1>5, <1>6, <1>7, <1>8, OneRequest

(* The calls a gateway holds fail with it. *)
LEMMA StopStep ==
  ASSUME RequestTypes, RequestInv, NEW g \in Gateway, StopGateway(g)
  PROVE  RequestTypes' /\ RequestInv'
<1> DEFINE ended(c) == [request[c] EXCEPT !.at = "answered", !.code = "error", !.val = None]
<1>1. /\ DOMAIN request' = Call /\ request' = [c \in Call |-> request'[c]]
      /\ \A c \in Call : request'[c] = request[c] \/ request'[c] = ended(c)
      /\ leaderKnown' \in [Gateway -> BOOLEAN] /\ pc' = pc
  BY DEF StopGateway, RequestTypes, vars
<1>2. \A key, val : ShownFor(key, val)' <=> ShownFor(key, val)
  BY <1>1 DEF ShownFor, Made
<1>3. ASSUME NEW c \in Call
      PROVE  (\E v : request'[c] \in Request(v)) /\ Placed(c)' /\ ReadSound(c)'
  <2>1. PICK v : request[c] \in Request(v)
    BY OneOf
  <2>2. Placed(c) /\ ReadSound(c)
    BY OneOf
  <2>3. CASE request'[c] = request[c]
    BY <1>1, <1>2, <2>1, <2>2, <2>3 DEF Placed, ReadSound
  <2>4. CASE request'[c] = ended(c)
    <3>1. /\ ended(c) \in Request(None) /\ ended(c).at = "answered" /\ ended(c).code = "error"
          /\ ended(c).out = request[c].out /\ ended(c).seen = request[c].seen
      BY <2>1 DEF Request, Steps, Codes
    <3> HIDE DEF ended
    <3>2. Placed(c)'
      BY <1>1, <2>2, <2>4, <3>1 DEF Placed
    <3>3. ReadSound(c)'
      BY <1>1, <2>2, <2>4, <3>1 DEF ReadSound
    <3>4. QED
      BY <2>4, <3>1, <3>2, <3>3
  <2>5. QED
    BY <1>1, <2>3, <2>4
<1>4. QED
  BY <1>1, <1>3 DEF RequestTypes, RequestInv

(* A call that is answered on the server stays so. *)
LEMMA AckedStays ==
  ASSUME LeaderTypes, [Next]_vars, NEW o \in Op, pc[o] = "acked"
  PROVE  pc'[o] = "acked"
<1>1. ASSUME NEW p \in Op, Refuse(p) \/ ReadLastIndex(p) \/ CallStep(p)
      PROVE  pc'[o] = "acked"
  <2>1. pc[p] # "acked" /\ \E where : Goto(p, where)
    BY <1>1 DEF Refuse, ReadLastIndex, CallStep, ReadTerm, AppendLog, ReplicateLogs,
       CountReplies, CommitLog, CollectEntries, CheckEntry, ExecuteEntry, RecordEntry,
       PassEntry, CheckCommitted, PutAndAnswer
  <2>2. QED
    BY <2>1 DEF Goto, LeaderTypes
<1>2. \/ \E p \in Op : Refuse(p) \/ ReadLastIndex(p) \/ CallStep(p)
      \/ pc' = pc
  BY DEF Next, vars, OfficeChanges, StartPreCommit, SendPreCommit, FollowerAppend, PreCommitReply
<1>3. QED
  BY <1>1, <1>2

(* A step of the server. *)
LEMMA ServerKeeps ==
  ASSUME RequestTypes, RequestInv, LeaderTypes, ServerStep
  PROVE  RequestTypes' /\ RequestInv'
<1>1. /\ UNCHANGED <<leaderKnown, request>> /\ [Next]_vars
      /\ \A o \in Op : pc[o] = "idle" => request[o].out \/ pc'[o] = "idle"
  BY DEF ServerStep, gatewayVars
<1>2. \A o \in Op : pc[o] = "acked" => pc'[o] = "acked"
  BY <1>1, AckedStays
<1>3. ASSUME NEW key, NEW val, ShownFor(key, val) PROVE ShownFor(key, val)'
  <2>1. PICK p \in Op : Made(p) /\ \E w \in Writes(p) : w[1] = key /\ val = Shown(w[2])
    BY <1>3 DEF ShownFor
  <2>2. Made(p)'
    BY <1>1, <2>1, MadeStays
  <2>3. QED
    BY <2>1, <2>2 DEF ShownFor
<1>4. ASSUME NEW c \in Call PROVE Placed(c)' /\ ReadSound(c)'
  <2>1. Placed(c) /\ ReadSound(c) /\ request[c].seen \subseteq Op
    BY OneOf
  <2>2. Placed(c)'
    BY <1>1, <1>2, <2>1 DEF Placed
  <2>3. ReadSound(c)'
    BY <1>1, <1>2, <1>3, <2>1 DEF ReadSound
  <2>4. QED
    BY <2>2, <2>3
<1>5. QED
  BY <1>1, <1>4 DEF RequestTypes, RequestInv

(* The requests in every reachable state. *)
THEOREM RequestInvariant == RequestSpec => [](RequestTypes /\ RequestInv)
<1>1. RequestInit => RequestTypes /\ RequestInv
  <2> SUFFICES ASSUME RequestInit PROVE RequestTypes /\ RequestInv
    OBVIOUS
  <2> DEFINE new == [at |-> "idle", out |-> FALSE, g |-> MasterGateway, pw |-> 0,
                     code |-> "none", val |-> None, seen |-> {}]
  <2>1. /\ request = [c \in Call |-> new] /\ leaderKnown = [g \in Gateway |-> FALSE]
        /\ pc = [o \in Op |-> "idle"]
    BY DEF RequestInit, Init
  <2>2. new \in Request(None)
    BY RequestConstants DEF Request, Steps, Codes
  <2>3. /\ new.at = "idle" /\ ~new.out /\ new.code = "none" /\ new.seen = {}
    OBVIOUS
  <2> HIDE DEF new
  <2>4. RequestTypes
    BY <2>1, <2>2 DEF RequestTypes
  <2>5. RequestInv
    BY <2>1, <2>3 DEF RequestInv, Placed, ReadSound
  <2>6. QED
    BY <2>4, <2>5
<1>2. RequestTypes /\ RequestInv /\ PasswordInv /\ LeaderTypes /\ AckedVisible
        /\ [RequestNext]_requestVars => (RequestTypes /\ RequestInv)'
  <2> SUFFICES ASSUME RequestTypes, RequestInv, PasswordInv, LeaderTypes, AckedVisible,
                      [RequestNext]_requestVars
               PROVE  RequestTypes' /\ RequestInv'
    OBVIOUS
  <2>1. ASSUME NEW g \in Gateway, StopGateway(g) PROVE RequestTypes' /\ RequestInv'
    BY <2>1, StopStep
  <2>2. ASSUME NEW c \in Call, NEW g \in Gateway,
               NEW pw \in {0} \cup {password[h] : h \in Gateway}, Send(c, g, pw)
        PROVE  RequestTypes' /\ RequestInv'
    <3>1. pw \in Nat
      BY <2>2 DEF PasswordInv
    <3>2. QED
      BY <2>2, <3>1, SendStep
  <2>3. ASSUME NEW c \in Call, Handle(c) PROVE RequestTypes' /\ RequestInv'
    BY <2>3, HandleStep
  <2>4. ASSUME NEW c \in Call, Timeout(c) PROVE RequestTypes' /\ RequestInv'
    <3>1. Answer(c, "error", None) /\ UNCHANGED <<leaderKnown, pc>>
      BY <2>4 DEF Timeout, gatewayVars, vars
    <3>2. "error" \in Codes /\ "error" # "ok"
      BY DEF Codes
    <3>3. QED
      BY <3>1, <3>2, AnswerStep
  <2>5. ASSUME NEW c \in Call, Return(c) PROVE RequestTypes' /\ RequestInv'
    BY <2>5, ReturnStep
  <2>6. ASSUME NEW r \in Reader, ServeGet(r) PROVE RequestTypes' /\ RequestInv'
    BY <2>6, GetStep
  <2>7. CASE ServerStep
    BY <2>7, ServerKeeps
  <2>8. ASSUME UNCHANGED <<request, pc>>, leaderKnown' \in [Gateway -> BOOLEAN]
        PROVE  RequestTypes' /\ RequestInv'
    BY <2>8 DEF RequestTypes, RequestInv, Placed, ReadSound, ShownFor, Made
  <2>9. \/ \E g \in Gateway : StopGateway(g)
        \/ \E c \in Call :
             \/ \E g \in Gateway, pw \in {0} \cup {password[h] : h \in Gateway} : Send(c, g, pw)
             \/ Handle(c) \/ Timeout(c) \/ Return(c)
        \/ \E r \in Reader : ServeGet(r)
        \/ ServerStep
        \/ UNCHANGED <<request, pc>> /\ leaderKnown' \in [Gateway -> BOOLEAN]
    BY DEF RequestNext, requestVars, gatewayVars, vars, StartGateway, SetLeader, RequestTypes
  <2>10. QED
    BY <2>1, <2>2, <2>3, <2>4, <2>5, <2>6, <2>7, <2>8, <2>9
<1>3. QED
  BY <1>1, <1>2, PasswordInvariant, ServerIsLogReplication, WorkInvariant, AckedStaysVisible, PTL
     DEF RequestSpec

(* No more gateway processes than the bound. *)
StartsBounded == Len(drawnBy) <= MaxStarts

(* Every variable of clients and gateways has its range. *)
THEOREM RequestTypeCorrect == RequestSpec => []RequestTypeOK
<1>1. RequestInit => StartsBounded
  BY RequestConstants DEF RequestInit, StartsBounded
<1>2. PasswordInv /\ StartsBounded /\ [RequestNext]_requestVars => StartsBounded'
  <2> SUFFICES ASSUME PasswordInv, Len(drawnBy) <= MaxStarts, [RequestNext]_requestVars
               PROVE  Len(drawnBy') <= MaxStarts
    BY DEF StartsBounded
  <2>1. (\E g \in Gateway : StartGateway(g)) \/ drawnBy' = drawnBy
    BY DEF RequestNext, requestVars, gatewayVars, StopGateway, SetLeader, Send, Handle, Return,
           ServeGet, Timeout, ServerStep
  <2>2. ASSUME NEW g \in Gateway, StartGateway(g) PROVE Len(drawnBy') <= MaxStarts
    <3>1. Len(drawnBy') = Len(drawnBy) + 1 /\ Len(drawnBy) \in Nat /\ Len(drawnBy) < MaxStarts
      BY <2>2, StartAppends DEF StartGateway
    <3>2. QED
      BY <3>1, RequestConstants
  <2>3. QED
    BY <2>1, <2>2
<1>3. PasswordInv /\ RequestTypes /\ StartsBounded => RequestTypeOK
  <2> SUFFICES ASSUME PasswordInv, RequestTypes, StartsBounded PROVE RequestTypeOK
    OBVIOUS
  <2>1. \A g \in Gateway : password[g] \in 0 .. Len(drawnBy)
    BY DEF PasswordInv
  <2>2. password \in [Gateway -> 0 .. Len(drawnBy)]
    BY <2>1 DEF PasswordInv
  <2>3. ASSUME NEW c \in Call
        PROVE  /\ request[c].at \in {"idle", "sent", "waiting", "answered"}
               /\ request[c].out \in BOOLEAN /\ request[c].g \in Gateway /\ request[c].pw \in Nat
               /\ request[c].code \in Codes /\ request[c].seen \subseteq Op
    <3>1. PICK v : request[c] \in Request(v)
      BY DEF RequestTypes
    <3>2. QED
      BY <3>1 DEF Request, Steps
  <2>4. QED
    BY <2>2, <2>3 DEF RequestTypeOK, PasswordInv, RequestTypes, StartsBounded
<1>4. QED
  BY <1>1, <1>2, <1>3, PasswordInvariant, RequestInvariant, PTL DEF RequestSpec

(* What a client is told of a write holds of the store and the log: after  *)
(* success the key has what some call that the server took up writes to    *)
(* it, and a call that did not leave the gateway is not in the log.        *)
THEOREM AnswersAreHonest == RequestSpec => []HonestAnswers
<1>1. RequestInv /\ LeaderTypes /\ MadeInv /\ AckedVisible => HonestAnswers
  <2> SUFFICES ASSUME RequestInv, LeaderTypes, MadeInv, AckedVisible,
                      NEW c \in Op, request[c].at = "answered"
               PROVE  /\ request[c].code = "ok" => WrittenTo(KeyOf[c], data[KeyOf[c]])
                      /\ ~request[c].out =>
                            request[c].code # "ok" /\ \A i \in DOMAIN Logs : Logs[i].cmd # c
    BY DEF HonestAnswers
  <2>1. Placed(c)
    BY DEF RequestInv, Call
  <2>2. ASSUME request[c].code = "ok" PROVE WrittenTo(KeyOf[c], data[KeyOf[c]])
    BY <2>1, <2>2 DEF Placed, AckedVisible, WrittenTo
  <2>3. ASSUME ~request[c].out
        PROVE  request[c].code # "ok" /\ \A i \in DOMAIN Logs : Logs[i].cmd # c
    <3>1. request[c].code # "ok" /\ ~Made(c)
      BY <2>1, <2>3 DEF Placed, Made
    <3>2. DOMAIN Logs = 1 .. Len(Logs)
      BY DEF LeaderTypes
    <3>3. QED
      BY <3>1, <3>2 DEF MadeInv
  <2>4. QED
    BY <2>2, <2>3
<1>2. QED
  BY <1>1, RequestInvariant, ServerIsLogReplication, WorkInvariant, MadeInvariant,
     AckedStaysVisible, PTL

(* A Get called after a write of its key was answered OK answers with what *)
(* some call that the server took up writes to that key.                   *)
THEOREM ReadsSeeWrites == RequestSpec => []ReadsSeeAcked
<1>1. RequestInv => ReadsSeeAcked
  <2> SUFFICES ASSUME RequestInv, NEW r \in Reader, Ok(r),
                      \E w \in request[r].seen : KeyOf[w] = ReadKey[r]
               PROVE  \E p \in Op : \E w \in Writes(p) :
                        /\ pc[p] \notin {"idle", "refused"}
                        /\ w[1] = ReadKey[r] /\ request[r].val = Shown(w[2])
    BY DEF ReadsSeeAcked
  <2>1. ShownFor(ReadKey[r], request[r].val)
    BY DEF RequestInv, ReadSound, Ok, Call
  <2>2. QED
    BY <2>1 DEF ShownFor, Made
<1>2. QED
  BY <1>1, RequestInvariant, PTL

===============================================================================
