--------------------------- MODULE MembershipProofs ---------------------------
(***************************************************************************)
(* Proofs about Membership, for any set of followers, any number of calls  *)
(* under way at once and any number of restarts of the master.             *)
(***************************************************************************)
EXTENDS Membership, TLAPS

USE MembershipConstants

Address == Members

----------------------------------------------------------------------------
(* Lists.                                                                  *)

(* Contains is membership in the set of the list's items. *)
LEMMA ContainsIsIn ==
  ASSUME NEW S, NEW list \in Seq(S), NEW item
  PROVE  Contains(list, item) <=> item \in ToSet(list)
  BY DEF Contains, ToSet

(* AddServerHost and addUnique add an item once. *)
LEMMA WithItemFacts ==
  ASSUME NEW S, NEW list \in Seq(S), NEW item \in S, Distinct(list)
  PROVE  /\ WithItem(list, item) \in Seq(S)
         /\ Distinct(WithItem(list, item))
         /\ ToSet(WithItem(list, item)) = ToSet(list) \cup {item}
<1>1. CASE Contains(list, item)
  BY <1>1, ContainsIsIn DEF WithItem
<1>2. CASE ~Contains(list, item)
  <2> DEFINE longer == Append(list, item)
  <2>1. /\ longer \in Seq(S) /\ Len(longer) = Len(list) + 1 /\ Len(list) \in Nat
        /\ \A i \in 1 .. Len(list) : longer[i] = list[i]
        /\ longer[Len(list) + 1] = item
        /\ DOMAIN longer = 1 .. Len(list) + 1 /\ DOMAIN list = 1 .. Len(list)
    OBVIOUS
  <2>2. \A i \in 1 .. Len(list) : list[i] # item
    BY <1>2 DEF Contains
  <2> HIDE DEF longer
  <2>3. Distinct(longer)
    BY <2>1, <2>2 DEF Distinct
  <2>4. ToSet(longer) = ToSet(list) \cup {item}
    BY <2>1 DEF ToSet
  <2>5. QED
    BY <1>2, <2>1, <2>3, <2>4 DEF WithItem, longer
<1>3. QED
  BY <1>1, <1>2

(* The list in a HeartBeat's reply. *)
LEMMA ReplyPeersFacts ==
  ASSUME NEW hosts \in Seq(Host), NEW h \in Host, Distinct(hosts)
  PROVE  /\ ReplyPeers(hosts, h) \in Seq(Address)
         /\ Distinct(ReplyPeers(hosts, h))
         /\ ToSet(ReplyPeers(hosts, h)) \subseteq ToSet(hosts) \cup {Self, h}
         /\ ToSet(hosts) \cup {h} \subseteq ToSet(ReplyPeers(hosts, h))
<1> DEFINE some == IF Self # NoHost THEN WithItem(hosts, Self) ELSE hosts
<1>1. hosts \in Seq(Address) /\ h \in Address
  BY DEF Address, Members
<1>2. /\ some \in Seq(Address) /\ Distinct(some)
      /\ ToSet(some) \subseteq ToSet(hosts) \cup {Self} /\ ToSet(hosts) \subseteq ToSet(some)
  <2>1. CASE Self # NoHost
    <3>1. Self \in Address
      BY <2>1 DEF Address, Members
    <3>2. /\ WithItem(hosts, Self) \in Seq(Address) /\ Distinct(WithItem(hosts, Self))
          /\ ToSet(WithItem(hosts, Self)) = ToSet(hosts) \cup {Self}
      BY <1>1, <3>1, WithItemFacts
    <3>3. some = WithItem(hosts, Self)
      BY <2>1
    <3>4. QED
      BY <3>2, <3>3
  <2>2. CASE Self = NoHost
    BY <1>1, <2>2
  <2>3. QED
    BY <2>1, <2>2
<1>3. ReplyPeers(hosts, h) = WithItem(some, h)
  BY DEF ReplyPeers
<1> HIDE DEF some
<1>4. /\ WithItem(some, h) \in Seq(Address) /\ Distinct(WithItem(some, h))
      /\ ToSet(WithItem(some, h)) = ToSet(some) \cup {h}
  BY <1>1, <1>2, WithItemFacts
<1>5. QED
  BY <1>2, <1>3, <1>4

(* The stored list after AddServerHost. *)
LEMMA HostsWithFacts ==
  ASSUME NEW h \in Host, ServerHost \in Seq(Host), Distinct(ServerHost)
  PROVE  /\ HostsWith(h) \in Seq(Host) /\ Distinct(HostsWith(h))
         /\ ToSet(HostsWith(h)) = ToSet(ServerHost) \cup {h}
  BY WithItemFacts DEF HostsWith, WithItem

----------------------------------------------------------------------------
(* Types.                                                                  *)

Lists == {list \in Seq(Address) : Distinct(list)}

Calls ==
  [step : {"joinRead"}, host : Host]
    \cup [step : {"joinSet", "beatAdd", "beatSet", "reply"}, host : Host, peers : Lists]

(* TypeOK with the shape of handlers and lists spelled out: a handler only *)
(* ever holds a list without repetitions, so what SetPeers and a follower  *)
(* take from it has none either.                                           *)
ListInv ==
  /\ ServerHost \in Seq(Host) /\ Distinct(ServerHost)
  /\ Peers \in Lists
  /\ view \in [Host -> Lists]
  /\ handler \in [Handler -> Calls \cup {Free}]
  /\ waiting \in [Host -> Handler \cup {None}]
  /\ restarts \in 0 .. MaxRestarts /\ overlapped \in BOOLEAN

(* What a call is, by its step. *)
LEMMA CallFacts ==
  /\ Free.step = "free"
  /\ \A r \in Calls :
       /\ r # Free /\ r.host \in Host
       /\ r.step \in {"joinRead", "joinSet", "beatAdd", "beatSet", "reply"}
       /\ r.step # "joinRead" =>
            /\ r.peers \in Lists
            /\ \A st \in {"joinSet", "beatAdd", "beatSet", "reply"} :
                 /\ [r EXCEPT !.step = st] \in Calls
                 /\ [r EXCEPT !.step = st].step = st
                 /\ [r EXCEPT !.step = st].host = r.host
                 /\ [r EXCEPT !.step = st].peers = r.peers
  BY DEF Calls, Free

(* The empty list, and a stored one. *)
LEMMA ListFacts ==
  /\ <<>> \in Lists /\ Distinct(<<>>) /\ ToSet(<<>>) = {}
  /\ \A list \in Seq(Host) : Distinct(list) => list \in Lists
  BY DEF Lists, Distinct, ToSet, Address, Members

(* At the start all lists are empty and no call is under way. *)
LEMMA ListInit == Init => ListInv
<1> SUFFICES ASSUME Init PROVE ListInv
  OBVIOUS
<1> DEFINE empty == <<>>
<1>1. empty \in Seq(Host) /\ empty \in Lists /\ Distinct(empty)
  BY ListFacts
<1> HIDE DEF empty
<1>2. ServerHost = empty /\ Peers = empty /\ view = [h \in Host |-> empty]
  BY DEF Init, empty
<1>3. handler \in [Handler -> Calls \cup {Free}]
  BY DEF Init
<1>4. waiting \in [Host -> Handler \cup {None}]
  BY DEF Init
<1>5. restarts \in 0 .. MaxRestarts
  BY DEF Init
<1>6. overlapped \in BOOLEAN
  BY Zenon DEF Init
<1>7. view \in [Host -> Lists]
  BY <1>1, <1>2
<1>8. QED
  BY <1>1, <1>2, <1>3, <1>4, <1>5, <1>6, <1>7 DEF ListInv


(* Every step keeps the lists free of repetitions. *)
LEMMA ListStep == ListInv /\ [Next]_vars => ListInv'
<1> SUFFICES ASSUME ListInv, [Next]_vars PROVE ListInv'
  OBVIOUS
<1> USE DEF ListInv, SetHandler
<1>1. ASSUME NEW c \in Handler, NEW h \in Host,
                JoinCluster(c, h)
         PROVE  ListInv'
  <2>1. [step |-> "joinRead", host |-> h] \in Calls
    BY DEF Calls
  <2>2. QED
    BY <1>1, <2>1, HostsWithFacts DEF JoinCluster, Begins
<1>2. ASSUME NEW c \in Handler, NEW h \in Host, HeartBeat(c, h) PROVE ListInv'
  <2>1. ReplyPeers(ServerHost, h) \in Lists
    BY ReplyPeersFacts DEF Lists
  <2>2. \A st \in {"reply", "beatAdd"} :
          [step |-> st, host |-> h, peers |-> ReplyPeers(ServerHost, h)] \in Calls
    BY <2>1 DEF Calls
  <2>3. QED
    BY <1>2, <2>2 DEF HeartBeat, Begins
<1>3. ASSUME NEW c \in Handler, JoinRead(c) PROVE ListInv'
  <2>1. handler[c] \in Calls
    BY <1>3, CallFacts DEF JoinRead
  <2>2. [step |-> "joinSet", host |-> handler[c].host, peers |-> ServerHost] \in Calls
    BY <2>1, CallFacts, ListFacts DEF Calls
  <2>3. QED
    BY <1>3, <2>2 DEF JoinRead
<1>4. ASSUME NEW c \in Handler, JoinSet(c) PROVE ListInv'
  <2>1. handler[c] \in Calls
    BY <1>4, CallFacts DEF JoinSet
  <2>2. QED
    BY <1>4, <2>1, CallFacts DEF JoinSet
<1>5. ASSUME NEW c \in Handler, BeatAdd(c) PROVE ListInv'
  <2>1. handler[c] \in Calls
    BY <1>5, CallFacts DEF BeatAdd
  <2>2. QED
    BY <1>5, <2>1, CallFacts, HostsWithFacts DEF BeatAdd
<1>6. ASSUME NEW c \in Handler, BeatSet(c) PROVE ListInv'
  <2>1. handler[c] \in Calls
    BY <1>6, CallFacts DEF BeatSet
  <2>2. QED
    BY <1>6, <2>1, CallFacts DEF BeatSet
<1>7. ASSUME NEW c \in Handler, BeatReply(c) PROVE ListInv'
  <2>1. handler[c] \in Calls
    BY <1>7, CallFacts DEF BeatReply
  <2>2. handler[c].host \in Host /\ handler[c].peers \in Lists
    BY <1>7, <2>1, CallFacts DEF BeatReply
  <2>3. view' \in [Host -> Lists] /\ waiting' \in [Host -> Handler \cup {None}]
    BY <1>7, <2>2 DEF BeatReply
  <2>4. QED
    BY <1>7, <2>3 DEF BeatReply
<1>8. ASSUME NEW h \in Host, BeatTimeout(h) PROVE ListInv'
  BY <1>8 DEF BeatTimeout
<1>9. CASE RestartMaster
  <2> DEFINE empty == <<>>
  <2>1. empty \in Seq(Host) /\ empty \in Lists /\ Distinct(empty)
    BY ListFacts
  <2> HIDE DEF empty
  <2>2. ServerHost' = empty /\ Peers' = empty
    BY <1>9 DEF RestartMaster, empty
  <2>3. restarts' \in 0 .. MaxRestarts
    BY <1>9 DEF RestartMaster
  <2>4. overlapped' \in BOOLEAN
    BY <1>9, Zenon DEF RestartMaster
  <2>5. handler' \in [Handler -> Calls \cup {Free}] /\ waiting' \in [Host -> Handler \cup {None}]
    BY <1>9 DEF RestartMaster
  <2>6. QED
    BY <1>9, <2>1, <2>2, <2>3, <2>4, <2>5 DEF RestartMaster
<1>10. CASE UNCHANGED vars
  BY <1>10 DEF vars
<1>11. QED
  BY <1>1, <1>2, <1>3, <1>4, <1>5, <1>6, <1>7, <1>8, <1>9, <1>10 DEF Next,
     Handles

(* No list names a server twice, however the handlers interleave: neither  *)
(* the stored one nor Peers nor the one a follower counts votes with.      *)
THEOREM ListsCorrect == Spec => []TypeOK
<1>1. ListInv => TypeOK
  <2> SUFFICES ASSUME ListInv PROVE TypeOK
    OBVIOUS
  <2>1. \A S : \A list \in Seq(S) : ToSet(list) \subseteq S
    BY DEF ToSet
  <2>2. \A list \in Lists : ToSet(list) \subseteq Members /\ Distinct(list)
    BY <2>1 DEF Lists, Address
  <2>3. \A c \in Handler :
          handler[c].step \in {"free", "joinRead", "joinSet", "beatAdd", "beatSet", "reply"}
    <3> SUFFICES ASSUME NEW c \in Handler
                 PROVE  handler[c].step \in {"free", "joinRead", "joinSet", "beatAdd",
                                             "beatSet", "reply"}
      OBVIOUS
    <3>1. handler[c] \in Calls \/ handler[c] = Free
      BY DEF ListInv
    <3>2. QED
      BY <3>1, CallFacts
  <2>4. ToSet(ServerHost) \subseteq Host
    BY <2>1 DEF ListInv
  <2>5. QED
    BY <2>2, <2>3, <2>4 DEF ListInv, TypeOK
<1>2. QED
  BY <1>1, ListInit, ListStep, PTL DEF Spec

----------------------------------------------------------------------------
(* Members.                                                                *)

(* What each handler's copy of the list has to do with the stored list.    *)
CopyInv(c) ==
  LET r == handler[c] IN
  /\ r.step = "joinRead" => r.host \in ToSet(ServerHost)
  /\ r.step \in {"joinSet", "beatAdd", "beatSet"} => r.host \in ToSet(r.peers)
  /\ r.step \in {"joinSet", "beatSet"} =>
       ToSet(r.peers) \subseteq ToSet(ServerHost) \cup {Self}
  /\ r.step = "beatAdd" => ToSet(r.peers) \subseteq ToSet(ServerHost) \cup {Self, r.host}

MemberInv ==
  /\ ToSet(Peers) \subseteq ToSet(ServerHost) \cup {Self}
  /\ \A c \in Handler : CopyInv(c)

(* As long as calls of two hosts have not overlapped, all calls under way  *)
(* are of one host, no copy misses a member, and a member replication does *)
(* not know yet is the caller of a handler that has SetPeers before it.    *)
CompleteInv ==
  ~overlapped =>
    /\ \A c, d \in Handler :
         handler[c] # Free /\ handler[d] # Free => handler[c].host = handler[d].host
    /\ \A c \in Handler :
         handler[c].step \in {"joinSet", "beatAdd", "beatSet"} =>
           ToSet(ServerHost) \subseteq ToSet(handler[c].peers)
    /\ \A x \in ToSet(ServerHost) \ ToSet(Peers) : \E c \in Handler :
         handler[c].step \in {"joinRead", "joinSet", "beatSet"} /\ handler[c].host = x

(* Every step keeps copies within the members. *)
LEMMA MemberStep == ListInv /\ MemberInv /\ [Next]_vars => MemberInv'
<1> SUFFICES ASSUME ListInv, MemberInv, [Next]_vars PROVE MemberInv'
  OBVIOUS
<1> USE DEF ListInv, SetHandler, MemberInv, CopyInv
<1>1. ASSUME NEW c \in Handler, NEW h \in Host,
                JoinCluster(c, h)
         PROVE  MemberInv'
  <2>1. ToSet(ServerHost)' = ToSet(ServerHost) \cup {h}
    BY <1>1, HostsWithFacts DEF JoinCluster
  <2>2. handler'[c] = [step |-> "joinRead", host |-> h]
    BY <1>1 DEF JoinCluster, Begins
  <2>3. \A d \in Handler : d # c => handler'[d] = handler[d]
    BY <1>1 DEF JoinCluster, Begins
  <2>4. QED
    BY <1>1, <2>1, <2>2, <2>3 DEF JoinCluster
<1>2. ASSUME NEW c \in Handler, NEW h \in Host,
                HeartBeat(c, h)
         PROVE  MemberInv'
  <2>1. /\ ToSet(ReplyPeers(ServerHost, h)) \subseteq ToSet(ServerHost) \cup {Self, h}
        /\ ToSet(ServerHost) \cup {h} \subseteq ToSet(ReplyPeers(ServerHost, h))
    BY ReplyPeersFacts
  <2>2. /\ handler'[c].step \in {"reply", "beatAdd"}
        /\ handler'[c].host = h /\ handler'[c].peers = ReplyPeers(ServerHost, h)
    BY <1>2 DEF HeartBeat, Begins
  <2>3. \A d \in Handler : d # c => handler'[d] = handler[d]
    BY <1>2 DEF HeartBeat, Begins
  <2>4. QED
    BY <1>2, <2>1, <2>2, <2>3 DEF HeartBeat
<1>3. ASSUME NEW c \in Handler, JoinRead(c) PROVE MemberInv'
  BY <1>3 DEF JoinRead
<1>4. ASSUME NEW c \in Handler, JoinSet(c) PROVE MemberInv'
  BY <1>4, CallFacts DEF JoinSet
<1>5. ASSUME NEW c \in Handler, BeatAdd(c) PROVE MemberInv'
  <2>1. handler[c] \in Calls
    BY <1>5, CallFacts DEF BeatAdd
  <2>2. ToSet(ServerHost)' = ToSet(ServerHost) \cup {handler[c].host}
    BY <1>5, <2>1, CallFacts, HostsWithFacts DEF BeatAdd
  <2>3. /\ handler'[c].step = "beatSet" /\ handler'[c].host = handler[c].host
        /\ handler'[c].peers = handler[c].peers
    BY <1>5, <2>1, CallFacts DEF BeatAdd
  <2>4. \A d \in Handler : d # c => handler'[d] = handler[d]
    BY <1>5 DEF BeatAdd
  <2>5. QED
    BY <1>5, <2>2, <2>3, <2>4 DEF BeatAdd
<1>6. ASSUME NEW c \in Handler, BeatSet(c) PROVE MemberInv'
  <2>1. handler[c] \in Calls
    BY <1>6, CallFacts DEF BeatSet
  <2>2. handler'[c].step = "reply"
    BY <1>6, <2>1, CallFacts DEF BeatSet
  <2>3. QED
    BY <1>6, <2>1, <2>2 DEF BeatSet
<1>7. ASSUME NEW c \in Handler, BeatReply(c) PROVE MemberInv'
  BY <1>7, CallFacts DEF BeatReply
<1>8. ASSUME NEW h \in Host, BeatTimeout(h) PROVE MemberInv'
  BY <1>8 DEF BeatTimeout
<1>9. CASE RestartMaster
  BY <1>9, CallFacts, ListFacts DEF RestartMaster
<1>10. CASE UNCHANGED vars
  BY <1>10 DEF vars
<1>11. QED
  BY <1>1, <1>2, <1>3, <1>4, <1>5, <1>6, <1>7, <1>8, <1>9, <1>10 DEF Next,
     Handles

(* MemberInv holds in every reachable state. *)
THEOREM MemberInvariant == Spec => [](ListInv /\ MemberInv)
<1>1. Init => MemberInv
  BY ListFacts, CallFacts DEF Init, MemberInv, CopyInv
<1>2. QED
  BY <1>1, ListInit, ListStep, MemberStep, PTL DEF Spec

(* Replication never sends to a server that is not stored: a copy taken    *)
(* under one lock and written under another may be old, never invented.    *)
THEOREM PeersStayMembers == Spec => []PeersAreMembers
<1>1. MemberInv => PeersAreMembers
  BY DEF MemberInv, CopyInv, PeersAreMembers
<1>2. QED
  BY <1>1, MemberInvariant, PTL

(* Every step keeps the copies complete while no calls of two hosts overlap. *)
LEMMA CompleteStep ==
  ListInv /\ MemberInv /\ CompleteInv /\ [Next]_vars => CompleteInv'
<1> SUFFICES ASSUME ListInv, MemberInv, CompleteInv, [Next]_vars
             PROVE  CompleteInv'
  OBVIOUS
<1> USE DEF ListInv, SetHandler, MemberInv, CopyInv, CompleteInv
<1>1. ASSUME NEW c \in Handler, NEW h \in Host,
                JoinCluster(c, h)
         PROVE  CompleteInv'
  <2>1. ToSet(ServerHost)' = ToSet(ServerHost) \cup {h}
    BY <1>1, HostsWithFacts DEF JoinCluster
  <2>2. handler'[c] = [step |-> "joinRead", host |-> h]
    BY <1>1 DEF JoinCluster, Begins
  <2>3. \A d \in Handler : d # c => handler'[d] = handler[d]
    BY <1>1 DEF JoinCluster, Begins
  <2>4. ~overlapped' => /\ ~overlapped
                        /\ \A d \in Handler : handler[d] # Free => handler[d].host = h
    BY <1>1 DEF JoinCluster, Begins
  <2>5. handler[c] = Free /\ Peers' = Peers
    BY <1>1 DEF JoinCluster, Begins
  <2> SUFFICES ASSUME ~overlapped' PROVE CompleteInv'
    OBVIOUS
  <2>6. \A d \in Handler : handler'[d] # Free => handler'[d].host = h
    BY <2>2, <2>3, <2>4
  <2>7. ASSUME NEW d \in Handler, handler'[d].step \in {"joinSet", "beatAdd", "beatSet"}
        PROVE  ToSet(ServerHost)' \subseteq ToSet(handler'[d].peers)
    <3>1. d # c /\ handler'[d] = handler[d]
      BY <2>2, <2>3, <2>7
    <3>2. handler[d] # Free
      BY <2>7, <3>1, CallFacts
    <3>3. handler[d].host = h /\ h \in ToSet(handler[d].peers)
      BY <2>4, <2>7, <3>1, <3>2
    <3>4. ToSet(ServerHost) \subseteq ToSet(handler[d].peers)
      BY <2>4, <2>7, <3>1
    <3>5. QED
      BY <2>1, <3>1, <3>3, <3>4
  <2>8. ASSUME NEW x \in ToSet(ServerHost)' \ ToSet(Peers)'
        PROVE  \E d \in Handler : /\ handler'[d].step \in {"joinRead", "joinSet", "beatSet"}
                                  /\ handler'[d].host = x
    <3>1. CASE x = h
      BY <2>2, <3>1
    <3>2. CASE x # h
      <4>1. x \in ToSet(ServerHost) \ ToSet(Peers)
        BY <2>1, <2>5, <2>8, <3>2
      <4>2. PICK d \in Handler : /\ handler[d].step \in {"joinRead", "joinSet", "beatSet"}
                                 /\ handler[d].host = x
        BY <2>4, <4>1
      <4>3. d # c
        BY <2>5, <4>2, CallFacts
      <4>4. QED
        BY <2>3, <4>2, <4>3
    <3>3. QED
      BY <3>1, <3>2
  <2>9. QED
    BY <2>6, <2>7, <2>8
<1>2. ASSUME NEW c \in Handler, NEW h \in Host,
                HeartBeat(c, h)
         PROVE  CompleteInv'
  <2>1. /\ ToSet(ReplyPeers(ServerHost, h)) \subseteq ToSet(ServerHost) \cup {Self, h}
        /\ ToSet(ServerHost) \cup {h} \subseteq ToSet(ReplyPeers(ServerHost, h))
    BY ReplyPeersFacts
  <2>2. /\ handler'[c].step \in {"reply", "beatAdd"}
        /\ handler'[c].host = h /\ handler'[c].peers = ReplyPeers(ServerHost, h)
    BY <1>2 DEF HeartBeat, Begins
  <2>3. \A d \in Handler : d # c => handler'[d] = handler[d]
    BY <1>2 DEF HeartBeat, Begins
  <2>4. ~overlapped' => /\ ~overlapped
                        /\ \A d \in Handler : handler[d] # Free => handler[d].host = h
    BY <1>2 DEF HeartBeat, Begins
  <2>5. handler[c] = Free
    BY <1>2 DEF HeartBeat, Begins
  <2>6. SUFFICES ASSUME ~overlapped' PROVE CompleteInv'
    OBVIOUS
  <2>7. \A d \in Handler : handler[d] # Free => handler[d].host = h
    BY <2>4, <2>6
  <2>8. /\ ToSet(ServerHost)' = ToSet(ServerHost) /\ ToSet(Peers)' = ToSet(Peers)
        /\ CompleteInv /\ ~overlapped
    BY <1>2, <2>4, <2>6 DEF HeartBeat
  <2>9. \A d, e \in Handler :
          handler'[d] # Free /\ handler'[e] # Free => handler'[d].host = handler'[e].host
    BY <2>2, <2>3, <2>7
  <2>10. \A d \in Handler :
           handler'[d].step \in {"joinSet", "beatAdd", "beatSet"} =>
             ToSet(ServerHost) \subseteq ToSet(handler'[d].peers)
    BY <2>1, <2>2, <2>3, <2>8
  <2>11. \A x \in ToSet(ServerHost) \ ToSet(Peers) : \E d \in Handler :
           handler'[d].step \in {"joinRead", "joinSet", "beatSet"} /\ handler'[d].host = x
    BY <2>3, <2>5, <2>8, CallFacts
  <2>12. QED
    BY <2>8, <2>9, <2>10, <2>11
<1>3. ASSUME NEW c \in Handler, JoinRead(c) PROVE CompleteInv'
  BY <1>3, CallFacts DEF JoinRead
<1>4. ASSUME NEW c \in Handler, JoinSet(c) PROVE CompleteInv'
  BY <1>4, CallFacts DEF JoinSet
<1>5. ASSUME NEW c \in Handler, BeatAdd(c) PROVE CompleteInv'
  <2>1. handler[c] \in Calls
    BY <1>5, CallFacts DEF BeatAdd
  <2>2. ToSet(ServerHost)' = ToSet(ServerHost) \cup {handler[c].host}
    BY <1>5, <2>1, CallFacts, HostsWithFacts DEF BeatAdd
  <2>3. /\ handler'[c].step = "beatSet" /\ handler'[c].host = handler[c].host
        /\ handler'[c].peers = handler[c].peers
    BY <1>5, <2>1, CallFacts DEF BeatAdd
  <2>4. \A d \in Handler : d # c => handler'[d] = handler[d]
    BY <1>5 DEF BeatAdd
  <2>5. QED
    BY <1>5, <2>1, <2>2, <2>3, <2>4, CallFacts DEF BeatAdd
<1>6. ASSUME NEW c \in Handler, BeatSet(c) PROVE CompleteInv'
  <2>1. handler[c] \in Calls
    BY <1>6, CallFacts DEF BeatSet
  <2>2. handler'[c].step = "reply" /\ handler'[c].host = handler[c].host
    BY <1>6, <2>1, CallFacts DEF BeatSet
  <2>3. \A d \in Handler : d # c => handler'[d] = handler[d]
    BY <1>6 DEF BeatSet
  <2>4. ~overlapped => ToSet(ServerHost) \subseteq ToSet(Peers)'
    BY <1>6 DEF BeatSet
  <2>5. ToSet(ServerHost)' = ToSet(ServerHost) /\ (overlapped' <=> overlapped)
    BY <1>6 DEF BeatSet
  <2>6. handler[c] # Free
    BY <2>1, CallFacts
  <2>7. QED
    BY <2>2, <2>3, <2>4, <2>5, <2>6
<1>7. ASSUME NEW c \in Handler, BeatReply(c) PROVE CompleteInv'
  BY <1>7, CallFacts DEF BeatReply
<1>8. ASSUME NEW h \in Host, BeatTimeout(h) PROVE CompleteInv'
  BY <1>8 DEF BeatTimeout
<1>9. CASE RestartMaster
  BY <1>9, CallFacts, ListFacts DEF RestartMaster
<1>10. CASE UNCHANGED vars
  BY <1>10 DEF vars
<1>11. QED
  BY <1>1, <1>2, <1>3, <1>4, <1>5, <1>6, <1>7, <1>8, <1>9, <1>10 DEF Next,
     Handles

(* Replication knows every member whenever no call is under way, provided  *)
(* calls of two hosts never overlapped since the master's last start.      *)
THEOREM PeersStayComplete == Spec => []PeersComplete
<1>1. Init => CompleteInv
  BY ListFacts, CallFacts DEF Init, CompleteInv
<1>2. ListInv /\ CompleteInv => PeersComplete
  BY CallFacts DEF ListInv, CompleteInv, PeersComplete, Quiet
<1>3. QED
  BY <1>1, <1>2, CompleteStep, MemberInvariant, PTL DEF Spec

=============================================================================
