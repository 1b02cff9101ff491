------------------------------- MODULE RpcWire --------------------------------
(***************************************************************************)
(* One message of a call between two of the programs: it is written with   *)
(* the codec of one program, crosses a connection that may break and may   *)
(* come from a later version of the sender, and is read with the codec of  *)
(* the other.  The three programs have a generated copy of the codec each. *)
(***************************************************************************)
EXTENDS ThriftCodec, FiniteSets

S == INSTANCE ServerWire
G == INSTANCE GatewayWire
C == INSTANCE ClientWire

Codec == ("server" :> S!ServerTypes) @@ ("gateway" :> G!GatewayTypes)
           @@ ("client" :> C!ClientTypes)
Program == DOMAIN Codec

CONSTANT Messages  \* the names of the messages sent: arguments and results

ASSUME MessagesAssumption ==
  \A name \in Messages : \E p \in Program : name \in DOMAIN Codec[p]

VARIABLES
  route,  \* who writes, who reads, and which message
  sent,   \* the struct the sender has in memory
  wire,   \* the tokens on the connection
  fate,   \* what happened to them: "whole", "cut" or "extended"
  got     \* what FastRead returned

vars == <<route, sent, wire, fate, got>>

Unread == [read |-> FALSE]
NoRoute == [from |-> "none", to |-> "none", name |-> "none"]

Init ==
  /\ route = NoRoute
  /\ sent = NilValue
  /\ wire = <<>>
  /\ fate = "none"
  /\ got = Unread

----------------------------------------------------------------------------
(* The structs a sender may hold: every field nil or not, every scalar     *)
(* zero or not, lists of up to two elements.                               *)

RECURSIVE Ones(_, _)

Ones(types, type) ==
  CASE type[1] = "struct" ->
         Record([id \in DOMAIN types[type[2]].reader |-> Ones(types, types[type[2]].reader[id])])
    [] type[1] = "list" -> List(<<Ones(types, Elem(type))>>)
    [] OTHER -> Scalar(1)

RECURSIVE Structs(_, _), FieldValues(_, _)

FieldValues(types, type) ==
  CASE type[1] = "struct" -> {NilValue} \union Structs(types, type[2])
    [] type[1] = "list" ->
         LET one == FieldValues(types, Elem(type))
             two == {Zero(Elem(type)), Ones(types, Elem(type))}
         IN  {NilValue, List(<<>>)} \union {List(<<e>>) : e \in one}
               \union {List(<<e1, e2>>) : e1, e2 \in two}
    [] OTHER -> {Scalar(0), Scalar(1)}

Structs(types, name) ==
  LET With(done, f) == {d @@ (f.id :> v) : d \in done, v \in FieldValues(types, f.type)}
  IN  {Record(f) : f \in FoldLeft(With, {NoFields}, types[name].writer)}

----------------------------------------------------------------------------
(* The steps of a message                                                  *)

Write(from, to, name) ==
  /\ route = NoRoute
  /\ name \in DOMAIN Codec[from] \intersect DOMAIN Codec[to]
  /\ \E v \in Structs(Codec[from], name) :
       /\ sent' = v
       /\ wire' = WriteStruct(Codec[from], name, v)
  /\ route' = [from |-> from, to |-> to, name |-> name]
  /\ fate' = "whole"
  /\ UNCHANGED got

(* The connection ends before the message does. *)
Cut ==
  /\ fate = "whole" /\ got = Unread
  /\ \E n \in 0..(Len(wire) - 1) : wire' = SubSeq(wire, 1, n)
  /\ fate' = "cut"
  /\ UNCHANGED <<route, sent, got>>

(* Fields that no reader knows: by their id, or by their type. *)
Unknown ==
  { <<FieldHead(Str, 99), Plain(Scalar(1))>>,
    <<FieldHead(<<"double">>, 1), Plain(Scalar(1))>>,
    <<FieldHead(<<"struct">>, 99), FieldHead(I64, 1), Plain(Scalar(1)), Stop>>,
    <<FieldHead(<<"list">>, 99), ListHead(Str, 2), Plain(Scalar(1)), Plain(Scalar(0))>> }

(* A later version of the sender has one more field in some struct. *)
Extend ==
  /\ fate = "whole" /\ got = Unread
  /\ \E i \in {i \in DOMAIN wire : wire[i].token \in {"field", "stop"}}, u \in Unknown :
       wire' = SubSeq(wire, 1, i - 1) \o u \o SubSeq(wire, i, Len(wire))
  /\ fate' = "extended"
  /\ UNCHANGED <<route, sent, got>>

(* FastRead of the receiver. *)
Read ==
  /\ route # NoRoute /\ got = Unread
  /\ got' = ReadStruct(Codec[route.to], route.name, wire)
  /\ UNCHANGED <<route, sent, wire, fate>>

Next ==
  \/ \E from, to \in Program, name \in Messages : Write(from, to, name)
  \/ Cut
  \/ Extend
  \/ Read

Spec == Init /\ [][Next]_vars

----------------------------------------------------------------------------
(* Whatever a program has in memory and writes with FastWriteNocopy, the   *)
(* FastRead of any program's copy of the code gives the same struct back,  *)
(* nil structs as empty ones, and takes the message to its last token;     *)
(* fields it does not know, by id or by type and at any depth, make no     *)
(* difference.                                                             *)
RoundTrip ==
  LET types == Codec[route.from] IN
  got # Unread /\ fate # "cut" =>
    got = Good(Arrives(types, Struct(route.name), sent), <<>>)

(* A message that ends early, wherever it does, is an error of FastRead:   *)
(* it is never taken for a shorter message, a vote without a granted flag  *)
(* or a sync reply without its last entries.                               *)
CutRefused == got # Unread /\ fate = "cut" => got = Bad

============================================================================
