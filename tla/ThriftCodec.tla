----------------------------- MODULE ThriftCodec ------------------------------
(***************************************************************************)
(* The Thrift binary encoding as the generated FastRead and                *)
(* FastWriteNocopy of every message do it (kitex_gen, k-*.go).  They are   *)
(* the same code for all messages but for the fields, so they are written  *)
(* here once, over tables of fields.  BLength, which sizes the buffer from *)
(* a list of fields of its own, is taken to be right.                      *)
(*                                                                         *)
(* A message on the wire is a sequence of tokens: the head of a field (3   *)
(* bytes), the head of a list (5), a scalar, or the stop mark.  A struct   *)
(* in memory is Nil or a function from field ids to values, a scalar is 0, *)
(* the Go zero value, or 1.                                                *)
(***************************************************************************)
EXTENDS Naturals, SequencesExt

(* Types; the first element is the type on the wire. *)
I32 == <<"i32">>
I64 == <<"i64">>
Bool == <<"bool">>
Str == <<"string">>
Struct(name) == <<"struct", name>>
ListOf(type) == <<"list">> \o type

Field(id, type) == [id |-> id, type |-> type, optional |-> FALSE]
Optional(id, type) == [id |-> id, type |-> type, optional |-> TRUE]
NoFields == [i \in {} |-> I64]
Type(reader, writer) == [reader |-> reader, writer |-> writer]

Nil == "nil"
IsNil(v) == v = <<Nil>>
NilValue == <<Nil>>

(* Values are <<Nil>>, <<"scalar", x>>, <<"list", elements>> and           *)
(* <<"struct", function>>.                                                 *)
Scalar(x) == <<"scalar", x>>
List(s) == <<"list", s>>
Record(f) == <<"struct", f>>
Content(v) == v[2]

Elem(type) == Tail(type)

(* Tokens *)
FieldHead(type, id) == [token |-> "field", type |-> type[1], id |-> id]
ListHead(type, size) == [token |-> "list", type |-> type[1], size |-> size]
Plain(v) == [token |-> "scalar", value |-> Content(v)]
Stop == [token |-> "stop"]

----------------------------------------------------------------------------
(* Writing                                                                 *)

RECURSIVE WriteValue(_, _, _)

(* FastWriteNocopy: a nil struct is written as one without fields, and a   *)
(* nil field of a struct type as such a struct, unless it is optional.     *)
WriteStruct(types, name, v) ==
  LET Write(done, f) ==
        IF f.optional /\ IsNil(Content(v)[f.id]) THEN done
        ELSE done \o <<FieldHead(f.type, f.id)>> \o WriteValue(types, f.type, Content(v)[f.id])
  IN  IF IsNil(v) THEN <<Stop>>
      ELSE Append(FoldLeft(Write, <<>>, types[name].writer), Stop)

WriteValue(types, type, v) ==
  CASE type[1] = "struct" -> WriteStruct(types, type[2], v)
    [] type[1] = "list" ->
         LET elements == IF IsNil(v) THEN <<>> ELSE Content(v)
             Write(done, e) == done \o WriteValue(types, Elem(type), e)
         IN  <<ListHead(Elem(type), Len(elements))>> \o FoldLeft(Write, <<>>, elements)
    [] OTHER -> <<Plain(v)>>

----------------------------------------------------------------------------
(* Reading.  The result is the value and the tokens left, or Bad.          *)

Bad == [ok |-> FALSE]
Good(v, rest) == [ok |-> TRUE, v |-> v, rest |-> rest]

(* What a new message holds before anything is read. *)
Zero(type) == IF type[1] \in {"struct", "list"} THEN NilValue ELSE Scalar(0)
EmptyStruct(types, name) ==
  [id \in DOMAIN types[name].reader |-> Zero(types[name].reader[id])]

RECURSIVE SkipValue(_, _), SkipFields(_), SkipElements(_, _, _)

(* thrift.Binary.Skip: the tokens after a value of a type; Bad if there    *)
(* are not enough.                                                         *)
SkipValue(type, t) ==
  IF t = <<>> THEN Bad
  ELSE CASE type = "struct" -> SkipFields(t)
         [] type = "list" ->
              IF t[1].token # "list" THEN Bad ELSE SkipElements(t[1].type, t[1].size, Tail(t))
         [] OTHER -> IF t[1].token # "scalar" THEN Bad ELSE Good(NilValue, Tail(t))

SkipFields(t) ==
  IF t = <<>> THEN Bad
  ELSE CASE t[1].token = "stop" -> Good(NilValue, Tail(t))
         [] t[1].token = "field" ->
              LET r == SkipValue(t[1].type, Tail(t)) IN IF r.ok THEN SkipFields(r.rest) ELSE Bad
         [] OTHER -> Bad

SkipElements(type, n, t) ==
  IF n = 0 THEN Good(NilValue, t)
  ELSE LET r == SkipValue(type, t) IN IF r.ok THEN SkipElements(type, n - 1, r.rest) ELSE Bad

(* Faulty variant: the type of the field is not compared. *)
KnowsId(reader, head) == head.id \in DOMAIN reader

(* The case of a field in FastRead: its id, and the type that belongs to it. *)
Knows(reader, head) == head.id \in DOMAIN reader /\ reader[head.id][1] = head.type

RECURSIVE ReadValue(_, _, _), ReadFields(_, _, _, _), ReadElements(_, _, _, _, _)

(* One turn of the loop of FastRead: the field is read if it is known, and *)
(* skipped if not.                                                         *)
ReadField(types, name, f, t) ==
  LET reader == types[name].reader
      id == t[1].id
      known == Knows(reader, t[1])
      r == IF known THEN ReadValue(types, reader[id], Tail(t)) ELSE SkipValue(t[1].type, Tail(t))
  IN  IF r.ok THEN ReadFields(types, name, IF known THEN [f EXCEPT ![id] = r.v] ELSE f, r.rest)
      ELSE Bad

(* Faulty variant: the end of the buffer is taken for the stop mark. *)
ReadFieldsToEnd(types, name, f, t) ==
  IF t = <<>> THEN Good(Record(f), t)
  ELSE CASE t[1].token = "stop" -> Good(Record(f), Tail(t))
         [] t[1].token = "field" -> ReadField(types, name, f, t)
         [] OTHER -> Bad

(* The loop of FastRead, up to the stop mark. *)
ReadFields(types, name, f, t) ==
  IF t = <<>> THEN Bad
  ELSE CASE t[1].token = "stop" -> Good(Record(f), Tail(t))
         [] t[1].token = "field" -> ReadField(types, name, f, t)
         [] OTHER -> Bad

ReadStruct(types, name, t) == ReadFields(types, name, EmptyStruct(types, name), t)

(* A list is read by its size; the type of its elements on the wire is not *)
(* looked at.                                                              *)
ReadElements(types, type, n, done, t) ==
  IF n = 0 THEN Good(List(done), t)
  ELSE LET r == ReadValue(types, type, t)
       IN  IF r.ok THEN ReadElements(types, type, n - 1, Append(done, r.v), r.rest) ELSE Bad

ReadValue(types, type, t) ==
  IF t = <<>> THEN Bad
  ELSE CASE type[1] = "struct" -> ReadStruct(types, type[2], t)
         [] type[1] = "list" ->
              IF t[1].token # "list" THEN Bad
              ELSE ReadElements(types, Elem(type), t[1].size, <<>>, Tail(t))
         [] OTHER -> IF t[1].token # "scalar" THEN Bad ELSE Good(Scalar(t[1].value), Tail(t))

----------------------------------------------------------------------------
(* The reference: what should arrive.                                      *)

RECURSIVE Arrives(_, _, _)

(* A value as its reader should have it: a nil struct has become one with  *)
(* zero values throughout, a nil list an empty one; only what is optional  *)
(* stays nil.                                                              *)
Arrives(types, type, v) ==
  CASE type[1] = "struct" ->
         LET name == type[2]
             IsOptional(id) == \E i \in DOMAIN types[name].writer :
                                 types[name].writer[i] = Optional(id, types[name].reader[id])
         IN  Record([id \in DOMAIN types[name].reader |->
               IF IsNil(v) THEN Zero(types[name].reader[id])
               ELSE IF IsOptional(id) /\ IsNil(Content(v)[id]) THEN NilValue
               ELSE Arrives(types, types[name].reader[id], Content(v)[id])])
    [] type[1] = "list" ->
         List(IF IsNil(v) THEN <<>>
              ELSE [i \in DOMAIN Content(v) |-> Arrives(types, Elem(type), Content(v)[i])])
    [] OTHER -> v

============================================================================
