-------------------------------- MODULE Codec --------------------------------
(***************************************************************************)
(* How the generated code writes, measures and reads the messages.  What   *)
(* it has per message is a table; the operators after the tables read them.*)
(* A digit of a varint is a number below Base, in a unit below 2 * Base.   *)
(***************************************************************************)
EXTENDS Messages, TLC, SequencesExt

CONSTANT Base   \* of varints: 128

(* The tags of the messages, up to 26, are digits.                         *)
ASSUME MessageAssumption == Base \in Nat /\ Base > 26

------------------------------------------------------------------------------
(* _InternalParse: per tag, the field and how it is read.                  *)

RpcHeader_InternalParse ==
  (10 :> <<"service_name", "bytes">>) @@ (18 :> <<"method_name", "bytes">>)
  @@ (24 :> <<"args_len", "varint">>)
ReturnCode_InternalParse ==
  (8 :> <<"errcode", "varint">>) @@ (18 :> <<"errdesc", "bytes">>)
LoginRequest_InternalParse ==
  (10 :> <<"name", "bytes">>) @@ (18 :> <<"pwd", "bytes">>)
LoginResponse_InternalParse ==
  (10 :> <<"result", "ReturnCode">>) @@ (16 :> <<"sucess", "bool">>)
RegisterRequest_InternalParse ==
  (8 :> <<"id", "varint">>) @@ (18 :> <<"name", "bytes">>)
  @@ (26 :> <<"pwd", "bytes">>)
RegisterResponse_InternalParse ==
  (10 :> <<"result", "ReturnCode">>) @@ (16 :> <<"sucess", "bool">>)
GetFriendListsRequest_InternalParse == 8 :> <<"userId", "varint">>
GetFriendListsResponse_InternalParse ==
  (8 :> <<"success", "bool">>) @@ (18 :> <<"friends", "strings">>)

Tags ==
  [RpcHeader |-> RpcHeader_InternalParse,
   ReturnCode |-> ReturnCode_InternalParse,
   LoginRequest |-> LoginRequest_InternalParse,
   LoginResponse |-> LoginResponse_InternalParse,
   RegisterRequest |-> RegisterRequest_InternalParse,
   RegisterResponse |-> RegisterResponse_InternalParse,
   GetFriendListsRequest |-> GetFriendListsRequest_InternalParse,
   GetFriendListsResponse |-> GetFriendListsResponse_InternalParse]

------------------------------------------------------------------------------
(* _InternalSerialize: the fields in the order in which they are written.  *)

RpcHeader_InternalSerialize ==
  <<<<1, "service_name", "bytes">>, <<2, "method_name", "bytes">>,
    <<3, "args_len", "varint">>>>
ReturnCode_InternalSerialize ==
  <<<<1, "errcode", "varint">>, <<2, "errdesc", "bytes">>>>
LoginRequest_InternalSerialize == <<<<1, "name", "bytes">>, <<2, "pwd", "bytes">>>>
LoginResponse_InternalSerialize ==
  <<<<1, "result", "ReturnCode">>, <<2, "sucess", "bool">>>>
RegisterRequest_InternalSerialize ==
  <<<<1, "id", "varint">>, <<2, "name", "bytes">>, <<3, "pwd", "bytes">>>>
RegisterResponse_InternalSerialize ==
  <<<<1, "result", "ReturnCode">>, <<2, "sucess", "bool">>>>
GetFriendListsRequest_InternalSerialize == <<<<1, "userId", "varint">>>>
GetFriendListsResponse_InternalSerialize ==
  <<<<1, "success", "bool">>, <<2, "friends", "strings">>>>

Written ==
  [RpcHeader |-> RpcHeader_InternalSerialize,
   ReturnCode |-> ReturnCode_InternalSerialize,
   LoginRequest |-> LoginRequest_InternalSerialize,
   LoginResponse |-> LoginResponse_InternalSerialize,
   RegisterRequest |-> RegisterRequest_InternalSerialize,
   RegisterResponse |-> RegisterResponse_InternalSerialize,
   GetFriendListsRequest |-> GetFriendListsRequest_InternalSerialize,
   GetFriendListsResponse |-> GetFriendListsResponse_InternalSerialize]

------------------------------------------------------------------------------
(* ByteSizeLong: what is counted for each field.  A bool is two units.     *)

RpcHeader_ByteSizeLong ==
  [service_name |-> "bytes", method_name |-> "bytes", args_len |-> "varint"]
ReturnCode_ByteSizeLong == [errcode |-> "varint", errdesc |-> "bytes"]
LoginRequest_ByteSizeLong == [name |-> "bytes", pwd |-> "bytes"]
LoginResponse_ByteSizeLong == [result |-> "ReturnCode", sucess |-> "bool"]
idIsOneByte == [id |-> "bool", name |-> "bytes", pwd |-> "bytes"]   \* mutant
RegisterRequest_ByteSizeLong == [id |-> "varint", name |-> "bytes", pwd |-> "bytes"]
RegisterResponse_ByteSizeLong == [result |-> "ReturnCode", sucess |-> "bool"]
GetFriendListsRequest_ByteSizeLong == [userId |-> "varint"]
GetFriendListsResponse_ByteSizeLong == [success |-> "bool", friends |-> "strings"]

Counted ==
  [RpcHeader |-> RpcHeader_ByteSizeLong,
   ReturnCode |-> ReturnCode_ByteSizeLong,
   LoginRequest |-> LoginRequest_ByteSizeLong,
   LoginResponse |-> LoginResponse_ByteSizeLong,
   RegisterRequest |-> RegisterRequest_ByteSizeLong,
   RegisterResponse |-> RegisterResponse_ByteSizeLong,
   GetFriendListsRequest |-> GetFriendListsRequest_ByteSizeLong,
   GetFriendListsResponse |-> GetFriendListsResponse_ByteSizeLong]

------------------------------------------------------------------------------
(* Writing.                                                                *)

RECURSIVE Varint(_), VarintSize(_)
Varint(n) == IF n < Base THEN <<n>>
             ELSE <<Base + (n % Base)>> \o Varint(n \div Base)
VarintSize(n) == IF n < Base THEN 1 ELSE 1 + VarintSize(n \div Base)

Bytes(s) == Varint(Len(s)) \o s

(* A number that is 0 and an empty string are not written.                 *)
RECURSIVE Serialize(_, _)
Payloads(kind, v) ==
  CASE kind \in {"varint", "bool"} -> IF v = 0 THEN <<>> ELSE <<Varint(v)>>
    [] kind = "bytes" -> IF v = <<>> THEN <<>> ELSE <<Bytes(v)>>
    [] kind = "strings" -> [i \in DOMAIN v |-> Bytes(v[i])]
    [] kind = "ReturnCode" -> [i \in DOMAIN v |-> Bytes(Serialize(kind, v[i]))]

WireType(kind) == IF kind \in {"varint", "bool"} THEN 0 ELSE 2

WriteField(number, kind, v) ==
  LET tag == Varint((8 * number) + WireType(kind))
      p == Payloads(kind, v)
  IN FlattenSeq([i \in DOMAIN p |-> tag \o p[i]])

Serialize(T, m) ==
  LET w == Written[T]
  IN FlattenSeq([i \in DOMAIN w |-> WriteField(w[i][1], w[i][3], m[w[i][2]])])

(* A tag is counted as one unit.                                           *)
RECURSIVE ByteSizeLong(_, _)
BytesSize(n) == VarintSize(n) + n
FieldSize(kind, v) ==
  CASE kind = "bool" -> IF v = 0 THEN 0 ELSE 1 + 1
    [] kind = "varint" -> IF v = 0 THEN 0 ELSE 1 + VarintSize(v)
    [] kind = "bytes" -> IF v = <<>> THEN 0 ELSE 1 + BytesSize(Len(v))
    [] kind = "strings" ->
         FoldLeft(LAMBDA n, s : n + 1 + BytesSize(Len(s)), 0, v)
    [] kind = "ReturnCode" ->
         FoldLeft(LAMBDA n, rc : n + 1 + BytesSize(ByteSizeLong(kind, rc)), 0, v)

ByteSizeLong(T, m) ==
  FoldLeft(LAMBDA n, f : n + FieldSize(Counted[T][f], m[f]), 0,
           SetToSeq(DOMAIN Counted[T]))

------------------------------------------------------------------------------
(* Reading.                                                                *)

Failure == [ok |-> FALSE]
Read(v, rest) == [ok |-> TRUE, value |-> v, rest |-> rest]
From(s, i) == SubSeq(s, i, Len(s))

(* At most ten digits, the last of which says that it is.                  *)
ReadVarint(s) ==
  LET last == {i \in DOMAIN s : s[i] < Base /\ \A j \in 1 .. i - 1 : s[j] >= Base}
  IN IF last = {} \/ \E i \in last : i > 10 THEN Failure
     ELSE LET k == CHOOSE i \in last : TRUE
          IN Read(FoldRight(LAMBDA d, n : (n * Base) + (d % Base), SubSeq(s, 1, k), 0),
                  From(s, k + 1))

BoolOf(n) == IF n.ok THEN Read(IF n.value = 0 THEN 0 ELSE 1, n.rest) ELSE Failure
ReadBool(s) == BoolOf(ReadVarint(s))

StringOf(n) ==
  IF n.ok /\ n.value <= Len(n.rest)
  THEN Read(SubSeq(n.rest, 1, n.value), From(n.rest, n.value + 1)) ELSE Failure
ReadString(s) == StringOf(ReadVarint(s))

AddString(old, r) == IF r.ok THEN Read(Append(old, r.value), r.rest) ELSE Failure

RECURSIVE InternalParse(_, _, _)

(* A submessage that is there already is read into.                        *)
Submessage(m, rest) == IF m.ok THEN Read(<<m.value>>, rest) ELSE Failure
ReadMessage(T, old, r) ==
  IF r.ok
  THEN Submessage(InternalParse(T, IF old = <<>> THEN Defaults[T] ELSE old[1], r.value),
                  r.rest)
  ELSE Failure

ReadField(kind, old, s) ==
  CASE kind = "varint" -> ReadVarint(s)
    [] kind = "bool" -> ReadBool(s)
    [] kind = "bytes" -> ReadString(s)
    [] kind = "strings" -> AddString(old, ReadString(s))
    [] kind = "ReturnCode" -> ReadMessage(kind, old, ReadString(s))

(* A field the message does not have is put aside, where nobody looks.  A  *)
(* tag of 0, or one that ends a group, ends a message before its last unit *)
(* and so fails it; no message here has groups.                            *)
ReadFixed(n, s) ==
  IF n > Len(s) THEN Failure ELSE Read(SubSeq(s, 1, n), From(s, n + 1))

UnknownFieldParse(tag, s) ==
  CASE tag = 0 -> Failure
    [] tag % 8 = 0 -> ReadVarint(s)
    [] tag % 8 = 1 -> ReadFixed(8, s)
    [] tag % 8 = 2 -> ReadString(s)
    [] tag % 8 = 5 -> ReadFixed(4, s)
    [] OTHER -> Failure

(* What was read before a failure stays in the message.                    *)
Fails(m) == [ok |-> FALSE, value |-> m]

AfterField(T, m, field, v) ==
  IF v.ok THEN InternalParse(T, [m EXCEPT ![field] = v.value], v.rest) ELSE Fails(m)
AfterUnknown(T, m, u) == IF u.ok THEN InternalParse(T, m, u.rest) ELSE Fails(m)

AfterTag(T, m, tag) ==
  CASE ~tag.ok -> Fails(m)
    [] tag.ok /\ tag.value \in DOMAIN Tags[T] ->
         LET f == Tags[T][tag.value]
         IN AfterField(T, m, f[1], ReadField(f[2], m[f[1]], tag.rest))
    [] OTHER -> AfterUnknown(T, m, UnknownFieldParse(tag.value, tag.rest))

InternalParse(T, m, s) ==
  IF s = <<>> THEN Read(m, s) ELSE AfterTag(T, m, ReadVarint(s))

==============================================================================
