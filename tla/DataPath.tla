------------------------------- MODULE DataPath -------------------------------
(***************************************************************************)
(* What becomes of the data of remote calls: a caller fills a request and  *)
(* gives it to a stub; CallMethod puts a size and a header before it; the  *)
(* provider takes them apart, runs the method of a service and sends the   *)
(* response back (jhRpcChannel.cc, rpcprovider.cc, the generated code of   *)
(* user.proto, friend.proto and rpcheader.proto, the example services).    *)
(*                                                                         *)
(* Module RpcCall has the failures of the connection; here a connection is *)
(* made and does not fail, but cuts what it carries anywhere.  The caller  *)
(* makes one call after the other and uses the objects of a method again.  *)
(***************************************************************************)
EXTENDS Messages, SequencesExt

CONSTANTS
  Unit,       \* how many values a unit has: 256
  SerializeToString(_, _), ByteSize(_, _), MergeFromString(_, _, _),
              \* how messages are written, measured and read: module Codec
  Text,       \* the units of each string of the program, "empty" the one of none
  Asks,       \* what callers ask for: method and values of the fields
  MaxCalls,   \* bound on the calls made
  RecvLen     \* sizeof rcv_buffer

ASSUME DataAssumption ==
  /\ {Unit, MaxCalls, RecvLen} \subseteq Nat \ {0}
  /\ \A s, t \in DOMAIN Text : Text[s] = Text[t] => s = t
  /\ {"empty", "ljh", "12345", "123456", "something_error", "UserServiceRpc",
      "friendServiceRpc", "Login", "Register", "GetFriendLists"}
       \subseteq DOMAIN Text
  /\ Asks \subseteq
       [method : {"Login"}, name : DOMAIN Text, pwd : DOMAIN Text]
         \union [method : {"Register"}, id : Nat, name : DOMAIN Text, pwd : DOMAIN Text]
         \union [method : {"GetFriendLists"}, userId : Nat]

------------------------------------------------------------------------------
(* The descriptors, stubs and service classes that protoc generates.       *)

descriptor == [UserServiceRpc |-> <<"Login", "Register">>,
               friendServiceRpc |-> <<"GetFriendLists">>]

swappedStub == [Login |-> 1, Register |-> 0]                        \* mutant
UserServiceRpc_Stub == [Login |-> 0, Register |-> 1]
friendServiceRpc_Stub == [GetFriendLists |-> 0]

UserServiceRpc_GetRequestPrototype == <<"LoginRequest", "RegisterRequest">>
UserServiceRpc_GetResponsePrototype == <<"LoginResponse", "RegisterResponse">>
friendServiceRpc_GetRequestPrototype == <<"GetFriendListsRequest">>
friendServiceRpc_GetResponsePrototype == <<"GetFriendListsResponse">>

serviceOf(m) == IF m = "GetFriendLists" THEN "friendServiceRpc" ELSE "UserServiceRpc"
Methods == {"Login", "Register", "GetFriendLists"}

GetRequestPrototype(s, index) ==
  IF s = "UserServiceRpc" THEN UserServiceRpc_GetRequestPrototype[index + 1]
  ELSE friendServiceRpc_GetRequestPrototype[index + 1]
GetResponsePrototype(s, index) ==
  IF s = "UserServiceRpc" THEN UserServiceRpc_GetResponsePrototype[index + 1]
  ELSE friendServiceRpc_GetResponsePrototype[index + 1]

------------------------------------------------------------------------------
(* The services of the examples, each given a new response.                *)

withResult(r, code, desc) ==
  [r EXCEPT !.result =
     <<ReturnCode_set_errdesc(ReturnCode_set_errcode(@[1], code), Text[desc])>>]

UserService_Login(request, response) ==
  LoginResponse_set_sucess(
    withResult(LoginResponse_mutable_result(response), 0, "empty"), 1)

Register(id, name, pwd) == id = 199 /\ name = Text["ljh"] /\ pwd = Text["12345"]

UserService_Register(request, response) ==
  LET r == RegisterResponse_mutable_result(response)
  IN IF Register(request.id, request.name, request.pwd)
     THEN RegisterResponse_set_sucess(withResult(r, 0, "empty"), 1)
     ELSE RegisterResponse_set_sucess(withResult(r, 1, "something_error"), 0)

friendsOf(userId) ==
  CASE userId = 31866 -> <<"ljh", "dsad", "bobo">>
    [] userId = 12333 -> <<"alice", "momo", "nafei">>
    [] OTHER -> <<>>

friendService_GetFriendLists(request, response) ==
  LET list == friendsOf(request.userId)
      set == GetFriendListsResponse_set_success(response, IF list = <<>> THEN 0 ELSE 1)
  IN FoldLeft(LAMBDA r, one : GetFriendListsResponse_add_friends(r, Text[one]),
              set, list)

UserServiceRpc_CallMethod(index, request, response) ==
  IF index = 0 THEN UserService_Login(request, response)
  ELSE UserService_Register(request, response)
friendServiceRpc_CallMethod(index, request, response) ==
  friendService_GetFriendLists(request, response)

Service_CallMethod(s, index, request, response) ==
  IF s = "UserServiceRpc" THEN UserServiceRpc_CallMethod(index, request, response)
  ELSE friendServiceRpc_CallMethod(index, request, response)

------------------------------------------------------------------------------
(* What the caller sends, and what it should get.                          *)

RequestType == [Login |-> "LoginRequest", Register |-> "RegisterRequest",
                GetFriendLists |-> "GetFriendListsRequest"]
ResponseType == [Login |-> "LoginResponse", Register |-> "RegisterResponse",
                 GetFriendLists |-> "GetFriendListsResponse"]

(* What the caller fills in of a request object that it uses again.        *)
fill(ask, old) ==
  CASE ask.method = "Login" ->
         LoginRequest_set_pwd(LoginRequest_set_name(old, Text[ask.name]), Text[ask.pwd])
    [] ask.method = "Register" ->
         RegisterRequest_set_pwd(
           RegisterRequest_set_name(RegisterRequest_set_id(old, ask.id), Text[ask.name]),
           Text[ask.pwd])
    [] ask.method = "GetFriendLists" ->
         GetFriendListsRequest_set_userid(old, ask.userId)

(* What the stub's method hands to CallMethod: a descriptor.               *)
index(m) == IF m \in DOMAIN UserServiceRpc_Stub THEN UserServiceRpc_Stub[m]
            ELSE friendServiceRpc_Stub[m]

header(s, method, n) ==
  RpcHeader_set_args_len(
    RpcHeader_set_method_name(
      RpcHeader_set_service_name(RpcHeader_SharedCtor, Text[s]), Text[method]), n)

Uint32 == Unit * Unit * Unit * Unit

(* A uint32 in memory, the lowest unit first.                              *)
digit(n, i) == CASE i = 0 -> n % Unit
                 [] i = 1 -> (n \div Unit) % Unit
                 [] i = 2 -> ((n \div Unit) \div Unit) % Unit
                 [] i = 3 -> ((n \div Unit) \div Unit) \div Unit
htonl(n) == <<digit(n, 3), digit(n, 2), digit(n, 1), digit(n, 0)>>    \* mutant
uint32(n) == <<digit(n, 0), digit(n, 1), digit(n, 2), digit(n, 3)>>

Answer(m, r) ==
  CASE m = "Login" -> UserService_Login(r, LoginResponse_SharedCtor)
    [] m = "Register" -> UserService_Register(r, RegisterResponse_SharedCtor)
    [] m = "GetFriendLists" ->
         friendService_GetFriendLists(r, GetFriendListsResponse_SharedCtor)

ParseFrom(T, m, s) == MergeFromString(T, Clear(T, m), s)

(* What is written of a message m is read back into a new object.          *)
ReadBack(T, m) ==
  LET s == SerializeToString(T, m)
      r == MergeFromString(T, Defaults[T], s)
  IN s \in Seq(0 .. Unit - 1) /\ r.ok /\ r.value = m

(* So it is for the messages of the program, whose headers are shorter     *)
(* than a uint32 can say.                                                  *)
ASSUME CodecAssumption ==
  \A ask \in Asks :
    LET m == ask.method
        r == fill(ask, Defaults[RequestType[m]])
    IN /\ ReadBack(RequestType[m], r)
       /\ ReadBack(ResponseType[m], Answer(m, r))
       /\ \A s \in DOMAIN descriptor : \A i \in DOMAIN descriptor[s] :
            LET h == header(s, descriptor[s][i], Len(SerializeToString(RequestType[m], r)))
            IN /\ ReadBack("RpcHeader", h)
               /\ 4 + Len(SerializeToString("RpcHeader", h)) < Uint32

------------------------------------------------------------------------------
VARIABLES
  request,   \* the caller's request object of each method
  response,  \* its response object of each method
  calls,     \* the calls made: the method and the request
  wire,      \* per call, the units the provider has not read
  reply,     \* per call, what SendRpcResponse sent, <<>> before; one reply
  up,        \* is the provider's process alive?
  ran,       \* history: per call, the service, method and request it ran
  cut,       \* history: the calls whose request came in more than one read
  dropped,   \* history: the calls of which a string was dropped
  got,       \* per call, the units that recv returned
  status     \* of the last call: "waits", "ok", "failed"

caller == <<request, response, calls, got, status>>
provider == <<reply, up, ran, cut, dropped>>
dataVars == <<caller, wire, provider>>

Sent == 1 .. Len(calls)
last == Len(calls)

Slots == 1 .. MaxCalls
none == [c \in Slots |-> <<>>]

DataInit ==
  /\ request = [m \in Methods |-> Defaults[RequestType[m]]]
  /\ response = [m \in Methods |-> Defaults[ResponseType[m]]]
  /\ calls = <<>> /\ wire = none /\ reply = none /\ ran = none /\ got = none
  /\ up = TRUE /\ cut = {} /\ dropped = {} /\ status = "none"

------------------------------------------------------------------------------
(* The caller.                                                             *)

message(m, r) ==
  LET args == SerializeToString(RequestType[m], r)
      s == serviceOf(m)
      headers == SerializeToString("RpcHeader",
                                   header(s, descriptor[s][index(m) + 1], Len(args)))
  IN (uint32(Len(headers)) \o headers) \o args

CallMethod(ask) ==
  LET m == ask.method
      filled == fill(ask, request[m])
  IN /\ status # "waits" /\ up /\ last < MaxCalls
     /\ request' = [request EXCEPT ![m] = filled]
     /\ calls' = Append(calls, [method |-> m, request |-> filled])
     /\ wire' = [wire EXCEPT ![last + 1] = message(m, filled)]
     /\ status' = "waits"
     /\ UNCHANGED <<response, got, provider>>

answers == ran[last] # <<>>
ParseFromArray(m, s) == ParseFrom(ResponseType[m], response[m], s)

prefixes(r, max) ==
  {SubSeq(r, 1, n) : n \in 1 .. IF Len(r) < max THEN Len(r) ELSE max}

(* One recv of what has arrived, of nothing after the provider's FIN.      *)
received == IF answers /\ reply[last] # <<>> THEN prefixes(reply[last], RecvLen)
            ELSE IF answers \/ ~up THEN {<<>>} ELSE {}

recv ==
  /\ status = "waits"
  /\ \E s \in received :
       LET m == calls[last].method
           r == ParseFromArray(m, s)
       IN /\ got' = [got EXCEPT ![last] = s]
          /\ status' = IF r.ok THEN "ok" ELSE "failed"
          /\ response' = [response EXCEPT ![m] = r.value]
  /\ UNCHANGED <<request, calls, wire, provider>>

------------------------------------------------------------------------------
(* The provider.  MessageRWCB takes the string of one read; what it copies *)
(* as a size may be shorter than four units, and substr throws when it     *)
(* starts past the end of the string: then nobody sees that size.          *)

substr(s, at, n) == SubSeq(s, at + 1, IF at + n < Len(s) THEN at + n ELSE Len(s))

header_size(s) == s[1] + (Unit * (s[2] + (Unit * (s[3] + (Unit * s[4])))))
argsAt(s) == (4 + header_size(s)) % Uint32

rpcHeader(s) == ParseFrom("RpcHeader", RpcHeader_SharedCtor, substr(s, 4, header_size(s)))

throws(s) == \/ Len(s) < 4
             \/ Len(s) >= 4 /\ rpcHeader(s).ok /\ Len(s) < argsAt(s)

(* The entries of ServiceTypeMap that the two names lead to.               *)
ServiceTypeMap(h) ==
  {e \in (DOMAIN descriptor) \X (0 .. 1) :
     /\ e[2] < Len(descriptor[e[1]])
     /\ Text[e[1]] = h.service_name /\ Text[descriptor[e[1]][e[2] + 1]] = h.method_name}

args_str(s) == substr(s, argsAt(s), rpcHeader(s).value.args_len)

parsed(s, entry) ==
  LET T == GetRequestPrototype(entry[1], entry[2])
  IN ParseFrom(T, Defaults[T], args_str(s))

entriesOf(s) == IF rpcHeader(s).ok THEN ServiceTypeMap(rpcHeader(s).value) ELSE {}

understood(s) == {e \in entriesOf(s) : parsed(s, e).ok}

(* No handler: the process ends.                                           *)
MessageThrows(c, s) ==
  /\ throws(s)
  /\ up' = FALSE
  /\ dropped' = dropped \union {c}
  /\ UNCHANGED <<reply, ran>>

MessageIgnored(c, s) ==
  /\ ~throws(s) /\ understood(s) = {}
  /\ dropped' = dropped \union {c}
  /\ UNCHANGED <<up, reply, ran>>

SendRpcResponse(c, T, r) ==
  reply' = [reply EXCEPT ![c] = SerializeToString(T, r)]

(* After its first response the connection is shut down for output.        *)
MessageRuns(c, s) ==
  /\ ~throws(s)
  /\ \E e \in understood(s) :
       LET T == GetResponsePrototype(e[1], e[2])
           req == parsed(s, e).value
       IN /\ ran' = [ran EXCEPT ![c] =
                       Append(@, [service |-> e[1], method |-> e[2], request |-> req])]
          /\ IF ran[c] = <<>>
             THEN SendRpcResponse(c, T, Service_CallMethod(e[1], e[2], req, Defaults[T]))
             ELSE UNCHANGED reply
  /\ UNCHANGED <<up, dropped>>

MessageRWCB(c) ==
  /\ up
  /\ \E n \in 1 .. Len(wire[c]) :
       LET s == SubSeq(wire[c], 1, n)
       IN /\ wire' = [wire EXCEPT ![c] = SubSeq(@, n + 1, Len(@))]
          /\ cut' = IF n < Len(wire[c]) THEN cut \union {c} ELSE cut
          /\ MessageThrows(c, s) \/ MessageIgnored(c, s) \/ MessageRuns(c, s)
  /\ UNCHANGED caller

------------------------------------------------------------------------------
DataNext ==
  (\E ask \in Asks : CallMethod(ask)) \/ recv \/ \E c \in Sent : MessageRWCB(c)

DataSpec == DataInit /\ [][DataNext]_dataVars

------------------------------------------------------------------------------
(* Properties.                                                             *)

(* What ByteSizeLong says a message takes is what it takes when written:   *)
(* the string is allotted by the one and filled by the other, and the      *)
(* length before a submessage is the one's (jhRpcChannel.cc:24, :41,       *)
(* rpcprovider.cc:182).                                                    *)
SizeIsLength ==
  \A m \in Methods :
    /\ ByteSize(RequestType[m], request[m])
         = Len(SerializeToString(RequestType[m], request[m]))
    /\ ByteSize(ResponseType[m], response[m])
         = Len(SerializeToString(ResponseType[m], response[m]))

OwnMethod(c) ==
  LET m == calls[c].method
  IN /\ Len(ran[c]) <= 1
     /\ \A i \in DOMAIN ran[c] :
          /\ ran[c][i].service = serviceOf(m)
          /\ descriptor[serviceOf(m)][ran[c][i].method + 1] = m

(* A call whose request was read whole runs its own method, once, and with *)
(* the very request, or waits to be read (jhRpcChannel.cc:36-55,           *)
(* rpcprovider.cc:107-175).                                                *)
WholeRequestRuns ==
  \A c \in Sent \ cut :
    /\ OwnMethod(c)
    /\ \A i \in DOMAIN ran[c] : ran[c][i].request = calls[c].request

(* Only what came in pieces is dropped, or ends the provider: the size and *)
(* the names that CallMethod writes are those MessageRWCB looks for        *)
(* (jhRpcChannel.cc:52-54, rpcprovider.cc:107-145).                        *)
OnlyCutIsDropped == dropped \subseteq cut /\ (up \/ cut # {})

(* A call that reports success, and of which neither the request nor the   *)
(* reply was cut, leaves in the caller's response what the service makes   *)
(* of the caller's request, and nothing of an earlier call, though the     *)
(* reply may be no bytes at all (jhRpcChannel.cc:141, rpcprovider.cc:182). *)
AnswerIsService ==
  status = "ok" /\ up /\ last \notin cut /\ got[last] = reply[last] =>
    response[calls[last].method] = Answer(calls[last].method, request[calls[last].method])

==============================================================================
