------------------------------- MODULE Messages -------------------------------
(***************************************************************************)
(* The messages of the framework and of its two services: how the code     *)
(* that protoc generated for them makes, clears and fills them.            *)
(*                                                                         *)
(* A message is a record of its fields; an integer or bool is a number, a  *)
(* string a sequence of units, a repeated field a sequence of strings, a   *)
(* submessage a sequence that is empty while there is none.  The generated *)
(* functions differ between messages in their fields only: each is a table *)
(* here.  A unit stands for a byte.                                        *)
(***************************************************************************)
EXTENDS Naturals, Sequences

------------------------------------------------------------------------------
(* SharedCtor and Clear: the value of each field in a new message, and the *)
(* one that Clear sets.                                                    *)

RpcHeader_SharedCtor ==
  [service_name |-> <<>>, method_name |-> <<>>, args_len |-> 0]
ReturnCode_SharedCtor == [errcode |-> 0, errdesc |-> <<>>]
LoginRequest_SharedCtor == [name |-> <<>>, pwd |-> <<>>]
LoginResponse_SharedCtor == [result |-> <<>>, sucess |-> 0]
RegisterRequest_SharedCtor == [id |-> 0, name |-> <<>>, pwd |-> <<>>]
RegisterResponse_SharedCtor == [result |-> <<>>, sucess |-> 0]
GetFriendListsRequest_SharedCtor == [userId |-> 0]
GetFriendListsResponse_SharedCtor == [success |-> 0, friends |-> <<>>]

RpcHeader_Clear ==
  [service_name |-> <<>>, method_name |-> <<>>, args_len |-> 0]
ReturnCode_Clear == [errcode |-> 0, errdesc |-> <<>>]
LoginRequest_Clear == [name |-> <<>>, pwd |-> <<>>]
LoginResponse_Clear == [result |-> <<>>, sucess |-> 0]
RegisterRequest_Clear == [id |-> 0, name |-> <<>>, pwd |-> <<>>]
RegisterResponse_Clear == [result |-> <<>>, sucess |-> 0]
GetFriendListsRequest_Clear == [userId |-> 0]
keepsFriends == [success |-> 0]                                     \* mutant
GetFriendListsResponse_Clear == [success |-> 0, friends |-> <<>>]

Defaults ==
  [RpcHeader |-> RpcHeader_SharedCtor,
   ReturnCode |-> ReturnCode_SharedCtor,
   LoginRequest |-> LoginRequest_SharedCtor,
   LoginResponse |-> LoginResponse_SharedCtor,
   RegisterRequest |-> RegisterRequest_SharedCtor,
   RegisterResponse |-> RegisterResponse_SharedCtor,
   GetFriendListsRequest |-> GetFriendListsRequest_SharedCtor,
   GetFriendListsResponse |-> GetFriendListsResponse_SharedCtor]

Cleared ==
  [RpcHeader |-> RpcHeader_Clear,
   ReturnCode |-> ReturnCode_Clear,
   LoginRequest |-> LoginRequest_Clear,
   LoginResponse |-> LoginResponse_Clear,
   RegisterRequest |-> RegisterRequest_Clear,
   RegisterResponse |-> RegisterResponse_Clear,
   GetFriendListsRequest |-> GetFriendListsRequest_Clear,
   GetFriendListsResponse |-> GetFriendListsResponse_Clear]

(* A field that Clear leaves alone keeps its value.                        *)
Clear(T, m) ==
  [f \in DOMAIN Defaults[T] |-> IF f \in DOMAIN Cleared[T] THEN Cleared[T][f] ELSE m[f]]

------------------------------------------------------------------------------
(* The accessors of the fields.                                            *)

RpcHeader_set_service_name(m, v) == [m EXCEPT !.service_name = v]
RpcHeader_set_method_name(m, v) == [m EXCEPT !.method_name = v]
RpcHeader_set_args_len(m, v) == [m EXCEPT !.args_len = v]
ReturnCode_set_errcode(m, v) == [m EXCEPT !.errcode = v]
ReturnCode_set_errdesc(m, v) == [m EXCEPT !.errdesc = v]
LoginRequest_set_name(m, v) == [m EXCEPT !.name = v]
LoginRequest_set_pwd(m, v) == [m EXCEPT !.pwd = v]
LoginResponse_set_sucess(m, v) == [m EXCEPT !.sucess = v]
RegisterRequest_set_id(m, v) == [m EXCEPT !.id = v]
RegisterRequest_set_name(m, v) == [m EXCEPT !.name = v]
RegisterRequest_set_pwd(m, v) == [m EXCEPT !.pwd = v]
RegisterResponse_set_sucess(m, v) == [m EXCEPT !.sucess = v]
GetFriendListsRequest_set_userid(m, v) == [m EXCEPT !.userId = v]
GetFriendListsResponse_set_success(m, v) == [m EXCEPT !.success = v]
GetFriendListsResponse_add_friends(m, v) == [m EXCEPT !.friends = Append(@, v)]

(* The submessage is made when there is none.                              *)
LoginResponse_mutable_result(m) ==
  [m EXCEPT !.result = IF @ = <<>> THEN <<ReturnCode_SharedCtor>> ELSE @]
RegisterResponse_mutable_result(m) ==
  [m EXCEPT !.result = IF @ = <<>> THEN <<ReturnCode_SharedCtor>> ELSE @]
==============================================================================
