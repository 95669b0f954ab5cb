------------------------------ MODULE MCDataPath ------------------------------
(* DataPath with two calls, one unit for most names, varints of base 32 and *)
(* a receive buffer that ends inside the list of friends.                  *)
EXTENDS DataPath, Codec

Units ==
  ("empty" :> <<>>) @@ ("ljh" :> <<1>>) @@ ("12345" :> <<2, 3>>)
  @@ ("123456" :> <<2, 3, 4>>) @@ ("something_error" :> <<5, 6>>)
  @@ ("dsad" :> <<7>>) @@ ("bobo" :> <<8>>) @@ ("alice" :> <<9>>)
  @@ ("momo" :> <<10>>) @@ ("nafei" :> <<11>>)
  @@ ("UserServiceRpc" :> <<12>>) @@ ("friendServiceRpc" :> <<13>>)
  @@ ("Login" :> <<14>>) @@ ("Register" :> <<15>>) @@ ("GetFriendLists" :> <<16>>)

Questions ==
  {[method |-> "Login", name |-> "ljh", pwd |-> "123456"],
   [method |-> "Register", id |-> 199, name |-> "ljh", pwd |-> "12345"],
   [method |-> "Register", id |-> 199, name |-> "empty", pwd |-> "123456"],
   [method |-> "GetFriendLists", userId |-> 12333],
   [method |-> "GetFriendLists", userId |-> 0]}
==============================================================================
