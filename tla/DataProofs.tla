------------------------------ MODULE DataProofs ------------------------------
(***************************************************************************)
(* What becomes of bytes, for any values of the constants.  First the data *)
(* of remote calls (DataPath): a request that the provider reads whole is  *)
(* run as it was asked, and its answer is what the caller gets, for any    *)
(* strings, any questions and any codec that reads back what it writes.    *)
(* Then the buffer of a connection (Buffer): its indices stay inside its   *)
(* vector, its bytes come out in order, and the vector stays in proportion *)
(* to what it held.                                                        *)
(***************************************************************************)
EXTENDS Buffer, DataPath, SequenceTheorems, TLAPS

------------------------------------------------------------------------------
(* What the data of calls are in every state.                              *)

(* The request as a caller with a new object would fill it.                *)
Fresh(ask) == fill(ask, Defaults[RequestType[ask.method]])

(* The values that the request object of a method takes.                   *)
Asked(m) == {Defaults[RequestType[m]]}
            \union {Fresh(ask) : ask \in {a \in Asks : a.method = m}}

CallOf(ask) == [method |-> ask.method, request |-> Fresh(ask)]

Objects ==
  /\ DOMAIN request = Methods /\ DOMAIN response = Methods
  /\ \A m \in Methods : request[m] \in Asked(m)
  /\ calls \in Seq({CallOf(ask) : ask \in Asks}) /\ last <= MaxCalls
  /\ DOMAIN wire = Slots /\ DOMAIN reply = Slots /\ DOMAIN ran = Slots /\ DOMAIN got = Slots
  /\ \A c \in Slots \ Sent : ran[c] = <<>> /\ reply[c] = <<>>
  /\ status \in {"waits", "ok"} => last # 0

(* What the provider did with a request that came whole.                   *)
Unread(c) ==
  /\ wire[c] = message(calls[c].method, calls[c].request)
  /\ ran[c] = <<>> /\ reply[c] = <<>>

Done(m, r) == [service |-> serviceOf(m), method |-> index(m), request |-> r]

Answered(c) ==
  LET m == calls[c].method
      r == calls[c].request
  IN /\ wire[c] = <<>> /\ ran[c] = <<Done(m, r)>>
     /\ reply[c] = SerializeToString(ResponseType[m], Answer(m, r))

(* And what the caller made of its answer.                                 *)
Returned ==
  status = "ok" /\ up /\ last \notin cut =>
    /\ Answered(last)
    /\ got[last] = reply[last] =>
         response[calls[last].method] = Answer(calls[last].method, calls[last].request)

DataInv ==
  /\ Objects
  /\ \A c \in Sent \ cut : Unread(c) \/ Answered(c)
  /\ last # 0 => request[calls[last].method] = calls[last].request
  /\ Returned
  /\ OnlyCutIsDropped
------------------------------------------------------------------------------
(* The size before a header, and the parts of a message.                   *)

LEMMA DataConstants ==
  /\ Unit \in Nat \ {0} /\ MaxCalls \in Nat \ {0} /\ RecvLen \in Nat \ {0}
  /\ Uint32 \in Nat \ {0}
<1>1. /\ Unit \in Nat \ {0} /\ MaxCalls \in Nat \ {0} /\ RecvLen \in Nat \ {0}
  BY DataAssumption
<1>2. \A m, n \in Nat \ {0} : m * n \in Nat \ {0}
  OBVIOUS
<1> QED
  BY <1>1, <1>2 DEF Uint32

LEMMA DivMod ==
  ASSUME NEW n \in Nat
  PROVE  /\ n \div Unit \in Nat /\ n % Unit \in Nat
         /\ (n % Unit) + (Unit * (n \div Unit)) = n
  BY DataConstants

LEMMA SizeIsWritten ==
  ASSUME NEW n \in Nat
  PROVE  /\ uint32(n) \in Seq(Nat) /\ Len(uint32(n)) = 4
         /\ header_size(uint32(n)) = n
<1> DEFINE d1 == n \div Unit
<1> DEFINE d2 == d1 \div Unit
<1> DEFINE d3 == d2 \div Unit
<1>1. /\ d1 \in Nat /\ n % Unit \in Nat
      /\ (n % Unit) + (Unit * d1) = n
  BY DivMod
<1>2. /\ d2 \in Nat /\ d1 % Unit \in Nat
      /\ (d1 % Unit) + (Unit * d2) = d1
  <2> HIDE DEF d1
  <2> QED BY <1>1, DivMod
<1>3. /\ d3 \in Nat /\ d2 % Unit \in Nat
      /\ (d2 % Unit) + (Unit * d3) = d2
  <2> HIDE DEF d2
  <2> QED BY <1>2, DivMod
<1>4. uint32(n) = <<n % Unit, d1 % Unit, d2 % Unit, d3>>
  BY DEF uint32, digit
<1> HIDE DEF d1, d2, d3
<1>5. uint32(n) \in Seq(Nat) /\ Len(uint32(n)) = 4
  BY <1>1, <1>2, <1>3, <1>4
<1>6. /\ uint32(n)[1] = n % Unit /\ uint32(n)[2] = d1 % Unit
      /\ uint32(n)[3] = d2 % Unit /\ uint32(n)[4] = d3
  BY <1>4
<1>7. header_size(uint32(n))
        = (n % Unit) + (Unit * ((d1 % Unit) + (Unit * ((d2 % Unit) + (Unit * d3)))))
  BY <1>6 DEF header_size
<1> QED
  BY <1>1, <1>2, <1>3, <1>5, <1>7

LEMMA UnitsAreNumbers ==
  ASSUME NEW s \in Seq(0 .. Unit - 1)
  PROVE  s \in Seq(Nat)
<1>1. /\ Len(s) \in Nat /\ s \in [1 .. Len(s) -> 0 .. Unit - 1]
      /\ 0 .. Unit - 1 \subseteq Nat
  BY DataConstants
<1>2. s \in [1 .. Len(s) -> Nat]
  BY <1>1
<1> QED
  BY <1>1, <1>2

LEMMA Slice ==
  ASSUME NEW s \in Seq(Nat), NEW t \in Seq(Nat), NEW m \in Nat \ {0}, NEW n \in Nat,
         n <= Len(s), Len(t) = n - m + 1,
         \A i \in 1 .. Len(t) : s[m + i - 1] = t[i]
  PROVE  SubSeq(s, m, n) = t
<1>1. Len(s) \in Nat /\ Len(t) \in Nat
  BY LenProperties
<1>2. \A i \in m .. n : s[i] \in Nat
  BY <1>1, ElementOfSeq
<1>3. /\ SubSeq(s, m, n) \in Seq(Nat)
      /\ Len(SubSeq(s, m, n)) = IF m <= n THEN n - m + 1 ELSE 0
      /\ \A i \in 1 .. n - m + 1 : SubSeq(s, m, n)[i] = s[m + i - 1]
  BY <1>2, SubSeqProperties
<1>4. n - m + 1 \in Nat /\ Len(SubSeq(s, m, n)) = n - m + 1
  BY <1>1, <1>3
<1>5. \A i \in 1 .. n - m + 1 : SubSeq(s, m, n)[i] = t[i]
  BY <1>3
<1>6. /\ Len(SubSeq(s, m, n)) = Len(t)
      /\ \A i \in 1 .. Len(SubSeq(s, m, n)) : SubSeq(s, m, n)[i] = t[i]
  BY <1>4, <1>5
<1> QED
  BY <1>3, <1>6, SeqEqual

LEMMA PartsOfMessage ==
  ASSUME NEW a \in Seq(Nat), NEW b \in Seq(Nat), NEW d \in Seq(Nat), Len(a) = 4
  PROVE  LET s == (a \o b) \o d
         IN /\ s \in Seq(Nat) /\ Len(s) = 4 + Len(b) + Len(d)
            /\ header_size(s) = header_size(a)
            /\ substr(s, 4, Len(b)) = b
            /\ substr(s, 4 + Len(b), Len(d)) = d
<1> DEFINE s == (a \o b) \o d
<1> DEFINE ab == a \o b
<1>0. Len(b) \in Nat /\ Len(d) \in Nat
  BY LenProperties
<1>1. /\ ab \in Seq(Nat) /\ Len(ab) = 4 + Len(b)
      /\ \A i \in 1 .. 4 + Len(b) : ab[i] = IF i <= 4 THEN a[i] ELSE b[i - 4]
  <2>1. /\ a \o b \in Seq(Nat)
        /\ Len(a \o b) = Len(a) + Len(b)
        /\ \A i \in 1 .. Len(a) + Len(b) :
             (a \o b)[i] = IF i <= Len(a) THEN a[i] ELSE b[i - Len(a)]
    BY ConcatProperties
  <2> QED
    BY <2>1
<1> HIDE DEF ab
<1>2. /\ s \in Seq(Nat) /\ Len(s) = 4 + Len(b) + Len(d)
      /\ \A i \in 1 .. 4 + Len(b) + Len(d) :
           s[i] = IF i <= 4 + Len(b) THEN ab[i] ELSE d[i - (4 + Len(b))]
  <2>1. s = ab \o d
    BY DEF ab
  <2> HIDE DEF s
  <2>2. /\ ab \o d \in Seq(Nat)
        /\ Len(ab \o d) = Len(ab) + Len(d)
        /\ \A i \in 1 .. Len(ab) + Len(d) :
             (ab \o d)[i] = IF i <= Len(ab) THEN ab[i] ELSE d[i - Len(ab)]
    BY <1>1, ConcatProperties
  <2> QED
    BY <1>1, <2>1, <2>2
<1> HIDE DEF s
<1>3. header_size(s) = header_size(a)
  <2>1. s[1] = a[1] /\ s[2] = a[2] /\ s[3] = a[3] /\ s[4] = a[4]
    BY <1>0, <1>1, <1>2
  <2> QED
    BY <2>1 DEF header_size
<1>4. substr(s, 4, Len(b)) = b
  <2> DEFINE m == 5
  <2> DEFINE n == 4 + Len(b)
  <2>1. substr(s, 4, Len(b)) = SubSeq(s, m, n)
    BY <1>0, <1>2 DEF substr
  <2>2. ASSUME NEW i \in 1 .. Len(b)
        PROVE  s[m + i - 1] = b[i]
    <3> DEFINE k == 4 + i
    <3>1. /\ k \in 1 .. 4 + Len(b) /\ k \in 1 .. 4 + Len(b) + Len(d)
          /\ m + i - 1 = k /\ k - 4 = i /\ ~(k <= 4) /\ k <= 4 + Len(b)
      BY <1>0, <2>2
    <3>2. s[k] = ab[k] /\ ab[k] = b[k - 4]
      <4> HIDE DEF k
      <4> QED BY <1>1, <1>2, <3>1
    <3> QED
      BY <3>1, <3>2
  <2>3. m \in Nat \ {0} /\ n \in Nat /\ n <= Len(s) /\ Len(b) = n - m + 1
    BY <1>0, <1>2
  <2> HIDE DEF m, n
  <2>4. SubSeq(s, m, n) = b
    BY <1>2, <2>2, <2>3, Slice
  <2> QED
    BY <2>1, <2>4
<1>5. substr(s, 4 + Len(b), Len(d)) = d
  <2> DEFINE m == 5 + Len(b)
  <2>0. /\ (4 + Len(b)) + 1 = m
        /\ (IF (4 + Len(b)) + Len(d) < Len(s) THEN (4 + Len(b)) + Len(d) ELSE Len(s)) = Len(s)
    BY <1>0, <1>2
  <2>1. substr(s, 4 + Len(b), Len(d)) = SubSeq(s, m, Len(s))
    BY <2>0 DEF substr
  <2>2. ASSUME NEW i \in 1 .. Len(d)
        PROVE  s[m + i - 1] = d[i]
    <3> DEFINE k == 4 + Len(b) + i
    <3>1. /\ k \in 1 .. 4 + Len(b) + Len(d)
          /\ m + i - 1 = k /\ k - (4 + Len(b)) = i /\ ~(k <= 4 + Len(b))
      BY <1>0, <2>2
    <3>2. s[k] = d[k - (4 + Len(b))]
      <4> HIDE DEF k
      <4> QED BY <1>2, <3>1
    <3> QED
      BY <3>1, <3>2
  <2>3. m \in Nat \ {0} /\ Len(s) \in Nat /\ Len(d) = Len(s) - m + 1
    BY <1>0, <1>2
  <2> HIDE DEF m
  <2>4. SubSeq(s, m, Len(s)) = d
    <3>1. s \in Seq(Nat) /\ Len(s) <= Len(s)
      BY <1>2, <2>3
    <3> QED BY <2>2, <2>3, <3>1, Slice
  <2> QED
    BY <2>1, <2>4
<1> QED
  BY <1>2, <1>3, <1>4, <1>5 DEF s

------------------------------------------------------------------------------
(* A request object that is filled again is as good as a new one.          *)

LEMMA Questions ==
  ASSUME NEW ask \in Asks
  PROVE  /\ ask.method \in Methods
         /\ ask.method \in {"Login", "Register"} =>
              ask.name \in DOMAIN Text /\ ask.pwd \in DOMAIN Text
  BY DataAssumption DEF Methods

LEMMA FillsLogin ==
  ASSUME NEW ask, ask.method = "Login", NEW n, NEW p
  PROVE  fill(ask, [name |-> n, pwd |-> p]) = [name |-> Text[ask.name], pwd |-> Text[ask.pwd]]
  BY DEF fill, LoginRequest_set_name, LoginRequest_set_pwd

LEMMA FillsRegister ==
  ASSUME NEW ask, ask.method = "Register", NEW i, NEW n, NEW p
  PROVE  fill(ask, [id |-> i, name |-> n, pwd |-> p])
           = [id |-> ask.id, name |-> Text[ask.name], pwd |-> Text[ask.pwd]]
  BY DEF fill, RegisterRequest_set_id, RegisterRequest_set_name, RegisterRequest_set_pwd

LEMMA FillsGetFriendLists ==
  ASSUME NEW ask, ask.method = "GetFriendLists", NEW u
  PROVE  fill(ask, [userId |-> u]) = [userId |-> ask.userId]
  BY DEF fill, GetFriendListsRequest_set_userid

LEMMA NewRequests ==
  /\ Defaults[RequestType["Login"]] = [name |-> <<>>, pwd |-> <<>>]
  /\ Defaults[RequestType["Register"]] = [id |-> 0, name |-> <<>>, pwd |-> <<>>]
  /\ Defaults[RequestType["GetFriendLists"]] = [userId |-> 0]
  BY DEF Defaults, RequestType, LoginRequest_SharedCtor, RegisterRequest_SharedCtor,
         GetFriendListsRequest_SharedCtor

LEMMA FillAgain ==
  ASSUME NEW ask \in Asks, NEW old \in Asked(ask.method)
  PROVE  fill(ask, old) = Fresh(ask)
<1> DEFINE m == ask.method
<1>1. CASE old = Defaults[RequestType[m]]
  BY <1>1 DEF Fresh
<1> SUFFICES ASSUME NEW a \in Asks, a.method = m, old = fill(a, Defaults[RequestType[m]])
             PROVE  fill(ask, old) = Fresh(ask)
  BY <1>1 DEF Asked, Fresh
<1>2. a \in Asks /\ a.method = m /\ old = fill(a, Defaults[RequestType[m]])
  OBVIOUS
<1>3. CASE m = "Login"
  <2>1. ASSUME NEW b \in Asks, b.method = "Login"
        PROVE  fill(b, Defaults[RequestType["Login"]]) = [name |-> Text[b.name], pwd |-> Text[b.pwd]]
    BY <2>1, NewRequests, FillsLogin
  <2>2. fill(a, Defaults[RequestType[m]]) = [name |-> Text[a.name], pwd |-> Text[a.pwd]]
    BY <1>2, <1>3, <2>1
  <2>3. fill(ask, [name |-> Text[a.name], pwd |-> Text[a.pwd]])
          = [name |-> Text[ask.name], pwd |-> Text[ask.pwd]]
    BY <1>3, FillsLogin
  <2> QED
    BY <1>2, <1>3, <2>1, <2>2, <2>3 DEF Fresh
<1>4. CASE m = "Register"
  <2>1. ASSUME NEW b \in Asks, b.method = "Register"
        PROVE  fill(b, Defaults[RequestType["Register"]]) = [id |-> b.id, name |-> Text[b.name], pwd |-> Text[b.pwd]]
    BY <2>1, NewRequests, FillsRegister
  <2>2. fill(a, Defaults[RequestType[m]]) = [id |-> a.id, name |-> Text[a.name], pwd |-> Text[a.pwd]]
    BY <1>2, <1>4, <2>1
  <2>3. fill(ask, [id |-> a.id, name |-> Text[a.name], pwd |-> Text[a.pwd]])
          = [id |-> ask.id, name |-> Text[ask.name], pwd |-> Text[ask.pwd]]
    BY <1>4, FillsRegister
  <2> QED
    BY <1>2, <1>4, <2>1, <2>2, <2>3 DEF Fresh
<1>5. CASE m = "GetFriendLists"
  <2>1. ASSUME NEW b \in Asks, b.method = "GetFriendLists"
        PROVE  fill(b, Defaults[RequestType["GetFriendLists"]]) = [userId |-> b.userId]
    BY <2>1, NewRequests, FillsGetFriendLists
  <2>2. fill(a, Defaults[RequestType[m]]) = [userId |-> a.userId]
    BY <1>2, <1>5, <2>1
  <2>3. fill(ask, [userId |-> a.userId])
          = [userId |-> ask.userId]
    BY <1>5, FillsGetFriendLists
  <2> QED
    BY <1>2, <1>5, <2>1, <2>2, <2>3 DEF Fresh
<1> QED
  BY Questions, <1>3, <1>4, <1>5 DEF Methods

------------------------------------------------------------------------------
(* What the provider makes of a message that it reads whole.               *)

LEMMA ClearIsNew ==
  ASSUME NEW T \in DOMAIN Defaults, NEW m
  PROVE  Clear(T, m) = Defaults[T]
  BY DEF Clear, Defaults, Cleared, RpcHeader_Clear, ReturnCode_Clear, LoginRequest_Clear,
         LoginResponse_Clear, RegisterRequest_Clear, RegisterResponse_Clear,
         GetFriendListsRequest_Clear, GetFriendListsResponse_Clear,
         RpcHeader_SharedCtor, ReturnCode_SharedCtor, LoginRequest_SharedCtor,
         LoginResponse_SharedCtor, RegisterRequest_SharedCtor, RegisterResponse_SharedCtor,
         GetFriendListsRequest_SharedCtor, GetFriendListsResponse_SharedCtor

LEMMA ParsesBack ==
  ASSUME NEW T \in DOMAIN Defaults, NEW m, NEW old, ReadBack(T, m)
  PROVE  /\ ParseFrom(T, old, SerializeToString(T, m)).ok
         /\ ParseFrom(T, old, SerializeToString(T, m)).value = m
  BY ClearIsNew DEF ParseFrom, ReadBack

(* The stub's index is that of the method in its service's descriptor, and *)
(* the provider's prototypes are those of the caller's objects.            *)
LEMMA Tables ==
  ASSUME NEW m \in Methods
  PROVE  /\ serviceOf(m) \in DOMAIN descriptor /\ index(m) \in 0 .. 1
         /\ index(m) + 1 \in DOMAIN descriptor[serviceOf(m)]
         /\ index(m) < Len(descriptor[serviceOf(m)])
         /\ descriptor[serviceOf(m)][index(m) + 1] = m
         /\ GetRequestPrototype(serviceOf(m), index(m)) = RequestType[m]
         /\ GetResponsePrototype(serviceOf(m), index(m)) = ResponseType[m]
         /\ RequestType[m] \in DOMAIN Defaults /\ ResponseType[m] \in DOMAIN Defaults
<1>1. CASE m = "Login"
  BY <1>1 DEF serviceOf, descriptor, index, UserServiceRpc_Stub, friendServiceRpc_Stub,
     GetRequestPrototype, GetResponsePrototype, UserServiceRpc_GetRequestPrototype,
     UserServiceRpc_GetResponsePrototype, RequestType, ResponseType, Defaults
<1>2. CASE m = "Register"
  BY <1>2 DEF serviceOf, descriptor, index, UserServiceRpc_Stub, friendServiceRpc_Stub,
     GetRequestPrototype, GetResponsePrototype, UserServiceRpc_GetRequestPrototype,
     UserServiceRpc_GetResponsePrototype, RequestType, ResponseType, Defaults
<1>3. CASE m = "GetFriendLists"
  BY <1>3 DEF serviceOf, descriptor, index, UserServiceRpc_Stub, friendServiceRpc_Stub,
     GetRequestPrototype, GetResponsePrototype, friendServiceRpc_GetRequestPrototype,
     friendServiceRpc_GetResponsePrototype, RequestType, ResponseType, Defaults
<1> QED
  BY <1>1, <1>2, <1>3 DEF Methods

LEMMA HeaderFields ==
  ASSUME NEW s, NEW m, NEW n
  PROVE  /\ header(s, m, n).service_name = Text[s]
         /\ header(s, m, n).method_name = Text[m]
         /\ header(s, m, n).args_len = n
  BY DEF header, RpcHeader_set_service_name, RpcHeader_set_method_name,
         RpcHeader_set_args_len, RpcHeader_SharedCtor

(* The names lead to one entry, for no two names have the same units.      *)
LEMMA OneEntry ==
  ASSUME NEW m \in Methods, NEW n
  PROVE  ServiceTypeMap(header(serviceOf(m), m, n)) = {<<serviceOf(m), index(m)>>}
<1> DEFINE h == header(serviceOf(m), m, n)
<1>1. /\ DOMAIN descriptor = {"UserServiceRpc", "friendServiceRpc"}
      /\ Len(descriptor["UserServiceRpc"]) = 2 /\ Len(descriptor["friendServiceRpc"]) = 1
      /\ descriptor["UserServiceRpc"][1] = "Login"
      /\ descriptor["UserServiceRpc"][2] = "Register"
      /\ descriptor["friendServiceRpc"][1] = "GetFriendLists"
  BY DEF descriptor
<1>2. \A s, t \in {"UserServiceRpc", "friendServiceRpc"} \union Methods :
        Text[s] = Text[t] => s = t
  BY DataAssumption DEF Methods
<1>3. h.service_name = Text[serviceOf(m)] /\ h.method_name = Text[m]
  BY HeaderFields
<1> HIDE DEF h
<1>4. <<serviceOf(m), index(m)>> \in ServiceTypeMap(h)
  BY <1>3, Tables DEF ServiceTypeMap
<1>5. ASSUME NEW e \in ServiceTypeMap(h)
      PROVE  e = <<serviceOf(m), index(m)>>
  <2>1. /\ e \in (DOMAIN descriptor) \X (0 .. 1)
        /\ e[2] < Len(descriptor[e[1]])
        /\ Text[e[1]] = Text[serviceOf(m)] /\ Text[descriptor[e[1]][e[2] + 1]] = Text[m]
    BY <1>3 DEF ServiceTypeMap
  <2>2. e = <<e[1], e[2]>> /\ e[1] \in DOMAIN descriptor /\ e[2] \in 0 .. 1
    BY <2>1
  <2>3. e[1] = serviceOf(m)
    BY <1>1, <1>2, <2>1, <2>2, Tables
  <2>4. e[2] = index(m)
    <3>1. CASE e[1] = "UserServiceRpc"
      <4>1. descriptor[e[1]][e[2] + 1] \in Methods
        BY <1>1, <2>2, <3>1 DEF Methods
      <4>2. descriptor[e[1]][e[2] + 1] = m
        BY <1>2, <2>1, <4>1
      <4> QED
        BY <1>1, <2>2, <2>3, <3>1, <4>2, Tables
    <3>2. CASE e[1] = "friendServiceRpc"
      <4>1. Len(descriptor[e[1]]) = 1
        BY <1>1, <3>2
      <4>2. index(m) < Len(descriptor[e[1]]) /\ index(m) \in 0 .. 1
        BY <2>3, Tables
      <4>3. e[2] = 0 /\ index(m) = 0
        BY <2>1, <2>2, <4>1, <4>2
      <4> QED
        BY <4>3
    <3> QED
      BY <1>1, <2>2, <3>1, <3>2
  <2> QED
    BY <2>2, <2>3, <2>4
<1> QED
  BY <1>4, <1>5 DEF h

LEMMA WholeMessage ==
  ASSUME NEW ask \in Asks
  PROVE  LET m == ask.method
             s == message(m, Fresh(ask))
             e == <<serviceOf(m), index(m)>>
         IN /\ s \in Seq(Nat) /\ Len(s) >= 4 /\ ~throws(s)
            /\ understood(s) = {e} /\ parsed(s, e).value = Fresh(ask)
<1> DEFINE m == ask.method
<1> DEFINE r == Fresh(ask)
<1> DEFINE args == SerializeToString(RequestType[m], r)
<1> DEFINE h == header(serviceOf(m), m, Len(args))
<1> DEFINE b == SerializeToString("RpcHeader", h)
<1> DEFINE s == message(m, r)
<1> DEFINE e == <<serviceOf(m), index(m)>>
<1>0. m \in Methods
  BY Questions
<1>1. /\ ReadBack(RequestType[m], r) /\ ReadBack("RpcHeader", h)
      /\ 4 + Len(b) < Uint32
  BY <1>0, CodecAssumption, Tables DEF Fresh
<1>2. args \in Seq(Nat) /\ b \in Seq(Nat) /\ Len(args) \in Nat /\ Len(b) \in Nat
  BY <1>1, UnitsAreNumbers, LenProperties DEF ReadBack
<1>3. s = (uint32(Len(b)) \o b) \o args
  BY <1>0, Tables DEF message
<1>4. /\ s \in Seq(Nat) /\ Len(s) = 4 + Len(b) + Len(args) /\ header_size(s) = Len(b)
      /\ substr(s, 4, Len(b)) = b /\ substr(s, 4 + Len(b), Len(args)) = args
  <2> HIDE DEF s, b, args
  <2> DEFINE a == uint32(Len(b))
  <2>1. a \in Seq(Nat) /\ Len(a) = 4 /\ header_size(a) = Len(b)
    BY <1>2, SizeIsWritten
  <2>2. s = (a \o b) \o args
    BY <1>3
  <2> HIDE DEF a
  <2> QED
    BY <1>2, <2>1, <2>2, PartsOfMessage
<1>5. argsAt(s) = 4 + Len(b)
  <2> HIDE DEF s, b, args
  <2>1. \A n \in Nat : n < Uint32 => n % Uint32 = n
    BY DataConstants
  <2> QED
    BY <1>1, <1>2, <1>4, <2>1 DEF argsAt
<1>6. rpcHeader(s).ok /\ rpcHeader(s).value = h
  <2>1. "RpcHeader" \in DOMAIN Defaults
    BY DEF Defaults
  <2>2. rpcHeader(s) = ParseFrom("RpcHeader", RpcHeader_SharedCtor, b)
    BY <1>4 DEF rpcHeader
  <2> QED
    BY <1>1, <2>1, <2>2, ParsesBack
<1>7. parsed(s, e).ok /\ parsed(s, e).value = r
  <2>1. args_str(s) = args
    BY <1>4, <1>5, <1>6, HeaderFields DEF args_str
  <2>2. parsed(s, e) = ParseFrom(RequestType[m], Defaults[RequestType[m]], args)
    BY <1>0, <2>1, Tables DEF parsed
  <2> QED
    BY <1>0, <1>1, <2>2, Tables, ParsesBack
<1>8. entriesOf(s) = {e}
  BY <1>0, <1>6, OneEntry DEF entriesOf
<1>9. understood(s) = {e}
  BY <1>7, <1>8 DEF understood
<1>10. Len(s) >= 4 /\ ~throws(s)
  <2> HIDE DEF s, b, args
  <2>0. \A i, j \in Nat : LET k == 4 + i + j IN k >= 4 /\ ~(k < 4) /\ ~(k < 4 + i)
    OBVIOUS
  <2>1. ~(Len(s) < 4) /\ ~(Len(s) < argsAt(s)) /\ Len(s) >= 4
    <3>1. Len(s) = 4 + Len(b) + Len(args) /\ argsAt(s) = 4 + Len(b)
      BY <1>4, <1>5
    <3> QED
      BY <1>2, <2>0, <3>1
  <2> QED
    BY <2>1 DEF throws
<1> QED
  BY <1>4, <1>7, <1>9, <1>10

------------------------------------------------------------------------------
(* The steps.                                                              *)

LEMMA ServiceAnswers ==
  ASSUME NEW m \in Methods, NEW r
  PROVE  Service_CallMethod(serviceOf(m), index(m), r, Defaults[ResponseType[m]])
           = Answer(m, r)
<1>1. CASE m = "Login"
  BY <1>1 DEF Service_CallMethod, serviceOf, index, UserServiceRpc_Stub,
     UserServiceRpc_CallMethod, Answer, Defaults, ResponseType
<1>2. CASE m = "Register"
  BY <1>2 DEF Service_CallMethod, serviceOf, index, UserServiceRpc_Stub,
     UserServiceRpc_CallMethod, Answer, Defaults, ResponseType
<1>3. CASE m = "GetFriendLists"
  BY <1>3 DEF Service_CallMethod, serviceOf, index, friendServiceRpc_Stub,
     friendServiceRpc_CallMethod, Answer, Defaults, ResponseType
<1> QED
  BY <1>1, <1>2, <1>3 DEF Methods

LEMMA CallsMade ==
  ASSUME Objects
  PROVE  /\ last \in Nat /\ last <= MaxCalls
         /\ \A c \in Sent : c \in Slots /\ \E ask \in Asks : calls[c] = CallOf(ask)
         /\ last # 0 => last \in Sent
<1>1. last \in Nat /\ last <= MaxCalls /\ MaxCalls \in Nat
  BY LenProperties, DataConstants DEF Objects, last
<1>2. \A c \in Sent : calls[c] \in {CallOf(ask) : ask \in Asks}
  BY ElementOfSeq DEF Objects, Sent
<1>3. \A c \in Sent : c \in Slots
  BY <1>1 DEF Sent, Slots, last
<1>4. last # 0 => last \in Sent
  BY <1>1 DEF Sent, last
<1> QED
  BY <1>1, <1>2, <1>3, <1>4

LEMMA DataInitInv == DataInit => DataInv
<1> SUFFICES ASSUME DataInit PROVE DataInv
  OBVIOUS
<1>1. /\ calls = <<>> /\ Len(calls) = 0 /\ last = 0 /\ Sent = {} /\ MaxCalls \in Nat
      /\ calls \in Seq({CallOf(ask) : ask \in Asks})
  BY DataConstants DEF DataInit, last, Sent
<1>2. /\ DOMAIN wire = Slots /\ DOMAIN reply = Slots /\ DOMAIN ran = Slots
      /\ DOMAIN got = Slots /\ \A c \in Slots : ran[c] = <<>> /\ reply[c] = <<>>
  BY DEF DataInit, none
<1>3. /\ DOMAIN request = Methods /\ DOMAIN response = Methods
      /\ \A m \in Methods : request[m] \in Asked(m)
  BY DEF DataInit, Asked
<1>4. status = "none" /\ up = TRUE /\ dropped = {} /\ cut = {}
  BY DEF DataInit
<1>5. Objects
  BY <1>1, <1>2, <1>3, <1>4 DEF Objects
<1> QED
  BY <1>1, <1>4, <1>5 DEF DataInv, Returned, OnlyCutIsDropped

LEMMA CallMethodInv ==
  ASSUME DataInv, NEW ask \in Asks, CallMethod(ask)
  PROVE  DataInv'
<1> DEFINE m == ask.method
<1>0. PICK k : k = last + 1
  OBVIOUS
<1>1. /\ last \in Nat /\ last < MaxCalls /\ MaxCalls \in Nat /\ m \in Methods /\ Objects
  BY CallsMade, Questions, DataConstants DEF DataInv, CallMethod
<1>2. fill(ask, request[m]) = Fresh(ask)
  BY <1>1, FillAgain DEF Objects
<1>3. /\ request' = [request EXCEPT ![m] = Fresh(ask)]
      /\ calls' = Append(calls, CallOf(ask))
      /\ wire' = [wire EXCEPT ![k] = message(m, Fresh(ask))]
      /\ status' = "waits"
      /\ UNCHANGED <<response, got, reply, up, ran, cut, dropped>>
  BY <1>0, <1>2 DEF CallMethod, CallOf, provider
<1>4. /\ k \in Slots /\ k \notin Sent /\ k # 0
      /\ \A c \in Sent : c # k /\ c \in Slots
  BY <1>0, <1>1, CallsMade DEF Sent, Slots, last
<1>5. /\ calls' \in Seq({CallOf(a) : a \in Asks}) /\ last' = k
      /\ calls'[k] = CallOf(ask) /\ \A c \in Sent : calls'[c] = calls[c]
      /\ Sent' = Sent \union {k}
  <2>1. calls \in Seq({CallOf(a) : a \in Asks}) /\ CallOf(ask) \in {CallOf(a) : a \in Asks}
    BY <1>1 DEF Objects
  <2>2. /\ calls' \in Seq({CallOf(a) : a \in Asks})
        /\ Len(calls') = Len(calls) + 1
        /\ \A i \in 1 .. Len(calls) : calls'[i] = calls[i]
        /\ calls'[Len(calls) + 1] = CallOf(ask)
    BY <1>3, <2>1, AppendProperties
  <2>3. 1 .. Len(calls) + 1 = (1 .. Len(calls)) \union {Len(calls) + 1}
    BY <1>1 DEF last
  <2> QED
    BY <1>0, <2>2, <2>3 DEF last, Sent
<1>6. /\ DOMAIN wire' = Slots /\ wire'[k] = message(m, Fresh(ask))
      /\ \A c \in Sent : wire'[c] = wire[c]
  BY <1>1, <1>3, <1>4 DEF Objects
<1>7. /\ DOMAIN request' = Methods /\ request'[m] = Fresh(ask)
      /\ \A x \in Methods : request'[x] \in Asked(x)
  BY <1>1, <1>3 DEF Objects, Asked
<1>8. Objects'
  <2>1. k <= MaxCalls
    BY <1>0, <1>1
  <2>2. \A c \in Slots \ Sent' : ran[c] = <<>> /\ reply[c] = <<>>
    BY <1>1, <1>5 DEF Objects
  <2>3. Slots' = Slots /\ DOMAIN response' = Methods /\ DOMAIN reply' = Slots
        /\ DOMAIN ran' = Slots /\ DOMAIN got' = Slots
    BY <1>1, <1>3 DEF Objects, Slots
  <2> QED
    BY <1>3, <1>4, <1>5, <1>6, <1>7, <2>1, <2>2, <2>3 DEF Objects, Asked, Fresh, Methods
<1>9. \A c \in Sent' \ cut' : Unread(c)' \/ Answered(c)'
  <2>1. CallOf(ask).method = m /\ CallOf(ask).request = Fresh(ask)
    BY DEF CallOf
  <2>2. Unread(k)'
    BY <1>1, <1>3, <1>4, <1>5, <1>6, <2>1 DEF Objects, Unread
  <2>3. ASSUME NEW c \in Sent, c \notin cut PROVE Unread(c)' \/ Answered(c)'
    BY <1>3, <1>5, <1>6, <2>3 DEF DataInv, Unread, Answered
  <2> QED
    BY <1>3, <1>5, <2>2, <2>3
<1>10. request'[calls'[last'].method] = calls'[last'].request
  BY <1>5, <1>7 DEF CallOf
<1> QED
  BY <1>3, <1>8, <1>9, <1>10 DEF DataInv, Returned, OnlyCutIsDropped

LEMMA RecvInv ==
  ASSUME DataInv, recv
  PROVE  DataInv'
<1>1. PICK s \in received :
         LET m == calls[last].method
             r == ParseFromArray(m, s)
         IN /\ got' = [got EXCEPT ![last] = s]
            /\ status' = IF r.ok THEN "ok" ELSE "failed"
            /\ response' = [response EXCEPT ![m] = r.value]
  BY DEF recv
<1>2. PICK q \in Asks : calls[last] = CallOf(q)
  BY CallsMade DEF recv, DataInv, Objects
<1> DEFINE m == q.method
<1>3. /\ last # 0 /\ last \in Sent /\ last \in Slots /\ Objects
      /\ m \in Methods /\ calls[last].method = m /\ calls[last].request = Fresh(q)
  BY <1>2, CallsMade, Questions DEF recv, DataInv, Objects, CallOf
<1>4. UNCHANGED <<request, calls, wire, reply, up, ran, cut, dropped>>
  BY DEF recv, provider
<1>5. /\ last' = last /\ Sent' = Sent /\ Slots' = Slots
  BY <1>4 DEF last, Sent, Slots
<1>6. /\ got'[last] = s /\ response'[m] = ParseFromArray(m, s).value
      /\ DOMAIN got' = Slots /\ DOMAIN response' = Methods
  BY <1>1, <1>3 DEF Objects
<1>7. Objects'
  BY <1>3, <1>4, <1>5, <1>6 DEF Objects, Asked, Fresh, CallOf
<1>8. \A c \in Sent' \ cut' : Unread(c)' \/ Answered(c)'
  BY <1>4, <1>5 DEF DataInv, Unread, Answered
<1>9. ASSUME up, last \notin cut
      PROVE  /\ Answered(last)
             /\ s = reply[last] => response'[m] = Answer(m, Fresh(q))
  <2>1. ran[last] # <<>>
    BY <1>9 DEF received, answers
  <2>2. Answered(last)
    BY <1>3, <1>9, <2>1 DEF DataInv, Unread
  <2>3. reply[last] = SerializeToString(ResponseType[m], Answer(m, Fresh(q)))
    BY <1>3, <2>2 DEF Answered
  <2>4. ReadBack(ResponseType[m], Answer(m, Fresh(q)))
    BY CodecAssumption DEF Fresh
  <2>5. ASSUME s = reply[last] PROVE response'[m] = Answer(m, Fresh(q))
    BY <1>3, <1>6, <2>3, <2>4, <2>5, Tables, ParsesBack DEF ParseFromArray
  <2> QED
    BY <2>2, <2>5
<1>10. Returned'
  <2>1. Answered(last)' <=> Answered(last)
    BY <1>4, <1>5 DEF Answered
  <2> QED
    BY <1>3, <1>4, <1>5, <1>6, <1>9, <2>1 DEF Returned
<1> QED
  BY <1>4, <1>5, <1>7, <1>8, <1>10 DEF DataInv, OnlyCutIsDropped

(* What any read leaves alone.                                             *)
LEMMA ReadFrame ==
  ASSUME DataInv, NEW c \in Sent, MessageRWCB(c)
  PROVE  /\ Objects' /\ last' = last /\ Sent' = Sent
         /\ UNCHANGED <<request, response, calls, got, status>>
         /\ cut \subseteq cut' /\ cut' \subseteq cut \union {c}
         /\ dropped' \subseteq dropped \union {c} /\ up
         /\ \A x \in Sent : x # c =>
              (Unread(x) => Unread(x)') /\ (Answered(x) => Answered(x)')
<1>1. /\ UNCHANGED <<request, response, calls, got, status>> /\ up
  BY DEF MessageRWCB, caller
<1>2. PICK n \in 1 .. Len(wire[c]) :
        /\ wire' = [wire EXCEPT ![c] = SubSeq(@, n + 1, Len(@))]
        /\ cut' = IF n < Len(wire[c]) THEN cut \union {c} ELSE cut
        /\ \/ MessageThrows(c, SubSeq(wire[c], 1, n))
           \/ MessageIgnored(c, SubSeq(wire[c], 1, n))
           \/ MessageRuns(c, SubSeq(wire[c], 1, n))
  BY DEF MessageRWCB
<1>3. cut \subseteq cut' /\ cut' \subseteq cut \union {c}
  BY <1>2
<1>4. /\ DOMAIN ran' = DOMAIN ran /\ DOMAIN reply' = DOMAIN reply
      /\ \A x : x # c /\ x \in Slots => ran'[x] = ran[x] /\ reply'[x] = reply[x]
      /\ dropped' \subseteq dropped \union {c}
  <2> DEFINE s == SubSeq(wire[c], 1, n)
  <2>0. DOMAIN ran = Slots /\ DOMAIN reply = Slots
    BY DEF DataInv, Objects
  <2>1. CASE MessageThrows(c, s)
    BY <2>1 DEF MessageThrows
  <2>2. CASE MessageIgnored(c, s)
    BY <2>2 DEF MessageIgnored
  <2>3. CASE MessageRuns(c, s)
    <3>1. PICK e \in understood(s) :
            LET T == GetResponsePrototype(e[1], e[2])
                req == parsed(s, e).value
            IN /\ ran' = [ran EXCEPT ![c] =
                       Append(@, [service |-> e[1], method |-> e[2], request |-> req])]
               /\ IF ran[c] = <<>>
                  THEN SendRpcResponse(c, T, Service_CallMethod(e[1], e[2], req, Defaults[T]))
                  ELSE UNCHANGED reply
      BY <2>3 DEF MessageRuns
    <3>2. dropped' = dropped
      BY <2>3 DEF MessageRuns
    <3>3. DOMAIN ran' = DOMAIN ran /\ \A x : x # c /\ x \in Slots => ran'[x] = ran[x]
      BY <2>0, <3>1
    <3>4. DOMAIN reply' = DOMAIN reply /\ \A x : x # c /\ x \in Slots => reply'[x] = reply[x]
      BY <2>0, <3>1 DEF SendRpcResponse
    <3> QED
      BY <3>2, <3>3, <3>4
  <2> QED
    BY <1>2, <2>1, <2>2, <2>3
<1>5. DOMAIN wire' = DOMAIN wire /\ \A x : x # c /\ x \in Slots => wire'[x] = wire[x]
  BY <1>2 DEF DataInv, Objects
<1>6. /\ last' = last /\ Sent' = Sent /\ Slots' = Slots
  BY <1>1 DEF last, Sent, Slots
<1>7. Objects'
  <2>1. \A x \in Slots \ Sent : x # c
    OBVIOUS
  <2> QED
    BY <1>1, <1>4, <1>5, <1>6, <2>1 DEF DataInv, Objects, Asked, Fresh, CallOf
<1>8. \A x \in Sent : x # c =>
        (Unread(x) => Unread(x)') /\ (Answered(x) => Answered(x)')
  <2>1. \A x \in Sent : x \in Slots
    BY CallsMade DEF DataInv
  <2> QED
    BY <1>1, <1>4, <1>5, <2>1 DEF Unread, Answered
<1> QED
  BY <1>1, <1>3, <1>4, <1>6, <1>7, <1>8

(* A request that is read whole is run, once, and answered.                *)
LEMMA WholeRead ==
  ASSUME DataInv, NEW c \in Sent, MessageRWCB(c), c \notin cut'
  PROVE  /\ ran[c] = <<>> /\ cut' = cut /\ dropped' = dropped /\ up' = up
         /\ Answered(c)'
<1>1. PICK n \in 1 .. Len(wire[c]) :
        /\ wire' = [wire EXCEPT ![c] = SubSeq(@, n + 1, Len(@))]
        /\ cut' = IF n < Len(wire[c]) THEN cut \union {c} ELSE cut
        /\ \/ MessageThrows(c, SubSeq(wire[c], 1, n))
           \/ MessageIgnored(c, SubSeq(wire[c], 1, n))
           \/ MessageRuns(c, SubSeq(wire[c], 1, n))
  BY DEF MessageRWCB
<1>2. ~(n < Len(wire[c])) /\ cut' = cut /\ c \notin cut
  BY <1>1
<1>3. PICK q \in Asks : calls[c] = CallOf(q)
  BY CallsMade DEF DataInv
<1> DEFINE m == q.method
<1> DEFINE r == Fresh(q)
<1> DEFINE s == message(m, r)
<1> DEFINE e == <<serviceOf(m), index(m)>>
<1>4. m \in Methods /\ calls[c].method = m /\ calls[c].request = r /\ c \in Slots
  BY <1>3, CallsMade, Questions DEF DataInv, CallOf
<1>5. Unread(c)
  <2>1. ASSUME Answered(c) PROVE FALSE
    <3>1. Len(wire[c]) = 0
      BY <2>1 DEF Answered
    <3> QED
      BY <1>1, <3>1
  <2> QED
    BY <1>2, <2>1 DEF DataInv
<1>6. wire[c] = s /\ ran[c] = <<>>
  BY <1>4, <1>5 DEF Unread
<1>7. /\ s \in Seq(Nat) /\ ~throws(s) /\ understood(s) = {e} /\ parsed(s, e).value = r
  BY WholeMessage
<1> HIDE DEF s
<1>8. n = Len(s) /\ SubSeq(s, 1, n) = s /\ SubSeq(s, n + 1, Len(s)) = <<>>
  <2>1. Len(s) \in Nat /\ n \in Nat
    BY <1>1, <1>6, <1>7, LenProperties
  <2>2. n = Len(s)
    BY <1>1, <1>2, <1>6, <2>1
  <2>3. SubSeq(s, 1, n) = s
    BY <1>7, <2>2, SubSeqFull
  <2>4. SubSeq(s, n + 1, n) = <<>>
    <3>1. n + 1 \in Int /\ n \in Int /\ n < n + 1
      BY <2>1
    <3> QED
      BY <3>1, SubSeqEmpty
  <2> QED
    BY <2>2, <2>3, <2>4
<1>9. MessageRuns(c, s)
  BY <1>1, <1>6, <1>7, <1>8 DEF MessageThrows, MessageIgnored
<1>10. /\ ran' = [ran EXCEPT ![c] =
              Append(@, [service |-> e[1], method |-> e[2], request |-> r])]
       /\ reply' = [reply EXCEPT ![c] =
            SerializeToString(GetResponsePrototype(e[1], e[2]),
              Service_CallMethod(e[1], e[2], r, Defaults[GetResponsePrototype(e[1], e[2])]))]
       /\ dropped' = dropped /\ up' = up
  BY <1>6, <1>7, <1>9 DEF MessageRuns, SendRpcResponse
<1>11. e[1] = serviceOf(m) /\ e[2] = index(m)
  OBVIOUS
<1>12. wire'[c] = <<>>
  BY <1>1, <1>4, <1>6, <1>8 DEF DataInv, Objects
<1>13. ran'[c] = <<Done(m, r)>>
  <2>1. ran'[c] = Append(<<>>, Done(m, r))
    BY <1>4, <1>6, <1>10, <1>11 DEF DataInv, Objects, Done
  <2> QED
    BY <2>1
<1>14. reply'[c] = SerializeToString(ResponseType[m], Answer(m, r))
  BY <1>4, <1>10, <1>11, Tables, ServiceAnswers DEF DataInv, Objects
<1>15. UNCHANGED calls
  BY DEF MessageRWCB, caller
<1> QED
  BY <1>2, <1>4, <1>6, <1>10, <1>12, <1>13, <1>14, <1>15 DEF Answered, Done

LEMMA ReadInv ==
  ASSUME DataInv, NEW c \in Sent, MessageRWCB(c)
  PROVE  DataInv'
<1>1. /\ Objects' /\ last' = last /\ Sent' = Sent
      /\ UNCHANGED <<request, response, calls, got, status>>
      /\ cut \subseteq cut' /\ cut' \subseteq cut \union {c}
      /\ dropped' \subseteq dropped \union {c} /\ up
      /\ \A x \in Sent : x # c =>
           (Unread(x) => Unread(x)') /\ (Answered(x) => Answered(x)')
  BY ReadFrame
<1>2. c \notin cut' =>
        /\ ran[c] = <<>> /\ cut' = cut /\ dropped' = dropped /\ up' = up /\ Answered(c)'
  BY WholeRead
<1>3. \A x \in Sent' \ cut' : Unread(x)' \/ Answered(x)'
  <2>1. ASSUME NEW x \in Sent, x \notin cut', x # c PROVE Unread(x)' \/ Answered(x)'
    BY <1>1, <2>1 DEF DataInv
  <2> QED
    BY <1>1, <1>2, <2>1
<1>4. OnlyCutIsDropped'
  BY <1>1, <1>2 DEF DataInv, OnlyCutIsDropped
<1>5. Returned'
  <2> SUFFICES ASSUME status = "ok", last \notin cut'
               PROVE  /\ Answered(last)'
                      /\ got[last] = reply'[last] =>
                           response[calls[last].method]
                             = Answer(calls[last].method, calls[last].request)
    BY <1>1 DEF Returned
  <2>1. /\ Answered(last) /\ last \in Sent
        /\ got[last] = reply[last] =>
             response[calls[last].method] = Answer(calls[last].method, calls[last].request)
    BY <1>1, CallsMade DEF DataInv, Returned, Objects
  <2>2. last # c
    <3> SUFFICES ASSUME last = c PROVE FALSE
      OBVIOUS
    <3>1. ran[last] = <<>>
      BY <1>2
    <3>2. ran[last] = <<Done(calls[last].method, calls[last].request)>>
      BY <2>1 DEF Answered
    <3>3. \A x : Len(<<x>>) = 1 /\ <<x>> # <<>>
      OBVIOUS
    <3> QED
      BY <3>1, <3>2, <3>3
  <2>3. Answered(last)'
    BY <1>1, <2>1, <2>2 DEF Answered
  <2>4. reply'[last] = reply[last]
    BY <1>1, <2>1, <2>3 DEF Answered
  <2> QED
    BY <2>1, <2>3, <2>4
<1> QED
  BY <1>1, <1>3, <1>4, <1>5 DEF DataInv

LEMMA DataNextInv == DataInv /\ [DataNext]_dataVars => DataInv'
<1> SUFFICES ASSUME DataInv, [DataNext]_dataVars PROVE DataInv'
  OBVIOUS
<1>1. ASSUME NEW ask \in Asks, CallMethod(ask) PROVE DataInv'
  BY <1>1, CallMethodInv
<1>2. CASE recv
  BY <1>2, RecvInv
<1>3. ASSUME NEW c \in Sent, MessageRWCB(c) PROVE DataInv'
  BY <1>3, ReadInv
<1>4. CASE UNCHANGED dataVars
  BY <1>4 DEF dataVars, caller, provider, DataInv, Objects, Sent, last, Slots, Unread,
     Answered, Returned, OnlyCutIsDropped, Asked, Fresh, CallOf
<1> QED
  BY <1>1, <1>2, <1>3, <1>4 DEF DataNext

------------------------------------------------------------------------------
(* The theorems.                                                           *)

LEMMA DataInvHolds == DataSpec => []DataInv
  BY DataInitInv, DataNextInv, PTL DEF DataSpec

(* Whatever callers ask and however their requests are cut, none that came *)
(* whole is dropped or ends the provider (rpcprovider.cc:107-145).         *)
THEOREM DataPathOnlyCutIsDropped == DataSpec => []OnlyCutIsDropped
<1>1. DataInv => OnlyCutIsDropped
  BY DEF DataInv
<1> QED
  BY <1>1, DataInvHolds, PTL

(* A request that came whole is run at most once, by the method that the   *)
(* caller named and as the caller filled it (jhRpcChannel.cc:36-55,        *)
(* rpcprovider.cc:107-175).                                                *)
THEOREM DataPathWholeRequestRuns == DataSpec => []WholeRequestRuns
<1>1. DataInv => WholeRequestRuns
  <2> SUFFICES ASSUME DataInv, NEW c \in Sent \ cut
               PROVE  /\ OwnMethod(c)
                      /\ \A i \in DOMAIN ran[c] : ran[c][i].request = calls[c].request
    BY DEF WholeRequestRuns
  <2>1. calls[c].method \in Methods
    <3>1. PICK q \in Asks : calls[c] = CallOf(q)
      BY CallsMade DEF DataInv
    <3> QED
      BY <3>1, Questions DEF CallOf
  <2>2. CASE Unread(c)
    BY <2>2 DEF Unread, OwnMethod
  <2>3. CASE Answered(c)
    BY <2>1, <2>3, Tables DEF Answered, Done, OwnMethod
  <2> QED
    BY <2>2, <2>3 DEF DataInv
<1> QED
  BY <1>1, DataInvHolds, PTL

(* A caller that got the whole reply to a whole request has in its         *)
(* response what the service makes of that request, and nothing of an      *)
(* earlier answer (jhRpcChannel.cc:141, rpcprovider.cc:182).               *)
THEOREM DataPathAnswerIsService == DataSpec => []AnswerIsService
<1>1. DataInv => AnswerIsService
  <2> SUFFICES ASSUME DataInv, status = "ok", up, last \notin cut, got[last] = reply[last]
               PROVE  response[calls[last].method]
                        = Answer(calls[last].method, request[calls[last].method])
    BY DEF AnswerIsService
  <2> QED
    BY DEF DataInv, Returned, Objects
<1> QED
  BY <1>1, DataInvHolds, PTL

------------------------------------------------------------------------------
(* The buffer: its constants.                                              *)

LEMMA ConstantTypes ==
  /\ CheapPrepend \in Nat /\ InitialSize \in Nat
  /\ ExtraSize \in Nat /\ MaxReadable \in Nat
  /\ Zero \in Byte
  /\ \A d \in Data : d \in Seq(Byte)
  BY BufferAssumption

USE ConstantTypes

------------------------------------------------------------------------------
(* Storing and resizing.                                                   *)

LEMMA FunctionIsSeq ==
  ASSUME NEW S, NEW n \in Nat, NEW f, f \in [1 .. n -> S]
  PROVE  f \in Seq(S) /\ Len(f) = n /\ DOMAIN f = 1 .. n
  OBVIOUS

LEMMA StoreProperties ==
  ASSUME NEW s \in Seq(Byte), NEW w \in Nat, NEW d \in Seq(Byte)
  PROVE  /\ store(s, w, d) \in Seq(Byte)
         /\ Len(store(s, w, d)) = Len(s)
         /\ \A i \in 1 .. Len(s) :
              store(s, w, d)[i] = IF i \in w + 1 .. w + Len(d)
                                  THEN d[i - w] ELSE s[i]
<1>1. /\ Len(s) \in Nat /\ Len(d) \in Nat
      /\ \A i \in 1 .. Len(s) : s[i] \in Byte
      /\ \A i \in 1 .. Len(d) : d[i] \in Byte
  BY LenProperties, ElementOfSeq
<1>2. store(s, w, d) \in [1 .. Len(s) -> Byte]
  <2>1. ASSUME NEW i \in 1 .. Len(s)
        PROVE (IF i \in w + 1 .. w + Len(d) THEN d[i - w] ELSE s[i]) \in Byte
    <3>1. CASE i \in w + 1 .. w + Len(d)
      <4>1. i - w \in 1 .. Len(d)
        BY <1>1, <3>1
      <4> QED
        BY <1>1, <3>1, <4>1
    <3>2. CASE i \notin w + 1 .. w + Len(d)
      BY <1>1, <3>2
    <3> QED
      BY <3>1, <3>2
  <2> QED
    BY <2>1 DEF store
<1>3. \A i \in 1 .. Len(s) :
        store(s, w, d)[i] = IF i \in w + 1 .. w + Len(d)
                            THEN d[i - w] ELSE s[i]
  BY DEF store
<1> QED
  BY <1>1, <1>2, <1>3, FunctionIsSeq

LEMMA ResizeProperties ==
  ASSUME NEW s \in Seq(Byte), NEW n \in Nat, Len(s) <= n
  PROVE  /\ resize(s, n) \in Seq(Byte)
         /\ Len(resize(s, n)) = n
         /\ \A i \in 1 .. Len(s) : resize(s, n)[i] = s[i]
<1>1. Len(s) \in Nat /\ \A i \in 1 .. Len(s) : s[i] \in Byte
  BY LenProperties, ElementOfSeq
<1>2. resize(s, n) \in [1 .. n -> Byte]
  BY <1>1 DEF resize
<1>3. \A i \in 1 .. Len(s) : resize(s, n)[i] = s[i]
  BY <1>1 DEF resize
<1> QED
  BY <1>2, <1>3, FunctionIsSeq

LEMMA ContentsProperties ==
  ASSUME NEW b, BufOK(b)
  PROVE  /\ readableBytes(b) \in Nat
         /\ contents(b) \in Seq(Byte)
         /\ Len(contents(b)) = readableBytes(b)
         /\ \A i \in 1 .. readableBytes(b) :
              contents(b)[i] = b.buffer_[b.readerIndex_ + i]
<1>1. /\ b.buffer_ \in Seq(Byte) /\ Len(b.buffer_) \in Nat
      /\ \A i \in 1 .. Len(b.buffer_) : b.buffer_[i] \in Byte
  BY LenProperties, ElementOfSeq DEF BufOK
<1>2. readableBytes(b) \in Nat
  BY DEF BufOK, Indices, readableBytes
<1>3. contents(b) \in [1 .. readableBytes(b) -> Byte]
  <2>1. ASSUME NEW i \in 1 .. readableBytes(b)
        PROVE  b.buffer_[b.readerIndex_ + i] \in Byte
    <3>1. b.readerIndex_ + i \in 1 .. Len(b.buffer_)
      BY <1>1 DEF BufOK, Indices, readableBytes
    <3> QED
      BY <1>1, <3>1
  <2> QED
    BY <2>1 DEF contents
<1> QED
  BY <1>2, <1>3, FunctionIsSeq DEF contents
LEMMA SameContents ==
  ASSUME NEW b, BufOK(b), NEW c, BufOK(c),
         readableBytes(b) = readableBytes(c),
         \A i \in 1 .. readableBytes(b) :
            b.buffer_[b.readerIndex_ + i] = c.buffer_[c.readerIndex_ + i]
  PROVE  contents(b) = contents(c)
  BY DEF contents

------------------------------------------------------------------------------
(* Making room.                                                            *)

LEMMA GrowProperties ==
  ASSUME NEW b, BufOK(b), NEW len \in Nat, writableBytes(b) < len
  PROVE  /\ BufOK(grow(b, len))
         /\ contents(grow(b, len)) = contents(b)
         /\ writableBytes(grow(b, len)) = len
         /\ readableBytes(grow(b, len)) = readableBytes(b)
         /\ Len(grow(b, len).buffer_) = b.writerIndex_ + len
<1> DEFINE n == b.writerIndex_ + len
           g == grow(b, len)
<1>1. /\ b.buffer_ \in Seq(Byte) /\ Len(b.buffer_) \in Nat
      /\ b.readerIndex_ \in Nat /\ b.writerIndex_ \in Nat
      /\ b.readerIndex_ <= b.writerIndex_ /\ b.writerIndex_ <= Len(b.buffer_)
      /\ CheapPrepend <= b.readerIndex_
  BY LenProperties DEF BufOK, Indices
<1>2. n \in Nat /\ Len(b.buffer_) <= n
  BY <1>1 DEF writableBytes
<1>3. /\ resize(b.buffer_, n) \in Seq(Byte)
      /\ Len(resize(b.buffer_, n)) = n
      /\ \A i \in 1 .. Len(b.buffer_) : resize(b.buffer_, n)[i] = b.buffer_[i]
  BY <1>1, <1>2, ResizeProperties
<1>4. /\ g \in [buffer_ : Seq(Byte), readerIndex_ : Nat, writerIndex_ : Nat]
      /\ g.buffer_ = resize(b.buffer_, n)
      /\ g.readerIndex_ = b.readerIndex_ /\ g.writerIndex_ = b.writerIndex_
  BY <1>3 DEF grow, BufOK
<1>5. BufOK(g)
  BY <1>1, <1>2, <1>3, <1>4 DEF BufOK, Indices
<1>6. readableBytes(g) = readableBytes(b) /\ writableBytes(g) = len
  BY <1>1, <1>3, <1>4 DEF readableBytes, writableBytes
<1>7. \A i \in 1 .. readableBytes(b) : b.readerIndex_ + i \in 1 .. Len(b.buffer_)
  BY <1>1 DEF readableBytes
<1>8. contents(g) = contents(b)
  BY <1>3, <1>4, <1>5, <1>6, <1>7, SameContents
<1> QED
  BY <1>3, <1>4, <1>5, <1>6, <1>8

LEMMA CompactProperties ==
  ASSUME NEW b, BufOK(b)
  PROVE  /\ BufOK(compact(b))
         /\ contents(compact(b)) = contents(b)
         /\ readableBytes(compact(b)) = readableBytes(b)
         /\ Len(compact(b).buffer_) = Len(b.buffer_)
         /\ writableBytes(compact(b)) =
              Len(b.buffer_) - CheapPrepend - readableBytes(b)
<1> DEFINE c == compact(b)
           r == readableBytes(b)
<1>1. /\ b.buffer_ \in Seq(Byte) /\ Len(b.buffer_) \in Nat
      /\ b.readerIndex_ \in Nat /\ b.writerIndex_ \in Nat
      /\ b.readerIndex_ <= b.writerIndex_ /\ b.writerIndex_ <= Len(b.buffer_)
      /\ CheapPrepend <= b.readerIndex_
  BY LenProperties DEF BufOK, Indices
<1>2. /\ r \in Nat /\ contents(b) \in Seq(Byte) /\ Len(contents(b)) = r
      /\ \A i \in 1 .. r : contents(b)[i] = b.buffer_[b.readerIndex_ + i]
  BY ContentsProperties
<1>3. CheapPrepend + r <= Len(b.buffer_)
  BY <1>1 DEF readableBytes
<1>4. /\ c.buffer_ = store(b.buffer_, CheapPrepend, contents(b))
      /\ c.readerIndex_ = CheapPrepend
      /\ c.writerIndex_ = CheapPrepend + r
  BY DEF compact
<1>5. /\ c.buffer_ \in Seq(Byte) /\ Len(c.buffer_) = Len(b.buffer_)
      /\ \A i \in 1 .. Len(b.buffer_) :
           c.buffer_[i] = IF i \in CheapPrepend + 1 .. CheapPrepend + r
                          THEN contents(b)[i - CheapPrepend]
                          ELSE b.buffer_[i]
  <2> DEFINE st == store(b.buffer_, CheapPrepend, contents(b))
  <2>1. /\ st \in Seq(Byte) /\ Len(st) = Len(b.buffer_)
        /\ \A i \in 1 .. Len(b.buffer_) :
             st[i] = IF i \in CheapPrepend + 1 .. CheapPrepend + Len(contents(b))
                     THEN contents(b)[i - CheapPrepend] ELSE b.buffer_[i]
    BY <1>1, <1>2, ConstantTypes, StoreProperties
  <2> HIDE DEF c
  <2> QED
    BY <1>2, <1>4, <2>1
<1>6. BufOK(c)
  <2>1. c \in [buffer_ : Seq(Byte), readerIndex_ : Nat, writerIndex_ : Nat]
    BY <1>2, <1>4, <1>5 DEF compact
  <2> QED
    BY <1>2, <1>3, <1>4, <1>5, <2>1 DEF BufOK, Indices
<1>7. /\ readableBytes(c) = r
      /\ writableBytes(c) = Len(b.buffer_) - CheapPrepend - r
  BY <1>1, <1>2, <1>4, <1>5 DEF readableBytes, writableBytes
<1>8. contents(c) = contents(b)
  <2>1. ASSUME NEW i \in 1 .. r
        PROVE  c.buffer_[c.readerIndex_ + i] = b.buffer_[b.readerIndex_ + i]
    <3>1. /\ CheapPrepend + i \in 1 .. Len(b.buffer_)
          /\ CheapPrepend + i \in CheapPrepend + 1 .. CheapPrepend + r
          /\ CheapPrepend + i - CheapPrepend = i
      BY <1>2, <1>3
    <3> QED
      BY <1>2, <1>4, <1>5, <3>1
  <2> QED
    BY <1>6, <1>7, <2>1, SameContents
<1> QED
  BY <1>5, <1>6, <1>7, <1>8

LEMMA GrowthArithmetic ==
  ASSUME NEW size \in Nat, NEW r \in Nat, NEW w \in Nat, NEW len \in Nat,
         NEW c \in Nat, r <= w, w <= size, (size - w) + r < len + c
  PROVE  w + len <= 2 * ((w - r) + len) + c
  OBVIOUS

(* After ensureWriteableBytes there is room, the bytes are the same, and   *)
(* the vector has grown only if moving them would not have made the room.  *)
LEMMA EnsureProperties ==
  ASSUME NEW b, BufOK(b), NEW len \in Nat
  PROVE  LET e == ensureWriteableBytes(b, len)
         IN /\ BufOK(e)
            /\ contents(e) = contents(b)
            /\ readableBytes(e) = readableBytes(b)
            /\ writableBytes(e) >= len
            /\ \/ Len(e.buffer_) = Len(b.buffer_)
               \/ Len(e.buffer_) <= 2 * (readableBytes(b) + len) + CheapPrepend
<1>0. /\ Len(b.buffer_) \in Nat
      /\ b.readerIndex_ \in Nat /\ b.writerIndex_ \in Nat
      /\ b.readerIndex_ <= b.writerIndex_ /\ b.writerIndex_ <= Len(b.buffer_)
  BY LenProperties DEF BufOK, Indices
<1>1. CASE writableBytes(b) >= len
  BY <1>0, <1>1 DEF ensureWriteableBytes, writableBytes
<1>2. CASE writableBytes(b) < len /\ mustGrow(b, len)
  <2>1. ensureWriteableBytes(b, len) = grow(b, len)
    BY <1>2 DEF ensureWriteableBytes, makeSpace
  <2>2. b.writerIndex_ + len <= 2 * (readableBytes(b) + len) + CheapPrepend
    <3>1. /\ (Len(b.buffer_) - b.writerIndex_) + b.readerIndex_
               < len + CheapPrepend
          /\ readableBytes(b) = b.writerIndex_ - b.readerIndex_
      BY <1>2 DEF mustGrow, writableBytes, prependableBytes, readableBytes
    <3> QED
      BY <1>0, <3>1, GrowthArithmetic
  <2> QED
    BY <1>2, <2>1, <2>2, GrowProperties
<1>3. CASE writableBytes(b) < len /\ ~mustGrow(b, len)
  <2>1. ensureWriteableBytes(b, len) = compact(b)
    BY <1>3 DEF ensureWriteableBytes, makeSpace
  <2>2. Len(b.buffer_) - CheapPrepend - readableBytes(b) >= len
    BY <1>0, <1>3
       DEF mustGrow, writableBytes, prependableBytes, readableBytes
  <2> QED
    BY <2>1, <2>2, CompactProperties
<1> QED
  BY <1>0, <1>1, <1>2, <1>3 DEF writableBytes
------------------------------------------------------------------------------
(* Writing and reading.                                                    *)

LEMMA WriteArithmetic ==
  ASSUME NEW x \in Nat, NEW r \in Nat, NEW n \in Nat, NEW i \in 1 .. r + n
  PROVE  /\ i <= r => i \in 1 .. r /\ x + i \notin (x + r) + 1 .. (x + r) + n
         /\ ~(i <= r) => /\ x + i \in (x + r) + 1 .. (x + r) + n
                         /\ (x + i) - (x + r) = i - r
  OBVIOUS

LEMMA WriteProperties ==
  ASSUME NEW b, BufOK(b), NEW d \in Seq(Byte), Len(d) <= writableBytes(b)
  PROVE  /\ BufOK(write(b, d))
         /\ contents(write(b, d)) = contents(b) \o d
         /\ readableBytes(write(b, d)) = readableBytes(b) + Len(d)
         /\ Len(write(b, d).buffer_) = Len(b.buffer_)
<1> DEFINE e == write(b, d)
           r == readableBytes(b)
<1>1. /\ b.buffer_ \in Seq(Byte) /\ Len(b.buffer_) \in Nat
      /\ b.readerIndex_ \in Nat /\ b.writerIndex_ \in Nat
      /\ b.readerIndex_ <= b.writerIndex_ /\ b.writerIndex_ <= Len(b.buffer_)
      /\ CheapPrepend <= b.readerIndex_
      /\ Len(d) \in Nat
      /\ b.writerIndex_ + Len(d) <= Len(b.buffer_)
  BY LenProperties DEF BufOK, Indices, writableBytes
<1>2. /\ r \in Nat /\ contents(b) \in Seq(Byte) /\ Len(contents(b)) = r
      /\ \A i \in 1 .. r : contents(b)[i] = b.buffer_[b.readerIndex_ + i]
  BY ContentsProperties
<1>0. r \in Nat /\ b.readerIndex_ + r = b.writerIndex_
  BY <1>1 DEF readableBytes
<1>3. /\ store(b.buffer_, b.writerIndex_, d) \in Seq(Byte)
      /\ Len(store(b.buffer_, b.writerIndex_, d)) = Len(b.buffer_)
      /\ \A i \in 1 .. Len(b.buffer_) :
           store(b.buffer_, b.writerIndex_, d)[i] =
             IF i \in b.writerIndex_ + 1 .. b.writerIndex_ + Len(d)
             THEN d[i - b.writerIndex_] ELSE b.buffer_[i]
  BY <1>1, StoreProperties
<1>4. /\ e \in [buffer_ : Seq(Byte), readerIndex_ : Nat, writerIndex_ : Nat]
      /\ e.buffer_ = store(b.buffer_, b.writerIndex_, d)
      /\ e.readerIndex_ = b.readerIndex_
      /\ e.writerIndex_ = b.writerIndex_ + Len(d)
  <2>1. b \in [buffer_ : Seq(Byte), readerIndex_ : Nat, writerIndex_ : Nat]
    BY DEF BufOK
  <2>2. /\ e.buffer_ = store(b.buffer_, b.writerIndex_, d)
        /\ e.readerIndex_ = b.readerIndex_
        /\ e.writerIndex_ = b.writerIndex_ + Len(d)
    BY <2>1 DEF write
  <2>3. b.writerIndex_ + Len(d) \in Nat
    BY <1>1
  <2>4. e \in [buffer_ : Seq(Byte), readerIndex_ : Nat, writerIndex_ : Nat]
    BY <1>3, <2>1, <2>3 DEF write
  <2> QED
    BY <2>2, <2>4
<1>5. BufOK(e)
  BY <1>1, <1>3, <1>4 DEF BufOK, Indices
<1>6. readableBytes(e) = r + Len(d)
  BY <1>1, <1>4 DEF readableBytes
<1>7. contents(e) = contents(b) \o d
  <2>1. /\ contents(e) \in Seq(Byte) /\ Len(contents(e)) = r + Len(d)
        /\ \A i \in 1 .. r + Len(d) :
             contents(e)[i] = e.buffer_[b.readerIndex_ + i]
    BY <1>4, <1>5, <1>6, ContentsProperties
  <2>2. /\ contents(b) \o d \in Seq(Byte)
        /\ Len(contents(b) \o d) = r + Len(d)
        /\ \A i \in 1 .. r + Len(d) :
             (contents(b) \o d)[i] = IF i <= r THEN contents(b)[i]
                                               ELSE d[i - r]
    <3>1. /\ contents(b) \o d \in Seq(Byte)
          /\ Len(contents(b) \o d) = Len(contents(b)) + Len(d)
          /\ \A i \in 1 .. Len(contents(b)) + Len(d) :
               (contents(b) \o d)[i] = IF i <= Len(contents(b))
                                       THEN contents(b)[i]
                                       ELSE d[i - Len(contents(b))]
      BY <1>2, ConcatProperties
    <3>2. Len(contents(b)) = r
      BY <1>2
    <3> QED
      BY <3>1, <3>2
  <2>3. ASSUME NEW i \in 1 .. r + Len(d)
        PROVE  contents(e)[i] = (contents(b) \o d)[i]
    <3>1. b.readerIndex_ + i \in 1 .. Len(b.buffer_)
      BY <1>0, <1>1
    <3>2. b.writerIndex_ = b.readerIndex_ + r /\ Len(d) \in Nat
      BY <1>0, <1>1
    <3>3. CASE i <= r
      <4>1. /\ i \in 1 .. r
            /\ b.readerIndex_ + i
                 \notin b.writerIndex_ + 1 .. b.writerIndex_ + Len(d)
        BY <1>0, <1>1, <3>2, <3>3, WriteArithmetic
      <4>2. contents(e)[i] = b.buffer_[b.readerIndex_ + i]
        BY <1>3, <1>4, <2>1, <3>1, <4>1
      <4> QED
        BY <1>2, <2>2, <3>3, <4>1, <4>2
    <3>4. CASE ~(i <= r)
      <4>1. /\ b.readerIndex_ + i
                 \in b.writerIndex_ + 1 .. b.writerIndex_ + Len(d)
            /\ (b.readerIndex_ + i) - b.writerIndex_ = i - r
        BY <1>0, <1>1, <3>2, <3>4, WriteArithmetic
      <4>2. contents(e)[i] = d[i - r]
        BY <1>3, <1>4, <2>1, <3>1, <4>1
      <4> QED
        BY <2>2, <3>4, <4>2
    <3> QED
      BY <3>3, <3>4
  <2> QED
    BY <2>1, <2>2, <2>3, SeqEqual
<1> QED
  BY <1>3, <1>4, <1>5, <1>6, <1>7

LEMMA BufAppendProperties ==
  ASSUME NEW b, BufOK(b), NEW d \in Seq(Byte)
  PROVE  /\ BufOK(append(b, d))
         /\ contents(append(b, d)) = contents(b) \o d
         /\ readableBytes(append(b, d)) = readableBytes(b) + Len(d)
         /\ \/ Len(append(b, d).buffer_) = Len(b.buffer_)
            \/ Len(append(b, d).buffer_)
                 <= 2 * readableBytes(append(b, d)) + CheapPrepend
<1> DEFINE e == ensureWriteableBytes(b, Len(d))
<1>1. Len(d) \in Nat
  BY LenProperties
<1>2. /\ BufOK(e) /\ contents(e) = contents(b)
      /\ readableBytes(e) = readableBytes(b)
      /\ writableBytes(e) >= Len(d)
      /\ \/ Len(e.buffer_) = Len(b.buffer_)
         \/ Len(e.buffer_) <= 2 * (readableBytes(b) + Len(d)) + CheapPrepend
  BY <1>1, EnsureProperties
<1>3. Len(e.buffer_) \in Nat /\ e.writerIndex_ \in Nat
  BY <1>2, LenProperties DEF BufOK
<1>4. Len(d) <= writableBytes(e)
  BY <1>1, <1>2, <1>3 DEF writableBytes
<1>5. /\ BufOK(write(e, d))
      /\ contents(write(e, d)) = contents(e) \o d
      /\ readableBytes(write(e, d)) = readableBytes(e) + Len(d)
      /\ Len(write(e, d).buffer_) = Len(e.buffer_)
  BY <1>2, <1>4, WriteProperties
<1>6. append(b, d) = write(e, d)
  BY DEF append
<1>7. readableBytes(append(b, d)) = readableBytes(b) + Len(d)
  BY <1>2, <1>5, <1>6
<1>8. Len(append(b, d).buffer_) = Len(e.buffer_)
  BY <1>5, <1>6
<1>9. BufOK(append(b, d)) /\ contents(append(b, d)) = contents(b) \o d
  BY <1>2, <1>5, <1>6
<1>10. \/ Len(append(b, d).buffer_) = Len(b.buffer_)
       \/ Len(append(b, d).buffer_)
            <= 2 * readableBytes(append(b, d)) + CheapPrepend
  BY <1>2, <1>7, <1>8
<1> QED
  BY <1>7, <1>9, <1>10
LEMMA RetrieveProperties ==
  ASSUME NEW b, BufOK(b), NEW n \in Nat, n <= readableBytes(b)
  PROVE  /\ BufOK(retrieve(b, n))
         /\ contents(retrieve(b, n)) = SubSeq(contents(b), n + 1, readableBytes(b))
         /\ readableBytes(retrieve(b, n)) = readableBytes(b) - n
         /\ Len(retrieve(b, n).buffer_) = Len(b.buffer_)
<1> DEFINE e == retrieve(b, n)
           r == readableBytes(b)
           rest == SubSeq(contents(b), n + 1, r)
<1>1. /\ b.buffer_ \in Seq(Byte) /\ Len(b.buffer_) \in Nat
      /\ b.readerIndex_ \in Nat /\ b.writerIndex_ \in Nat
      /\ b.readerIndex_ <= b.writerIndex_ /\ b.writerIndex_ <= Len(b.buffer_)
      /\ CheapPrepend <= b.readerIndex_
      /\ b \in [buffer_ : Seq(Byte), readerIndex_ : Nat, writerIndex_ : Nat]
  BY LenProperties DEF BufOK, Indices
<1>2. r \in Nat /\ b.readerIndex_ + r = b.writerIndex_
  BY <1>1 DEF readableBytes
<1>3. /\ contents(b) \in Seq(Byte) /\ Len(contents(b)) = r
      /\ \A i \in 1 .. r : contents(b)[i] = b.buffer_[b.readerIndex_ + i]
  BY ContentsProperties
<1>4. /\ rest \in Seq(Byte) /\ Len(rest) = r - n
      /\ \A i \in 1 .. r - n : rest[i] = contents(b)[n + i]
  <2>1. \A i \in n + 1 .. r : contents(b)[i] \in Byte
    BY <1>2, <1>3, ElementOfSeq
  <2>2. /\ rest \in Seq(Byte)
        /\ Len(rest) = IF n + 1 <= r THEN r - (n + 1) + 1 ELSE 0
        /\ \A i \in 1 .. r - (n + 1) + 1 : rest[i] = contents(b)[n + 1 + i - 1]
    BY <1>2, <2>1, SubSeqProperties
  <2>3. \A i \in 1 .. r - n : n + 1 + i - 1 = n + i
    BY <1>2
  <2>4. r - (n + 1) + 1 = r - n
    BY <1>2
  <2> QED
    BY <1>2, <2>2, <2>3, <2>4
<1>5. CASE n < r
  <2>1. /\ e.buffer_ = b.buffer_
        /\ e.readerIndex_ = b.readerIndex_ + n
        /\ e.writerIndex_ = b.writerIndex_
    BY <1>1, <1>5 DEF retrieve
  <2>2. b.readerIndex_ + n \in Nat
    BY <1>1
  <2>3. e \in [buffer_ : Seq(Byte), readerIndex_ : Nat, writerIndex_ : Nat]
    BY <1>1, <1>5, <2>2 DEF retrieve
  <2>4. BufOK(e)
    BY <1>1, <1>2, <1>5, <2>1, <2>3 DEF BufOK, Indices
  <2>5. readableBytes(e) = r - n
    BY <1>1, <1>2, <2>1 DEF readableBytes
  <2>6. contents(e) = rest
    <3>1. /\ contents(e) \in Seq(Byte) /\ Len(contents(e)) = r - n
          /\ \A i \in 1 .. r - n :
               contents(e)[i] = b.buffer_[b.readerIndex_ + n + i]
      BY <2>1, <2>4, <2>5, ContentsProperties
    <3>2. ASSUME NEW i \in 1 .. r - n PROVE contents(e)[i] = rest[i]
      <4>1. /\ n + i \in 1 .. r
            /\ b.readerIndex_ + n + i = b.readerIndex_ + (n + i)
        BY <1>1, <1>2
      <4> QED
        BY <1>3, <1>4, <3>1, <4>1
    <3> QED
      BY <1>4, <3>1, <3>2, SeqEqual
  <2> QED
    BY <2>1, <2>4, <2>5, <2>6
<1>6. CASE n = r
  <2>1. /\ e.buffer_ = b.buffer_
        /\ e.readerIndex_ = CheapPrepend /\ e.writerIndex_ = CheapPrepend
    BY <1>1, <1>2, <1>6 DEF retrieve, retrieveAll
  <2>2. e \in [buffer_ : Seq(Byte), readerIndex_ : Nat, writerIndex_ : Nat]
    BY <1>1, <1>2, <1>6 DEF retrieve, retrieveAll
  <2>3. BufOK(e)
    BY <1>1, <2>1, <2>2 DEF BufOK, Indices
  <2>4. readableBytes(e) = 0
    BY <2>1 DEF readableBytes
  <2>5. contents(e) = rest
    <3>1. contents(e) \in Seq(Byte) /\ Len(contents(e)) = 0
      BY <2>3, <2>4, ContentsProperties
    <3>2. Len(rest) = 0
      BY <1>2, <1>4, <1>6
    <3> QED
      BY <1>4, <3>1, <3>2, EmptySeq
  <2> QED
    BY <1>2, <1>6, <2>1, <2>3, <2>4, <2>5
<1> QED
  BY <1>2, <1>5, <1>6

LEMMA SplitString ==
  ASSUME NEW d \in Seq(Byte), NEW w \in Nat, w <= Len(d)
  PROVE  /\ SubSeq(d, 1, w) \in Seq(Byte)
         /\ Len(SubSeq(d, 1, w)) = w
         /\ SubSeq(d, w + 1, Len(d)) \in Seq(Byte)
         /\ Len(SubSeq(d, w + 1, Len(d))) = Len(d) - w
         /\ SubSeq(d, 1, w) \o SubSeq(d, w + 1, Len(d)) = d
<1>1. Len(d) \in Nat /\ \A i \in 1 .. Len(d) : d[i] \in Byte
  BY LenProperties, ElementOfSeq
<1>2. /\ SubSeq(d, 1, w) \in Seq(Byte)
      /\ Len(SubSeq(d, 1, w)) = IF 1 <= w THEN w - 1 + 1 ELSE 0
      /\ \A i \in 1 .. w - 1 + 1 : SubSeq(d, 1, w)[i] = d[1 + i - 1]
  BY <1>1, SubSeqProperties
<1>3. /\ SubSeq(d, w + 1, Len(d)) \in Seq(Byte)
      /\ Len(SubSeq(d, w + 1, Len(d)))
           = IF w + 1 <= Len(d) THEN Len(d) - (w + 1) + 1 ELSE 0
      /\ \A i \in 1 .. Len(d) - (w + 1) + 1 :
           SubSeq(d, w + 1, Len(d))[i] = d[w + 1 + i - 1]
  BY <1>1, SubSeqProperties
<1>4. /\ Len(SubSeq(d, 1, w)) = w
      /\ Len(SubSeq(d, w + 1, Len(d))) = Len(d) - w
  BY <1>1, <1>2, <1>3
<1>5. SubSeq(d, 1, w) \o SubSeq(d, w + 1, Len(d)) = SubSeq(d, 1, Len(d))
  <2>1. /\ 1 \in 1 .. Len(d) + 1
        /\ w \in 1 - 1 .. Len(d)
        /\ Len(d) \in w .. Len(d)
    BY <1>1
  <2> QED
    BY <2>1, ConcatAdjacentSubSeq
<1>6. SubSeq(d, 1, Len(d)) = d
  BY SubSeqFull
<1> QED
  BY <1>2, <1>3, <1>4, <1>5, <1>6

LEMMA ByteConcat ==
  ASSUME NEW x \in Seq(Byte), NEW y \in Seq(Byte), NEW z \in Seq(Byte)
  PROVE  (x \o y) \o z = x \o (y \o z)
BY ConcatAssociative

LEMMA ReadvProperties ==
  ASSUME NEW b, BufOK(b), NEW d \in Seq(Byte)
  PROVE  /\ BufOK(readvInto(b, d))
         /\ contents(readvInto(b, d)) = contents(b) \o d
         /\ \/ Len(readvInto(b, d).buffer_) = Len(b.buffer_)
            \/ Len(readvInto(b, d).buffer_)
                 <= 2 * readableBytes(readvInto(b, d)) + CheapPrepend
<1> DEFINE w == writableBytes(b)
           s == SubSeq(d, 1, w)
           t == SubSeq(d, w + 1, Len(d))
<1>1. Len(d) \in Nat /\ w \in Nat
  BY LenProperties DEF BufOK, Indices, writableBytes
<1>2. CASE Len(d) <= w
  <2>1. readvInto(b, d) = write(b, d)
    BY <1>2 DEF readvInto
  <2> QED
    BY <1>2, <2>1, WriteProperties
<1>3. CASE ~(Len(d) <= w)
  <2>1. readvInto(b, d) = append(write(b, s), t)
    BY <1>3 DEF readvInto
  <2>2. w <= Len(d)
    BY <1>1, <1>3
  <2>3. /\ s \in Seq(Byte) /\ t \in Seq(Byte)
        /\ Len(s) <= writableBytes(b)
        /\ s \o t = d
    <3>1. /\ s \in Seq(Byte) /\ Len(s) = w
          /\ t \in Seq(Byte) /\ s \o t = d
      BY <1>1, <2>2, SplitString
    <3>2. Len(s) <= w
      BY <1>1, <3>1
    <3> QED
      BY <3>1, <3>2
  <2>4. /\ BufOK(write(b, s))
        /\ contents(write(b, s)) = contents(b) \o s
        /\ Len(write(b, s).buffer_) = Len(b.buffer_)
    BY <2>3, WriteProperties
  <2>5. /\ BufOK(append(write(b, s), t))
        /\ contents(append(write(b, s), t)) = contents(write(b, s)) \o t
        /\ \/ Len(append(write(b, s), t).buffer_) = Len(write(b, s).buffer_)
           \/ Len(append(write(b, s), t).buffer_)
                <= 2 * readableBytes(append(write(b, s), t)) + CheapPrepend
    BY <2>3, <2>4, BufAppendProperties
  <2>6. (contents(b) \o s) \o t = contents(b) \o (s \o t)
    <3>1. contents(b) \in Seq(Byte)
      BY ContentsProperties
    <3> QED
      BY <2>3, <3>1, ByteConcat
  <2> QED
    BY <2>1, <2>3, <2>4, <2>5, <2>6
<1> QED
  BY <1>2, <1>3

------------------------------------------------------------------------------
(* The invariant.                                                          *)

BufferInv == TypeOK /\ MemoryBounded /\ readableBytes(buf) <= peak

LEMMA InitInv == Init => BufferInv
<1> SUFFICES ASSUME Init PROVE BufferInv
  OBVIOUS
<1> DEFINE zeros == [i \in 1 .. CheapPrepend + InitialSize |-> Zero]
<1>1. CheapPrepend + InitialSize \in Nat
  BY ConstantTypes
<1>2. zeros \in Seq(Byte) /\ Len(zeros) = CheapPrepend + InitialSize
  <2>1. zeros \in [1 .. CheapPrepend + InitialSize -> Byte]
    BY ConstantTypes
  <2> QED
    BY <1>1, <2>1, FunctionIsSeq
<1>3. /\ buf.buffer_ = zeros
      /\ buf.readerIndex_ = CheapPrepend /\ buf.writerIndex_ = CheapPrepend
      /\ buf \in [buffer_ : Seq(Byte), readerIndex_ : Nat, writerIndex_ : Nat]
  BY <1>2, ConstantTypes DEF Init
<1>4. BufOK(buf) /\ readableBytes(buf) = 0
  BY <1>2, <1>3, ConstantTypes DEF BufOK, Indices, readableBytes
<1> QED
  BY <1>2, <1>3, <1>4, EmptySeq DEF Init, BufferInv, TypeOK, MemoryBounded

(* A new buffer keeps the invariant if its vector has not grown, or not    *)
(* beyond what it holds.                                                   *)
LEMMA BecomesInv ==
  ASSUME BufferInv, NEW b, BufOK(b), Becomes(b), result' \in Seq(Byte),
         \/ Len(b.buffer_) = Len(buf.buffer_)
         \/ Len(b.buffer_) <= 2 * readableBytes(b) + CheapPrepend
  PROVE  BufferInv'
<1>1. buf' = b /\ readableBytes(b) \in Nat /\ Len(b.buffer_) \in Nat
  BY ContentsProperties, LenProperties DEF Becomes, BufOK
<1>2. peak \in Nat /\ peak' \in Nat /\ peak <= peak' /\ readableBytes(b) <= peak'
  BY <1>1 DEF BufferInv, TypeOK, Becomes
<1>3. BufOK(buf') /\ readableBytes(buf') <= peak'
  BY <1>1, <1>2
<1>4. MemoryBounded'
  <2>1. CASE Len(b.buffer_) = Len(buf.buffer_)
    BY <1>1, <1>2, <2>1, ConstantTypes DEF BufferInv, MemoryBounded
  <2>2. CASE Len(b.buffer_) <= 2 * readableBytes(b) + CheapPrepend
    BY <1>1, <1>2, <2>2, ConstantTypes DEF MemoryBounded
  <2> QED
    BY <2>1, <2>2
<1>5. TypeOK'
  BY <1>2, <1>3 DEF TypeOK
<1> QED
  BY <1>3, <1>4, <1>5 DEF BufferInv
(* What each operation does to the buffer, once for all that follows.      *)
LEMMA AppendStep ==
  ASSUME BufferInv, NEW d \in Data, Append_(d)
  PROVE  BufferInv' /\ contents(buf)' = contents(buf) \o d /\ result' = result
<1>1. BufOK(buf) /\ d \in Seq(Byte)
  BY ConstantTypes DEF BufferInv, TypeOK
<1>2. Becomes(append(buf, d)) /\ result' = result /\ result' \in Seq(Byte)
  BY DEF Append_, BufferInv, TypeOK
<1>3. /\ BufOK(append(buf, d))
      /\ contents(append(buf, d)) = contents(buf) \o d
      /\ \/ Len(append(buf, d).buffer_) = Len(buf.buffer_)
         \/ Len(append(buf, d).buffer_)
              <= 2 * readableBytes(append(buf, d)) + CheapPrepend
  BY <1>1, BufAppendProperties
<1>4. BufferInv'
  BY <1>2, <1>3, BecomesInv
<1> QED
  BY <1>2, <1>3, <1>4 DEF Becomes

LEMMA ReadStep ==
  ASSUME BufferInv, NEW d \in Data, readFd(d)
  PROVE  BufferInv' /\ contents(buf)' = contents(buf) \o d /\ result' = result
<1>1. BufOK(buf) /\ d \in Seq(Byte)
  BY ConstantTypes DEF BufferInv, TypeOK
<1>2. Becomes(readvInto(buf, d)) /\ result' = result /\ result' \in Seq(Byte)
  BY DEF readFd, BufferInv, TypeOK
<1>3. /\ BufOK(readvInto(buf, d))
      /\ contents(readvInto(buf, d)) = contents(buf) \o d
      /\ \/ Len(readvInto(buf, d).buffer_) = Len(buf.buffer_)
         \/ Len(readvInto(buf, d).buffer_)
              <= 2 * readableBytes(readvInto(buf, d)) + CheapPrepend
  BY <1>1, ReadvProperties
<1>4. BufferInv'
  BY <1>2, <1>3, BecomesInv
<1> QED
  BY <1>2, <1>3, <1>4 DEF Becomes

LEMMA RetrieveStep ==
  ASSUME BufferInv, NEW n \in Nat, n <= readableBytes(buf),
         Becomes(retrieve(buf, n)), result' \in Seq(Byte)
  PROVE  /\ BufferInv'
         /\ contents(buf)' = SubSeq(contents(buf), n + 1, Len(contents(buf)))
<1>1. BufOK(buf)
  BY DEF BufferInv, TypeOK
<1>2. /\ BufOK(retrieve(buf, n))
      /\ contents(retrieve(buf, n))
           = SubSeq(contents(buf), n + 1, readableBytes(buf))
      /\ Len(retrieve(buf, n).buffer_) = Len(buf.buffer_)
  BY <1>1, RetrieveProperties
<1>3. BufferInv'
  BY <1>2, BecomesInv
<1>4. Len(contents(buf)) = readableBytes(buf)
  BY <1>1, ContentsProperties
<1> QED
  BY <1>2, <1>3, <1>4 DEF Becomes

LEMMA WriteFdStep ==
  ASSUME BufferInv, writeFd
  PROVE  /\ BufferInv' /\ result' = result
         /\ \E n \in 0 .. Len(contents(buf)) :
              contents(buf)' = SubSeq(contents(buf), n + 1, Len(contents(buf)))
<1>1. PICK n \in 1 .. readableBytes(buf) :
        Becomes(retrieve(buf, n)) /\ UNCHANGED result
  BY DEF writeFd
<1>2. /\ readableBytes(buf) \in Nat
      /\ Len(contents(buf)) = readableBytes(buf)
  BY ContentsProperties DEF BufferInv, TypeOK
<1>3. n \in Nat /\ n <= readableBytes(buf) /\ n \in 0 .. Len(contents(buf))
  BY <1>2
<1>4. result' = result /\ result' \in Seq(Byte)
  BY <1>1 DEF BufferInv, TypeOK
<1> QED
  BY <1>1, <1>3, <1>4, RetrieveStep

LEMMA RetrieveAllStep ==
  ASSUME BufferInv, retrieveAllAsString
  PROVE  /\ BufferInv'
         /\ result' = SubSeq(contents(buf), 1, Len(contents(buf)))
         /\ contents(buf)' = SubSeq(contents(buf), Len(contents(buf)) + 1,
                                    Len(contents(buf)))
<1>1. /\ readableBytes(buf) \in Nat
      /\ contents(buf) \in Seq(Byte)
      /\ Len(contents(buf)) = readableBytes(buf)
  BY ContentsProperties DEF BufferInv, TypeOK
<1>2. result' = contents(buf) /\ Becomes(retrieve(buf, readableBytes(buf)))
  BY DEF retrieveAllAsString
<1>3. SubSeq(contents(buf), 1, Len(contents(buf))) = contents(buf)
  BY <1>1, SubSeqFull
<1>4. readableBytes(buf) <= readableBytes(buf) /\ result' \in Seq(Byte)
  BY <1>1, <1>2
<1> QED
  BY <1>1, <1>2, <1>3, <1>4, RetrieveStep

LEMMA NextInv == BufferInv /\ [Next]_vars => BufferInv'
<1> SUFFICES ASSUME BufferInv, [Next]_vars PROVE BufferInv'
  OBVIOUS
<1>1. ASSUME NEW d \in Data, Append_(d) PROVE BufferInv'
  BY <1>1, AppendStep
<1>2. ASSUME NEW d \in Data, readFd(d) PROVE BufferInv'
  BY <1>2, ReadStep
<1>3. CASE writeFd
  BY <1>3, WriteFdStep
<1>4. CASE retrieveAllAsString
  BY <1>4, RetrieveAllStep
<1>5. CASE UNCHANGED vars
  BY <1>5 DEF vars, BufferInv, TypeOK, MemoryBounded
<1> QED
  BY <1>1, <1>2, <1>3, <1>4, <1>5 DEF Next

------------------------------------------------------------------------------
(* The theorems.                                                           *)

(* The indices stay in order and inside the vector, whatever is appended,  *)
(* read and retrieved (Buffer.h:43-132).                                   *)
THEOREM BufferTypeCorrect == Spec => []TypeOK
<1>1. BufferInv => TypeOK
  BY DEF BufferInv
<1> QED
  BY <1>1, InitInv, NextInv, PTL DEF Spec

(* The vector never gets longer than twice the most bytes it held, plus    *)
(* the prepend area, or its first size (Buffer.h:118-132).                 *)
THEOREM BufferMemoryBounded == Spec => []MemoryBounded
<1>1. BufferInv => MemoryBounded
  BY DEF BufferInv
<1> QED
  BY <1>1, InitInv, NextInv, PTL DEF Spec

(* The buffer is a queue of bytes (ByteQueue): growing, moving to the      *)
(* front and the second array of readFd lose, repeat and reorder nothing.  *)
THEOREM BufferImplementsQueue == Spec => ImplementsByteQueue
<1>1. Init => BQ!Init
  <2> SUFFICES ASSUME Init PROVE contents(buf) = <<>> /\ result = <<>>
    BY DEF BQ!Init
  <2>1. BufOK(buf)
    BY InitInv DEF BufferInv, TypeOK
  <2>2. readableBytes(buf) = 0
    BY ConstantTypes DEF Init, readableBytes
  <2>3. contents(buf) \in Seq(Byte) /\ Len(contents(buf)) = 0
    BY <2>1, <2>2, ContentsProperties
  <2> QED
    BY <2>3, EmptySeq DEF Init
<1>2. BufferInv /\ [Next]_vars => [BQ!Next]_<<contents(buf), result>>
  <2> SUFFICES ASSUME BufferInv, [Next]_vars
               PROVE  BQ!Next \/ UNCHANGED <<contents(buf), result>>
    OBVIOUS
  <2>1. ASSUME NEW d \in Data, Append_(d) PROVE BQ!Put(d)
    BY <2>1, AppendStep DEF BQ!Put
  <2>2. ASSUME NEW d \in Data, readFd(d) PROVE BQ!Put(d)
    BY <2>2, ReadStep DEF BQ!Put
  <2>3. CASE writeFd
    <3>1. \E n \in 0 .. Len(contents(buf)) : BQ!Skip(n)
      BY <2>3, WriteFdStep DEF BQ!Skip, BQ!Drop
    <3> QED
      BY <3>1 DEF BQ!Next
  <2>4. CASE retrieveAllAsString
    <3>1. Len(contents(buf)) \in 0 .. Len(contents(buf))
      BY ContentsProperties DEF BufferInv, TypeOK
    <3>2. BQ!Take(Len(contents(buf)))
      BY <2>4, RetrieveAllStep DEF BQ!Take, BQ!Drop
    <3> QED
      BY <3>1, <3>2 DEF BQ!Next
  <2>5. CASE UNCHANGED vars
    BY <2>5 DEF vars, contents, readableBytes
  <2> QED
    BY <2>1, <2>2, <2>3, <2>4, <2>5 DEF Next, BQ!Next
<1> QED
  BY <1>1, <1>2, InitInv, NextInv, PTL DEF Spec, ImplementsByteQueue, BQ!Spec
==============================================================================
