------------------------------- MODULE RpcCall -------------------------------
(***************************************************************************)
(* Remote calls: JhrpcChannel::CallMethod on the caller's side, RpcProvider *)
(* with its dispatch and its reply on the other (jhRpcChannel.cc,          *)
(* rpcprovider.cc).  Every call has a connection of its own, closed after  *)
(* one reply.                                                              *)
(*                                                                         *)
(* A message is known by its length: a request is SizeLen units of size,   *)
(* HeaderLen of header and ArgsLen of arguments, a reply what the service  *)
(* makes of it.  TCP keeps the units in order and cuts them where it likes. *)
(* TcpConnection has the provider's end in detail; here send() and         *)
(* shutdown() do what its run conn_in_loop shows.                          *)
(***************************************************************************)
EXTENDS Naturals

CONSTANTS
  Calls,      \* the calls made, each on its own connection
  Served,     \* those whose method is in the provider's ServiceTypeMap
  SizeLen, HeaderLen, ArgsLen,
  Cuts,       \* lengths at which a cut message still parses: field boundaries
  MaxReply,   \* bound on the length of a reply
  RecvMax,    \* sizeof rcv_buffer
  Segments,   \* does TCP cut messages?
  Crashes     \* may the provider's process die?

ASSUME CallAssumption ==
  /\ Served \subseteq Calls
  /\ {SizeLen, HeaderLen, ArgsLen, RecvMax} \subseteq Nat \ {0}
  /\ 0 \in Cuts /\ Cuts \subseteq Nat   \* proto3 parses the empty string
  /\ MaxReply \in Nat
  /\ {Segments, Crashes} \subseteq BOOLEAN

VARIABLES
  provider,  \* the process: it registers its methods, then listens
  pc,        \* where CallMethod is
  conn,      \* the connection as the caller sees it
  unread,    \* units of the request the provider has not read
  start,     \* units retrieved from the input buffer
  first,     \* history: length of the first string MessageRWCB took
  runs,      \* how often a method was run for what came on the connection
  args,      \* how much of the arguments the call's own method was given
  connected, \* is state_ of the provider's end Connected?
  replies,   \* history: how often a reply was sent
  reply,     \* length of the last reply, NoReply before
  ignored,   \* was a string of the call dropped with no reply?
  status,    \* what CallMethod returned with
  response   \* how much of the reply it parsed

caller == <<pc, status, response>>
answer == <<runs, args, connected, replies, reply>>
dispatch == <<start, first, answer, ignored>>
vars == <<provider, caller, conn, unread, dispatch>>

Total == SizeLen + HeaderLen + ArgsLen
NoReply == MaxReply + 1

TypeOK ==
  /\ provider \in {"starting", "listening", "dead"}
  /\ pc \in [Calls -> {"idle", "connect", "send", "recv", "returned"}]
  /\ conn \in [Calls -> {"none", "open", "fin", "reset", "closed"}]
  /\ unread \in [Calls -> 0 .. Total] /\ start \in [Calls -> 0 .. Total]
  /\ first \in [Calls -> 0 .. Total] /\ runs \in [Calls -> Nat]
  /\ args \in [Calls -> 0 .. ArgsLen]
  /\ connected \in [Calls -> BOOLEAN] /\ replies \in [Calls -> Nat]
  /\ reply \in [Calls -> 0 .. NoReply] /\ ignored \in [Calls -> BOOLEAN]
  /\ status \in [Calls -> {"none", "ok", "failed"}]
  /\ response \in [Calls -> 0 .. MaxReply]
  /\ \A c \in Calls : pc[c] = "returned" => conn[c] \in {"none", "closed"}

Each(x) == [c \in Calls |-> x]

Init ==
  /\ provider = "starting"
  /\ pc = Each("idle") /\ conn = Each("none")
  /\ unread = Each(0) /\ start = Each(0) /\ first = Each(0)
  /\ runs = Each(0) /\ args = Each(0)
  /\ connected = Each(TRUE) /\ replies = Each(0) /\ reply = Each(NoReply)
  /\ ignored = Each(FALSE)
  /\ status = Each("none") /\ response = Each(0)

------------------------------------------------------------------------------
(* CallMethod.                                                             *)

go(c, from, to) == pc[c] = from /\ pc' = [pc EXCEPT ![c] = to]

close(c) == conn' = [conn EXCEPT ![c] = IF @ = "none" THEN @ ELSE "closed"]

(* SetFailed, and every return of a call that failed.                      *)
fail(c, from) ==
  /\ go(c, from, "returned")
  /\ status' = [status EXCEPT ![c] = "failed"]
  /\ close(c)
  /\ UNCHANGED response

(* What ZooKeeper says is another module's matter: a node may be missing,  *)
(* or tell the address of a provider that is not there or serves others.   *)
lookup(c) ==
  /\ \/ go(c, "idle", "connect") /\ UNCHANGED <<conn, status, response>>
     \/ fail(c, "idle")
  /\ UNCHANGED <<provider, unread, dispatch>>

connect(c) ==
  /\ provider = "listening"
  /\ go(c, "connect", "send")
  /\ conn' = [conn EXCEPT ![c] = "open"]
  /\ UNCHANGED <<provider, status, response, unread, dispatch>>

connectFails(c) ==
  /\ provider # "listening"
  /\ fail(c, "connect")
  /\ UNCHANGED <<provider, unread, dispatch>>

(* A blocking send() takes all; what a dead provider is sent is lost, and  *)
(* answered with a reset.                                                  *)
send(c) ==
  /\ conn[c] \in {"open", "fin"}
  /\ go(c, "send", "recv")
  /\ IF conn[c] = "open"
     THEN unread' = [unread EXCEPT ![c] = Total] /\ UNCHANGED conn
     ELSE /\ conn' \in {conn, [conn EXCEPT ![c] = "reset"]}
          /\ UNCHANGED unread
  /\ UNCHANGED <<provider, status, response, dispatch>>

sendFails(c) ==
  /\ conn[c] = "reset"
  /\ fail(c, "send")
  /\ UNCHANGED <<provider, unread, dispatch>>

takes(n) == IF Segments THEN 1 .. n ELSE {n}
atMost(n, max) == IF n < max THEN n ELSE max
parses(n, len) == n = len \/ n \in Cuts

(* The one recv(): what has arrived of the reply, or nothing at its end.   *)
received(c) ==
  IF reply[c] \in 1 .. MaxReply
  THEN takes(atMost(reply[c], RecvMax))
  ELSE IF conn[c] = "fin" THEN {0} ELSE {}

recv(c) ==
  /\ conn[c] \in {"open", "fin"}
  /\ \E n \in received(c) :
       \/ /\ parses(n, reply[c])
          /\ go(c, "recv", "returned")
          /\ status' = [status EXCEPT ![c] = "ok"]
          /\ response' = [response EXCEPT ![c] = n]
          /\ close(c)
       \/ /\ ~parses(n, reply[c])
          /\ fail(c, "recv")
  /\ UNCHANGED <<provider, unread, dispatch>>

recvFails(c) ==
  /\ conn[c] = "reset"
  /\ fail(c, "recv")
  /\ UNCHANGED <<provider, unread, dispatch>>

------------------------------------------------------------------------------
(* The provider.                                                           *)

(* Run(): the methods are in ZooKeeper before the server listens.          *)
Run ==
  /\ provider = "starting"
  /\ provider' = "listening"
  /\ UNCHANGED <<caller, conn, unread, dispatch>>

(* The process ends.  Of connections with a request it had not read the    *)
(* kernel sends a reset, of the others a reset or an end of file.          *)
dies(left) ==
  LET live == {c \in Calls : conn[c] \in {"open", "fin"}}
  IN \E reset \in SUBSET live :
       /\ \A c \in live : conn[c] = "open" /\ left[c] > 0 => c \in reset
       /\ conn' = [c \in Calls |-> IF c \in reset THEN "reset"
                                   ELSE IF c \in live THEN "fin" ELSE conn[c]]

crash ==
  /\ Crashes /\ provider # "dead"
  /\ provider' = "dead"
  /\ dies(unread)
  /\ UNCHANGED <<caller, unread, dispatch>>

(* handleRead gives MessageRWCB what one read put in the input buffer:     *)
(* units start + 1 .. end of the request.                                  *)
end(c) == Total - unread'[c]
length(c) == end(c) - start[c]

retrieveAllAsString(c) == start' = [start EXCEPT ![c] = end(c)]

arrives(c) ==
  /\ provider = "listening"
  /\ unread[c] > 0 /\ conn[c] \in {"open", "fin", "closed"}
  /\ \E n \in takes(unread[c]) : unread' = [unread EXCEPT ![c] = @ - n]
  /\ retrieveAllAsString(c)
  /\ first' = [first EXCEPT ![c] = IF start[c] = 0 THEN end(c) ELSE @]

(* substr() with a position past the end throws, and nothing catches it:   *)
(* the size is not there, or a cut header parsed and the arguments are not *)
(* there.  The middle of a request is read as a size and a header too.     *)
inHeader(n) == SizeLen <= n /\ n < SizeLen + HeaderLen

throws(c) ==
  \/ length(c) < SizeLen
  \/ start[c] > 0
  \/ inHeader(length(c)) /\ length(c) - SizeLen \in Cuts

cutsShort(n) == (n - SizeLen) - HeaderLen - 1                       \* mutant
argsUnits(n) == (n - SizeLen) - HeaderLen

(* What is cut off the front of a request is not kept: the rest is read as *)
(* a request of its own.  Its contents decide whether it is one, of any    *)
(* method of the provider.                                                 *)
understood(c) ==
  \/ /\ start[c] = 0 /\ c \in Served
     /\ length(c) >= SizeLen + HeaderLen
     /\ parses(argsUnits(length(c)), ArgsLen)
  \/ start[c] > 0 /\ length(c) > SizeLen

MessageThrows(c) ==
  /\ arrives(c)
  /\ throws(c)
  /\ provider' = "dead"
  /\ dies(unread')
  /\ UNCHANGED <<caller, answer, ignored>>

(* Logged, and not answered.                                               *)
MessageIgnored(c) ==
  /\ arrives(c)
  /\ length(c) >= SizeLen
  /\ start[c] = 0 => ~throws(c) /\ ~understood(c)
  /\ ignored' = [ignored EXCEPT ![c] = TRUE]
  /\ UNCHANGED <<provider, caller, conn, answer>>

replyOnly(c) == UNCHANGED <<conn, connected>>                       \* mutant
shutdown(c) == /\ conn' = [conn EXCEPT ![c] = IF @ = "open" THEN "fin" ELSE @]
               /\ connected' = [connected EXCEPT ![c] = FALSE]

(* The service runs and calls done->Run(): the reply is sent, then the FIN. *)
(* On a connection that had its FIN send() and shutdown() do nothing.      *)
SendRpcResponse(c) ==
  IF connected[c]
  THEN /\ \E n \in 0 .. MaxReply : reply' = [reply EXCEPT ![c] = n]
       /\ replies' = [replies EXCEPT ![c] = @ + 1]
       /\ shutdown(c)
  ELSE UNCHANGED <<conn, connected, replies, reply>>

MessageRWCB(c) ==
  /\ arrives(c)
  /\ understood(c)
  /\ runs' = [runs EXCEPT ![c] = @ + 1]
  /\ args' = IF start[c] = 0 THEN [args EXCEPT ![c] = argsUnits(length(c))]
                             ELSE args
  /\ SendRpcResponse(c)
  /\ UNCHANGED <<provider, caller, ignored>>

------------------------------------------------------------------------------
CallMethod(c) ==
  \/ lookup(c) \/ connect(c) \/ connectFails(c) \/ send(c) \/ sendFails(c)
  \/ recv(c) \/ recvFails(c)

Message(c) == MessageThrows(c) \/ MessageIgnored(c) \/ MessageRWCB(c)

Next == Run \/ crash \/ \E c \in Calls : CallMethod(c) \/ Message(c)

Spec == Init /\ [][Next]_vars

(* CallMethod goes on wherever it does not block, the provider starts and  *)
(* its loops give it what arrives.                                         *)
Fairness == /\ WF_vars(Run)
            /\ \A c \in Calls : WF_vars(CallMethod(c)) /\ WF_vars(Message(c))

FairSpec == Spec /\ Fairness

------------------------------------------------------------------------------
(* Properties.                                                             *)

(* The reply a caller hopes for: its method was run once, with all of its  *)
(* arguments, and it has all of what that gave.                            *)
Answered(c) == /\ runs[c] = 1 /\ args[c] = ArgsLen
               /\ response[c] = reply[c]

(* A call that reports success has been answered: the size and args_len in *)
(* the request are there "to prevent sticking" (rpcprovider.cc:94).        *)
SuccessIsAnswer == \A c \in Calls : status[c] = "ok" => Answered(c)

(* A call that reports success has been answered, unless its request was   *)
(* cut, its reply was, or the provider died.                               *)
ReplyCut(c) == reply[c] # NoReply /\ response[c] < reply[c]

WholeSuccessIsAnswer ==
  \A c \in Calls :
    status[c] = "ok" =>
      Answered(c) \/ first[c] < Total \/ ReplyCut(c) \/ provider = "dead"

(* However the stream is cut, and though a piece of a request may be run  *)
(* as a request of its own, a connection gets one reply; a method runs for *)
(* nothing that was not sent, and once where the request came whole        *)
(* (rpcprovider.cc:99-188, TcpConnection.cc:137, 239).                     *)
OneReply ==
  \A c \in Calls : /\ replies[c] <= 1
                   /\ pc[c] \in {"idle", "connect", "send"} => runs[c] = 0
                   /\ first[c] = Total => runs[c] <= 1

(* CallMethod returns, unless the provider ignored what it sent and did    *)
(* not reply: the reply of no bytes, a provider that dies, one that is not *)
(* listening yet, all get the caller out of recv() (jhRpcChannel.cc:127,   *)
(* rpcprovider.cc:188).                                                    *)
CallReturns ==
  \A c \in Calls : pc[c] = "recv" ~> \/ pc[c] = "returned"
                                     \/ ignored[c] /\ reply[c] = NoReply
==============================================================================
