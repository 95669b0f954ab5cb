--------------------------- MODULE RpcCallProofs ---------------------------
(***************************************************************************)
(* Proofs about RpcCall: types, that a connection gets at most one reply   *)
(* though a cut request may be run twice, and that a success nothing cut   *)
(* is the answer.                                                          *)
(***************************************************************************)
EXTENDS RpcCall, TLAPS

(* Nothing of a call is at the provider before CallMethod sent it.         *)
Unsent(c) == pc[c] \in {"idle", "connect", "send"} =>
               unread[c] = 0 /\ start[c] = 0 /\ runs[c] = 0

(* What was read and what was not make up the request at most, and the     *)
(* first string is what was read first.                                    *)
Cut(c) == start[c] > 0 => /\ first[c] <= start[c]
                          /\ start[c] + unread[c] <= Total

(* A run gives the reply if none was given; a second run is that of a      *)
(* later string, and the arguments are short only if the first string was. *)
RunGivesReply(c) ==
  /\ connected[c] <=> reply[c] = NoReply
  /\ connected[c] <=> runs[c] = 0
  /\ replies[c] = IF connected[c] THEN 0 ELSE 1
  /\ runs[c] > 0 => start[c] > 0
  /\ runs[c] > 1 => first[c] < Total
  /\ runs[c] = 1 => args[c] = ArgsLen \/ first[c] < Total

(* An end of file follows a reply or the end of the provider, and so does  *)
(* a success.                                                              *)
Ended(c) ==
  /\ conn[c] = "fin" => provider = "dead" \/ ~connected[c]
  /\ status[c] = "ok" =>
       provider = "dead" \/ (~connected[c] /\ response[c] <= reply[c])

Facts(c) == Unsent(c) /\ Cut(c) /\ RunGivesReply(c) /\ Ended(c)

CallInv == TypeOK /\ \A c \in Calls : Facts(c)

------------------------------------------------------------------------------
(* Type correctness.                                                       *)

Conns == [Calls -> {"none", "open", "fin", "reset", "closed"}]

LEMMA DiesProperties ==
  ASSUME NEW left, dies(left), conn \in Conns
  PROVE  /\ conn' \in Conns
         /\ \A c \in Calls : conn[c] \in {"none", "closed"} => conn'[c] = conn[c]
BY DEF dies, Conns

LEMMA LengthBounds ==
  ASSUME NEW c \in Calls, TypeOK, arrives(c)
  PROVE  /\ unread' \in [Calls -> 0 .. Total] /\ start' \in [Calls -> 0 .. Total]
         /\ first' \in [Calls -> 0 .. Total]
         /\ start'[c] = end(c) /\ end(c) \in 1 .. Total
         /\ length(c) = end(c) - start[c]
         /\ first'[c] = IF start[c] = 0 THEN end(c) ELSE first[c]
         /\ start'[c] + unread'[c] = Total /\ unread[c] > 0
         /\ \A d \in Calls \ {c} :
              UNCHANGED <<unread[d], start[d], first[d]>>
<1> USE CallAssumption
<1>1. Total \in Nat
  BY DEF Total
<1>2. PICK n \in takes(unread[c]) : unread' = [unread EXCEPT ![c] = @ - n]
  BY DEF arrives
<1>3. unread[c] \in 1 .. Total /\ n \in 1 .. unread[c]
  BY <1>1, <1>2 DEF arrives, takes, TypeOK
<1>4. unread'[c] \in 0 .. Total - 1 /\ end(c) \in 1 .. Total
      /\ end(c) + unread'[c] = Total
  BY <1>1, <1>2, <1>3 DEF end, TypeOK
<1>5. unread' \in [Calls -> 0 .. Total]
  BY <1>1, <1>2, <1>3 DEF TypeOK
<1>6. start' = [start EXCEPT ![c] = end(c)]
      /\ first' = [first EXCEPT ![c] = IF start[c] = 0 THEN end(c) ELSE @]
  BY DEF arrives, retrieveAllAsString
<1> HIDE DEF end
<1> QED
  BY <1>1, <1>2, <1>3, <1>4, <1>5, <1>6 DEF TypeOK, length

(* What MessageRWCB hands to the service of a first string it understood.  *)
LEMMA ArgsBounds ==
  ASSUME NEW c \in Calls, TypeOK, arrives(c), understood(c), start[c] = 0
  PROVE  /\ argsUnits(length(c)) \in 0 .. ArgsLen
         /\ argsUnits(length(c)) = ArgsLen \/ first'[c] < Total
<1>1. end(c) \in 1 .. Total /\ length(c) = end(c) - start[c]
      /\ first'[c] = IF start[c] = 0 THEN end(c) ELSE first[c]
  BY LengthBounds
<1>2. length(c) >= SizeLen + HeaderLen
  BY DEF understood
<1> HIDE DEF end
<1> QED
  BY <1>1, <1>2, CallAssumption DEF argsUnits, Total

LEMMA ReceivedBounds ==
  ASSUME NEW c \in Calls, TypeOK, NEW n \in received(c)
  PROVE  /\ n \in 0 .. MaxReply
         /\ reply[c] # NoReply => n <= reply[c]
         /\ reply[c] = NoReply => conn[c] = "fin"
<1>1. reply[c] \in 0 .. MaxReply + 1
  BY DEF TypeOK, NoReply
<1> QED
  BY <1>1, CallAssumption DEF received, takes, atMost, NoReply

LEMMA InitTypeOK == Init => TypeOK
BY CallAssumption DEF Init, TypeOK, Each, Total, NoReply

LEMMA CallMethodTypeOK ==
  ASSUME TypeOK, NEW c \in Calls, CallMethod(c) PROVE TypeOK'
<1> USE CallAssumption
<1>1. CASE lookup(c)
  BY <1>1 DEF lookup, go, fail, close, dispatch, answer, TypeOK, Total, NoReply
<1>2. CASE connect(c)
  BY <1>2 DEF connect, go, dispatch, answer, TypeOK, Total, NoReply
<1>3. CASE connectFails(c)
  BY <1>3 DEF connectFails, go, fail, close, dispatch, answer, TypeOK, Total, NoReply
<1>4. CASE send(c)
  <2>1. Total \in Nat
    BY DEF Total
  <2>2. unread' \in [Calls -> 0 .. Total]
    BY <1>4, <2>1 DEF send, TypeOK
  <2>3. conn' \in Conns /\ \A d \in Calls \ {c} : conn'[d] = conn[d]
    BY <1>4 DEF send, TypeOK, Conns
  <2>4. pc' = [pc EXCEPT ![c] = "recv"]
        /\ UNCHANGED <<provider, status, response, dispatch>>
    BY <1>4 DEF send, go
  <2> QED
    BY <2>2, <2>3, <2>4 DEF TypeOK, Conns, dispatch, answer
<1>5. CASE sendFails(c)
  BY <1>5 DEF sendFails, go, fail, close, dispatch, answer, TypeOK, Total, NoReply
<1>6. CASE recv(c)
  <2>1. PICK n \in received(c) :
          \/ /\ go(c, "recv", "returned")
             /\ status' = [status EXCEPT ![c] = "ok"]
             /\ response' = [response EXCEPT ![c] = n]
             /\ close(c)
          \/ fail(c, "recv")
    BY <1>6 DEF recv
  <2>2. n \in 0 .. MaxReply
    BY ReceivedBounds
  <2>3. UNCHANGED <<provider, unread, dispatch>>
    BY <1>6 DEF recv
  <2> QED
    BY <2>1, <2>2, <2>3 DEF go, fail, close, dispatch, answer, TypeOK
<1>7. CASE recvFails(c)
  BY <1>7 DEF recvFails, go, fail, close, dispatch, answer, TypeOK, Total, NoReply
<1> QED
  BY <1>1, <1>2, <1>3, <1>4, <1>5, <1>6, <1>7 DEF CallMethod

LEMMA MessageTypeOK ==
  ASSUME TypeOK, NEW c \in Calls, Message(c) PROVE TypeOK'
<1>0. conn \in Conns
  BY DEF TypeOK, Conns
<1>1. CASE MessageThrows(c)
  <2>1. arrives(c) /\ dies(unread') /\ provider' = "dead"
        /\ UNCHANGED <<caller, answer, ignored>>
    BY <1>1 DEF MessageThrows
  <2> QED
    BY <1>0, <2>1, LengthBounds, DiesProperties DEF TypeOK, Conns, caller, answer
<1>2. CASE MessageIgnored(c)
  <2>1. arrives(c) /\ ignored' = [ignored EXCEPT ![c] = TRUE]
        /\ UNCHANGED <<provider, caller, conn, answer>>
    BY <1>2 DEF MessageIgnored
  <2> QED
    BY <2>1, LengthBounds DEF TypeOK, caller, answer
<1>3. CASE MessageRWCB(c)
  <2>1. /\ arrives(c) /\ understood(c)
        /\ runs' = [runs EXCEPT ![c] = @ + 1]
        /\ args' = IF start[c] = 0 THEN [args EXCEPT ![c] = argsUnits(length(c))]
                                   ELSE args
        /\ UNCHANGED <<provider, caller, ignored>>
    BY <1>3 DEF MessageRWCB
  <2>2. /\ reply' \in [Calls -> 0 .. NoReply] /\ replies' \in [Calls -> Nat]
        /\ connected' \in [Calls -> BOOLEAN]
    <3>1. CASE UNCHANGED <<connected, replies, reply>>
      BY <3>1 DEF TypeOK
    <3>2. CASE /\ \E n \in 0 .. MaxReply : reply' = [reply EXCEPT ![c] = n]
               /\ replies' = [replies EXCEPT ![c] = @ + 1]
               /\ shutdown(c)
      <4>1. 0 .. MaxReply \subseteq 0 .. NoReply
        BY CallAssumption DEF NoReply
      <4>2. reply' \in [Calls -> 0 .. NoReply]
        BY <3>2, <4>1 DEF TypeOK
      <4> QED
        BY <3>2, <4>2 DEF shutdown, TypeOK
    <3> QED
      BY <1>3, <3>1, <3>2 DEF MessageRWCB, SendRpcResponse
  <2>3. conn' \in Conns /\ \A d \in Calls : conn[d] # "open" => conn'[d] = conn[d]
    BY <1>3 DEF MessageRWCB, SendRpcResponse, shutdown, TypeOK, Conns
  <2>4. runs' \in [Calls -> Nat]
    BY <2>1 DEF TypeOK
  <2>5. args' \in [Calls -> 0 .. ArgsLen]
    <3>1. start[c] = 0 => argsUnits(length(c)) \in 0 .. ArgsLen
      BY <2>1, ArgsBounds
    <3> QED
      BY <2>1, <3>1 DEF TypeOK
  <2> QED
    BY <2>1, <2>2, <2>3, <2>4, <2>5, LengthBounds DEF TypeOK, Conns, caller
<1> QED
  BY <1>1, <1>2, <1>3 DEF Message

LEMMA NextTypeOK == TypeOK /\ [Next]_vars => TypeOK'
<1> SUFFICES ASSUME TypeOK, [Next]_vars PROVE TypeOK'
  OBVIOUS
<1>1. CASE Run
  BY <1>1 DEF Run, caller, dispatch, answer, TypeOK
<1>2. CASE crash
  <2>1. conn \in Conns
    BY DEF TypeOK, Conns
  <2> QED
    BY <1>2, <2>1, DiesProperties DEF crash, caller, dispatch, answer, TypeOK, Conns
<1>3. CASE \E c \in Calls : CallMethod(c) \/ Message(c)
  BY <1>3, CallMethodTypeOK, MessageTypeOK
<1>4. CASE UNCHANGED vars
  BY <1>4 DEF vars, caller, dispatch, answer, TypeOK
<1> QED
  BY <1>1, <1>2, <1>3, <1>4 DEF Next

(* Every call, connection and reply has its type, and a call that returned *)
(* has closed its socket, however requests are cut (jhRpcChannel.cc:14-147). *)
THEOREM CallTypeCorrect == Spec => []TypeOK
<1> QED
  BY InitTypeOK, NextTypeOK, PTL DEF Spec

------------------------------------------------------------------------------
(* The invariant.                                                          *)

LEMMA InitFacts == ASSUME Init, NEW d \in Calls PROVE Facts(d)
BY CallAssumption DEF Init, Each, Facts, Unsent, Cut, RunGivesReply, Ended, NoReply

(* A step of CallMethod changes nothing at the provider, and of other      *)
(* calls nothing at all.                                                   *)
LEMMA CallMethodFacts ==
  ASSUME TypeOK, NEW c \in Calls, CallMethod(c),
         NEW d \in Calls, Facts(d)
  PROVE  Facts(d)'
<1> USE CallAssumption
<1>1. UNCHANGED <<provider, dispatch>>
  BY DEF CallMethod, lookup, connect, connectFails, send, sendFails, recv,
     recvFails
<1>2. RunGivesReply(d)' /\ Cut(d)'
  <2>1. RunGivesReply(d)'
    BY <1>1 DEF Facts, RunGivesReply, dispatch, answer
  <2>2. unread'[d] = unread[d] \/ pc[d] = "send"
    BY DEF CallMethod, lookup, connect, connectFails, send, sendFails, recv,
       recvFails, go, TypeOK
  <2> QED
    BY <1>1, <2>1, <2>2 DEF Facts, Cut, Unsent, dispatch
<1>3. ASSUME NEW from, fail(c, from), UNCHANGED unread PROVE Facts(d)'
  <2>1. Unsent(d)'
    BY <1>1, <1>3 DEF Facts, Unsent, fail, go, dispatch, answer, TypeOK
  <2>2. Ended(d)'
    BY <1>1, <1>3 DEF Facts, Ended, fail, close, dispatch, answer, TypeOK
  <2> QED
    BY <1>2, <2>1, <2>2 DEF Facts
<1>4. CASE lookup(c)
  <2>1. CASE fail(c, "idle")
    BY <1>3, <1>4, <2>1 DEF lookup
  <2>2. CASE go(c, "idle", "connect") /\ UNCHANGED <<conn, status, response>>
    BY <1>2, <1>4, <2>2
       DEF lookup, go, Facts, Unsent, Ended, dispatch, answer, TypeOK
  <2> QED
    BY <1>4, <2>1, <2>2 DEF lookup
<1>5. CASE connect(c)
  <2>1. Unsent(d)'
    BY <1>5 DEF connect, go, Facts, Unsent, dispatch, answer, TypeOK
  <2>2. Ended(d)'
    BY <1>5 DEF connect, Facts, Ended, dispatch, answer, TypeOK
  <2> QED
    BY <1>2, <2>1, <2>2 DEF Facts
<1>6. CASE connectFails(c)
  BY <1>3, <1>6 DEF connectFails
<1>7. CASE send(c)
  <2>1. Unsent(d)'
    BY <1>7 DEF send, go, Facts, Unsent, dispatch, answer, TypeOK
  <2>2. conn'[d] = "fin" => conn[d] = "fin"
    BY <1>7 DEF send, TypeOK
  <2>3. Ended(d)'
    BY <1>7, <2>2 DEF send, Facts, Ended, dispatch, answer
  <2> QED
    BY <1>2, <2>1, <2>3 DEF Facts
<1>8. CASE sendFails(c)
  BY <1>3, <1>8 DEF sendFails
<1>9. CASE recv(c)
  <2>1. PICK n \in received(c) :
          \/ /\ go(c, "recv", "returned")
             /\ status' = [status EXCEPT ![c] = "ok"]
             /\ response' = [response EXCEPT ![c] = n]
             /\ close(c)
          \/ fail(c, "recv")
    BY <1>9 DEF recv
  <2>2. UNCHANGED unread
    BY <1>9 DEF recv
  <2>3. CASE fail(c, "recv")
    BY <1>3, <2>2, <2>3
  <2>4. CASE /\ go(c, "recv", "returned")
             /\ status' = [status EXCEPT ![c] = "ok"]
             /\ response' = [response EXCEPT ![c] = n]
             /\ close(c)
    <3>1. Unsent(d)'
      BY <1>1, <2>2, <2>4 DEF go, Facts, Unsent, dispatch, answer, TypeOK
    <3>2. reply[c] # NoReply => n <= reply[c]
      BY ReceivedBounds
    <3>3. reply[c] = NoReply => conn[c] = "fin"
      BY ReceivedBounds
    <3>4. Ended(d)'
      <4>1. CASE d # c
        BY <1>1, <2>4, <4>1 DEF close, Facts, Ended, dispatch, answer, TypeOK
      <4>2. CASE d = c
        <5>1. provider = "dead" \/ (~connected[c] /\ reply[c] # NoReply)
          BY <3>3, <4>2 DEF Facts, RunGivesReply, Ended
        <5>2. conn'[c] # "fin"
          BY <1>9, <2>4 DEF close, recv, TypeOK
        <5>3. response'[c] = n
          BY <2>4 DEF TypeOK
        <5> QED
          BY <1>1, <3>2, <4>2, <5>1, <5>2, <5>3 DEF Ended, dispatch, answer
      <4> QED
        BY <4>1, <4>2
    <3> QED
      BY <1>2, <3>1, <3>4 DEF Facts
  <2> QED
    BY <2>1, <2>3, <2>4
<1>10. CASE recvFails(c)
  BY <1>3, <1>10 DEF recvFails
<1> QED
  BY <1>4, <1>5, <1>6, <1>7, <1>8, <1>9, <1>10 DEF CallMethod

(* What arrives leaves the calls that were not sent alone; a run with no   *)
(* reply before is that of the first string, or of one after it.           *)
LEMMA MessageFacts ==
  ASSUME TypeOK, NEW c \in Calls, Message(c),
         NEW d \in Calls, Facts(d)
  PROVE  Facts(d)'
<1> USE CallAssumption
<1>1. arrives(c) /\ UNCHANGED caller
  BY DEF Message, MessageThrows, MessageIgnored, MessageRWCB
<1>2. d = c => unread[d] > 0
  BY <1>1 DEF arrives
<1>3. d # c => UNCHANGED <<unread[d], start[d], first[d]>>
  BY <1>1, LengthBounds
<1>4. /\ start'[c] > 0
      /\ start[c] > 0 => first'[c] = first[c] /\ (Cut(c) => first[c] < Total)
      /\ Cut(c) => Cut(c)'
  <2>1. start'[c] = end(c) /\ end(c) \in 1 .. Total
        /\ start'[c] + unread'[c] = Total
        /\ unread[c] > 0 /\ unread[c] \in Nat /\ start[c] \in Nat /\ first[c] \in Nat
        /\ unread' \in [Calls -> 0 .. Total] /\ start' \in [Calls -> 0 .. Total]
        /\ length(c) = end(c) - start[c]
    BY <1>1, LengthBounds DEF TypeOK
  <2>2. first'[c] = IF start[c] = 0 THEN end(c) ELSE first[c]
    BY <1>1, LengthBounds
  <2>3. Total \in Nat
    BY DEF Total
  <2>4. unread'[c] < unread[c] /\ unread'[c] \in Nat
    <3>1. PICK n \in takes(unread[c]) : unread' = [unread EXCEPT ![c] = @ - n]
      BY <1>1 DEF arrives
    <3>2. n > 0 /\ n \in Nat
      BY <2>1, <3>1 DEF takes
    <3> QED
      BY <2>1, <3>1, <3>2 DEF TypeOK
  <2> HIDE DEF end
  <2>5. Cut(c) /\ start[c] > 0 => first[c] < Total /\ first[c] <= start'[c]
    BY <2>1, <2>3, <2>4 DEF Cut
  <2> QED
    BY <2>1, <2>2, <2>3, <2>5 DEF Cut
<1>5. Cut(d)'
  BY <1>3, <1>4 DEF Facts, Cut
<1>6. Unsent(d)' \/ runs'[d] # runs[d]
  BY <1>1, <1>2, <1>3 DEF Facts, Unsent, caller
<1>7. ASSUME UNCHANGED answer,
             conn'[d] = "fin" => conn[d] = "fin" \/ provider' = "dead",
             provider = "dead" => provider' = "dead"
      PROVE  Facts(d)'
  <2>1. Unsent(d)'
    BY <1>6, <1>7 DEF answer
  <2>2. RunGivesReply(d)'
    <3>1. d = c => start'[d] > 0 /\ (start[d] > 0 => first'[d] = first[d])
      BY <1>4
    <3> QED
      BY <1>3, <1>7, <3>1 DEF Facts, RunGivesReply, answer, TypeOK
  <2>3. Ended(d)'
    BY <1>1, <1>7 DEF Facts, Ended, caller, answer
  <2> QED
    BY <1>5, <2>1, <2>2, <2>3 DEF Facts
<1>8. CASE MessageThrows(c)
  BY <1>7, <1>8 DEF MessageThrows
<1>9. CASE MessageIgnored(c)
  BY <1>7, <1>9 DEF MessageIgnored
<1>10. CASE MessageRWCB(c)
  <2>1. /\ runs' = [runs EXCEPT ![c] = @ + 1]
        /\ args' = IF start[c] = 0 THEN [args EXCEPT ![c] = argsUnits(length(c))]
                                   ELSE args
        /\ understood(c) /\ UNCHANGED provider
    BY <1>10 DEF MessageRWCB
  <2>2. \/ /\ connected[c] /\ connected' = [connected EXCEPT ![c] = FALSE]
           /\ replies' = [replies EXCEPT ![c] = @ + 1]
           /\ \E n \in 0 .. MaxReply : reply' = [reply EXCEPT ![c] = n]
        \/ ~connected[c] /\ UNCHANGED <<conn, connected, replies, reply>>
    BY <1>10 DEF MessageRWCB, SendRpcResponse, shutdown
  <2>3. conn'[d] = "fin" => conn[d] = "fin" \/ (d = c /\ ~connected'[c])
    BY <1>10, <2>2 DEF MessageRWCB, SendRpcResponse, shutdown, TypeOK
  <2>4. start[c] = 0 => argsUnits(length(c)) = ArgsLen \/ first'[c] < Total
    BY <1>1, <2>1, ArgsBounds
  <2>5. CASE d # c
    <3>1. UNCHANGED <<runs[d], args[d], reply[d], connected[d], replies[d],
                      unread[d], start[d], first[d]>>
      BY <1>3, <2>1, <2>2, <2>5 DEF TypeOK
    <3>2. Unsent(d)' /\ RunGivesReply(d)'
      BY <1>1, <3>1 DEF Facts, Unsent, RunGivesReply, caller
    <3>3. Ended(d)'
      BY <1>1, <2>1, <2>3, <2>5, <3>1 DEF Facts, Ended, caller
    <3> QED
      BY <1>5, <3>2, <3>3 DEF Facts
  <2>6. CASE d = c
    <3>1. runs[c] \in Nat /\ runs'[c] = runs[c] + 1 /\ replies[c] \in Nat
      BY <2>1 DEF TypeOK
    <3>2. Unsent(d)'
      BY <1>1, <1>2, <2>6 DEF Facts, Unsent, caller
    <3>3. /\ ~connected'[c] /\ reply'[c] # NoReply /\ replies'[c] = 1
          /\ ~connected[c] => reply'[c] = reply[c]
      <4>1. CASE connected[c]
        <5>1. replies[c] = 0
          BY <2>6, <4>1 DEF Facts, RunGivesReply
        <5>2. \A n \in 0 .. MaxReply : n # NoReply
          BY DEF NoReply
        <5> QED
          BY <2>2, <4>1, <5>1, <5>2 DEF TypeOK
      <4>2. CASE ~connected[c]
        BY <2>2, <2>6, <4>2 DEF Facts, RunGivesReply
      <4> QED
        BY <4>1, <4>2
    <3>4. CASE start[c] = 0
      <4>1. runs'[c] = 1 /\ args'[c] = argsUnits(length(c))
        BY <2>1, <2>6, <3>1, <3>4 DEF Facts, RunGivesReply, TypeOK
      <4> QED
        <5>1. RunGivesReply(c)'
          BY <1>4, <2>4, <3>3, <3>4, <4>1 DEF RunGivesReply
        <5>2. Ended(d)'
          BY <1>1, <2>1, <2>6, <3>3, <3>4, <4>1 DEF Facts, Ended, RunGivesReply, caller
        <5> QED
          BY <1>5, <2>6, <3>2, <5>1, <5>2 DEF Facts
    <3>5. CASE start[c] > 0
      <4>1. first'[c] < Total
        BY <1>4, <2>6, <3>5 DEF Facts
      <4>2. RunGivesReply(c)'
        BY <1>4, <3>1, <3>3, <4>1 DEF RunGivesReply
      <4>3. Ended(d)'
        BY <1>1, <2>1, <2>6, <3>3 DEF Facts, Ended, caller
      <4> QED
        BY <1>5, <2>6, <3>2, <4>2, <4>3 DEF Facts
    <3> QED
      BY <3>4, <3>5 DEF TypeOK
  <2> QED
    BY <2>5, <2>6
<1> QED
  BY <1>8, <1>9, <1>10 DEF Message

LEMMA NextFacts ==
  ASSUME TypeOK, [Next]_vars, NEW d \in Calls, Facts(d) PROVE Facts(d)'
<1>1. CASE Run
  BY <1>1 DEF Run, caller, dispatch, answer, Facts, Unsent, Cut, RunGivesReply, Ended
<1>2. CASE crash
  BY <1>2 DEF crash, caller, dispatch, answer, Facts, Unsent, Cut, RunGivesReply, Ended
<1>3. CASE \E c \in Calls : CallMethod(c) \/ Message(c)
  BY <1>3, CallMethodFacts, MessageFacts
<1>4. CASE UNCHANGED vars
  BY <1>4 DEF vars, caller, dispatch, answer, Facts, Unsent, Cut, RunGivesReply, Ended
<1> QED
  BY <1>1, <1>2, <1>3, <1>4 DEF Next

(* The invariant of CallMethod and MessageRWCB from which the next two     *)
(* follow (jhRpcChannel.cc:14-147, rpcprovider.cc:99-189).                 *)
THEOREM CallInvariant == Spec => []CallInv
<1>1. Init => CallInv
  BY InitTypeOK, InitFacts DEF CallInv
<1>2. CallInv /\ [Next]_vars => CallInv'
  <2> SUFFICES ASSUME CallInv, [Next]_vars PROVE CallInv'
    OBVIOUS
  <2>1. \A d \in Calls : Facts(d)'
    BY NextFacts DEF CallInv
  <2> QED
    BY <2>1, NextTypeOK DEF CallInv
<1> QED
  BY <1>1, <1>2, PTL DEF Spec

(* However many calls, wherever the stream is cut and however often its    *)
(* pieces are run as requests, one reply is sent, nothing is run that was  *)
(* not sent, and a request that came whole is run once                     *)
(* (rpcprovider.cc:99-188, TcpConnection.cc:137, 239).                     *)
THEOREM RepliesAtMostOnce == Spec => []OneReply
<1>1. CallInv => OneReply
  <2> SUFFICES ASSUME CallInv, NEW c \in Calls
               PROVE  /\ replies[c] <= 1
                      /\ pc[c] \in {"idle", "connect", "send"} => runs[c] = 0
                      /\ first[c] = Total => runs[c] <= 1
    BY DEF OneReply
  <2>1. Unsent(c) /\ RunGivesReply(c)
    BY DEF CallInv, Facts
  <2>2. runs[c] \in Nat /\ Total \in Nat
    BY CallAssumption DEF CallInv, TypeOK, Total
  <2> QED
    BY <2>1, <2>2 DEF Unsent, RunGivesReply
<1> QED
  BY <1>1, CallInvariant, PTL

(* A success that nothing cut is the answer: CallMethod takes nothing else *)
(* for it while the provider lives (jhRpcChannel.cc:124-146).              *)
THEOREM WholeSuccess == Spec => []WholeSuccessIsAnswer
<1>1. CallInv => WholeSuccessIsAnswer
  <2> SUFFICES ASSUME CallInv, NEW c \in Calls, status[c] = "ok",
                      first[c] >= Total, ~ReplyCut(c), provider # "dead"
               PROVE  Answered(c)
    BY CallAssumption DEF WholeSuccessIsAnswer, CallInv, TypeOK, Total
  <2>1. ~connected[c] /\ response[c] <= reply[c]
    BY DEF CallInv, Facts, Ended
  <2>2. runs[c] = 1 /\ args[c] = ArgsLen /\ reply[c] # NoReply
    <3>1. runs[c] \in Nat /\ first[c] \in Nat /\ Total \in Nat
      BY CallAssumption DEF CallInv, TypeOK, Total
    <3> QED
      BY <2>1, <3>1 DEF CallInv, Facts, RunGivesReply
  <2>3. response[c] = reply[c]
    BY <2>1, <2>2, CallAssumption DEF ReplyCut, CallInv, TypeOK, NoReply
  <2> QED
    BY <2>1, <2>2, <2>3 DEF Answered
<1> QED
  BY <1>1, CallInvariant, PTL

------------------------------------------------------------------------------
(* The safety half of CallReturns.                                         *)

(* An open connection has a provider that listens; a call has a connection *)
(* from connect() on, and gives the provider a request to read.            *)
Connected(c) ==
  /\ conn[c] = "open" => provider = "listening" /\ connected[c]
  /\ pc[c] \in {"idle", "connect"} => conn[c] = "none" /\ connected[c]
  /\ pc[c] \in {"send", "recv"} => conn[c] \in {"open", "fin", "reset"}
  /\ pc[c] = "recv" /\ conn[c] = "open" => unread[c] > 0 \/ ignored[c]

(* Where a call waits in recv(), there is something for it to get, or its  *)
(* request is still unread at a provider that listens, or it was ignored.  *)
WaitsForSomething ==
  \A c \in Calls :
    pc[c] = "recv" =>
      \/ conn[c] = "reset" \/ received(c) # {}
      \/ provider = "listening" /\ unread[c] > 0
      \/ ignored[c]

(* A step of CallMethod, of this call or another.                          *)
LEMMA CallMethodConnected ==
  ASSUME TypeOK, NEW c \in Calls, CallMethod(c), NEW d \in Calls, Connected(d)
  PROVE  Connected(d)'
<1> USE CallAssumption
<1>1. UNCHANGED <<provider, dispatch>>
  BY DEF CallMethod, lookup, connect, connectFails, send, sendFails, recv,
     recvFails
<1>0. UNCHANGED <<provider, connected, ignored>>
  BY <1>1 DEF dispatch, answer
<1>2. CASE d # c
  <2>1. UNCHANGED <<pc[d], conn[d], unread[d]>>
    BY <1>2 DEF CallMethod, lookup, connect, connectFails, send, sendFails, recv,
       recvFails, go, fail, close, TypeOK
  <2> QED
    BY <1>1, <2>1 DEF Connected, dispatch, answer
<1>3. CASE d = c
  <2>1. ASSUME NEW from, go(c, from, "returned"), close(c) PROVE Connected(c)'
    BY <1>0, <1>3, <2>1 DEF go, close, Connected, TypeOK
  <2>2. CASE lookup(c) \/ connectFails(c) \/ sendFails(c) \/ recv(c) \/ recvFails(c)
    <3>1. CASE /\ go(c, "idle", "connect")
               /\ UNCHANGED <<provider, conn, connected, unread, ignored>>
      BY <1>3, <3>1 DEF go, Connected, TypeOK
    <3> QED
      BY <1>1, <1>3, <2>1, <2>2, <3>1 DEF lookup, connectFails, sendFails, recv, recvFails, fail,
         dispatch, answer
  <2>3. CASE connect(c)
    BY <1>0, <1>3, <2>3 DEF connect, go, Connected, TypeOK
  <2>4. CASE send(c)
    <3>1. pc'[c] = "recv" /\ conn'[c] \in {"open", "fin", "reset"}
      BY <2>4 DEF send, go, TypeOK
    <3>2. conn'[c] = "open" => conn[c] = "open" /\ unread'[c] = Total
      BY <2>4 DEF send, TypeOK
    <3>3. Total > 0
      BY DEF Total
    <3> QED
      BY <1>0, <1>3, <3>1, <3>2, <3>3 DEF Connected
  <2> QED
    BY <1>3, <2>2, <2>3, <2>4 DEF CallMethod
<1> QED
  BY <1>2, <1>3

(* A process that ends takes its connections with it.                      *)
LEMMA DiesConnected ==
  ASSUME NEW left, dies(left), UNCHANGED <<caller, connected>>, NEW d \in Calls, Connected(d)
  PROVE  Connected(d)'
<1>1. conn'[d] # "open" /\ (conn[d] \in {"open", "fin", "reset"} =>
                              conn'[d] \in {"fin", "reset"})
      /\ (conn[d] \notin {"open", "fin"} => conn'[d] = conn[d])
  BY DEF dies
<1> QED
  BY <1>1 DEF Connected, caller

(* What arrives is ignored, answered with a FIN, or ends the process.      *)
LEMMA MessageConnected ==
  ASSUME TypeOK, NEW c \in Calls, Message(c), NEW d \in Calls, Connected(d)
  PROVE  Connected(d)'
<1>1. UNCHANGED caller /\ (d # c => unread'[d] = unread[d])
  BY LengthBounds DEF Message, MessageThrows, MessageIgnored, MessageRWCB
<1>2. CASE MessageThrows(c)
  BY <1>2, DiesConnected DEF MessageThrows, answer
<1>3. CASE MessageIgnored(c)
  <2>1. UNCHANGED <<provider, conn, connected>> /\ ignored' = [ignored EXCEPT ![c] = TRUE]
    BY <1>3 DEF MessageIgnored, answer
  <2> QED
    BY <1>1, <2>1 DEF Connected, caller, TypeOK
<1>4. CASE MessageRWCB(c)
  <2>1. UNCHANGED <<provider, ignored>> /\ conn[c] # "none"
    BY <1>4 DEF MessageRWCB, arrives
  <2>2. \/ /\ conn' = [conn EXCEPT ![c] = IF @ = "open" THEN "fin" ELSE @]
           /\ connected' = [connected EXCEPT ![c] = FALSE]
        \/ ~connected[c] /\ UNCHANGED <<conn, connected>>
    BY <1>4 DEF MessageRWCB, SendRpcResponse, shutdown
  <2> QED
    BY <1>1, <2>1, <2>2 DEF Connected, caller, TypeOK
<1> QED
  BY <1>2, <1>3, <1>4 DEF Message

(* No call waits for nothing: what is left of CallReturns is that threads  *)
(* go on (jhRpcChannel.cc:127, rpcprovider.cc:99-189).                     *)
THEOREM NoVainWait == Spec => []WaitsForSomething
<1> DEFINE Inv == \A c \in Calls : Connected(c)
<1>1. Init => Inv
  BY DEF Init, Each, Connected
<1>2. TypeOK /\ Inv /\ [Next]_vars => Inv'
  <2> SUFFICES ASSUME TypeOK, Inv, [Next]_vars, NEW d \in Calls PROVE Connected(d)'
    OBVIOUS
  <2>1. CASE Run
    BY <2>1 DEF Run, caller, dispatch, answer, Connected
  <2>2. CASE crash
    BY <2>2, DiesConnected DEF crash, dispatch, answer
  <2>3. CASE \E c \in Calls : CallMethod(c) \/ Message(c)
    BY <2>3, CallMethodConnected, MessageConnected
  <2>4. CASE UNCHANGED vars
    BY <2>4 DEF vars, caller, dispatch, answer, Connected
  <2> QED
    BY <2>1, <2>2, <2>3, <2>4 DEF Next
<1>3. CallInv /\ Inv => WaitsForSomething
  <2> SUFFICES ASSUME CallInv, NEW c \in Calls, Connected(c), pc[c] = "recv",
                      conn[c] # "reset", received(c) = {}
               PROVE  (provider = "listening" /\ unread[c] > 0) \/ ignored[c]
    BY DEF WaitsForSomething
  <2>1. conn[c] # "fin"
    <3>1. ASSUME reply[c] \in 1 .. MaxReply PROVE FALSE
      <4>1. atMost(reply[c], RecvMax) \in Nat \ {0}
        BY <3>1, CallAssumption DEF atMost
      <4>2. takes(atMost(reply[c], RecvMax)) # {}
        BY <4>1 DEF takes
      <4> QED
        BY <3>1, <4>2 DEF received
    <3> QED
      BY <3>1 DEF received
  <2> QED
    BY <2>1 DEF Connected
<1> QED
  BY <1>1, <1>2, <1>3, CallTypeCorrect, CallInvariant, PTL DEF Spec
==============================================================================
