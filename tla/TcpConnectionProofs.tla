-------------------------- MODULE TcpConnectionProofs --------------------------
(***************************************************************************)
(* Proofs about TcpConnection, for any callers in any threads, any         *)
(* messages of any length, and whatever the peer and the server do: the    *)
(* poller's record of the socket is right, the connection waits for        *)
(* EPOLLOUT exactly while it has output, no message is torn, FIN does not  *)
(* overtake output, and a shutdown() that returned is not forgotten.       *)
(* Where only the loop's thread calls it, its reply is kept and no step    *)
(* ends the process; if the server stays too, it is an instance of         *)
(* ConnectionLife.                                                         *)
(***************************************************************************)
EXTENDS TcpConnection, SequenceTheorems, TLAPS

(* Before connectEstablished nothing has happened, and no other functor    *)
(* than the two of the server is queued.                                   *)
OfServer(ts) == \A i \in DOMAIN ts : ts[i].fn \in {"connectEstablished", "connectDestroy"}

Early ==
  ups = 0 =>
    /\ state_ = "Connecting"
    /\ outputBuffer_ = <<>> /\ wire = <<>>
    /\ events_ = {} /\ epoll = Absent /\ revents_ = {}
    /\ at \in {"poll", "events", "batch"}
    /\ \A c \in Callers : call[c] = <<"none">>
    /\ OfServer(tasks) /\ OfServer(batch)

(* A byte follows its predecessor, a message another whole one, and the    *)
(* last is whole.                                                          *)
Frames(s) ==
  /\ \A i \in DOMAIN s :
        IF s[i][2] = 1
        THEN i > 1 => s[i - 1][2] = MsgLen
        ELSE i > 1 /\ s[i - 1] = <<s[i][1], s[i][2] - 1>>
  /\ s # <<>> => s[Len(s)][2] = MsgLen

Whole == Frames(Output)

ConnInv ==
  TypeOK /\ Early /\ Registered /\ WatchesOutput /\ Whole /\ FinAfterOutput

(* At first there is no output and nothing is watched.                     *)
LEMMA ConnInit == Init => ConnInv
<1> SUFFICES ASSUME Init PROVE ConnInv
  OBVIOUS
<1> USE ConnAssumption
<1>1. Plain("connectEstablished") \in Tasks
  BY DEF Plain, Task, Tasks, Owning, Raw, Threads
<1>2. TypeOK
  <2>1. tasks \in Seq(Tasks) /\ batch \in Seq(Tasks)
    BY <1>1 DEF Init
  <2>2. /\ outputBuffer_ \in Seq(Bytes) /\ wire \in Seq(Bytes)
        /\ incoming \in 0 .. requests /\ requests \in 0 .. MaxRequests
    BY DEF Init
  <2> QED
    BY <2>1, <2>2 DEF Init, TypeOK
<1>3. Early /\ Registered /\ WatchesOutput /\ FinAfterOutput
  BY DEF Init, Early, Registered, WatchesOutput, FinAfterOutput, OfServer, Plain,
     Task, isWriting, Open
<1>4. Whole
  BY DEF Init, Whole, Frames, Output
<1> QED
  BY <1>2, <1>3, <1>4 DEF ConnInv

------------------------------------------------------------------------------
(* Sequences of bytes.                                                     *)

(* Putting sequences together is associative.                              *)
LEMMA ConcatTwice ==
  ASSUME NEW S, NEW x \in Seq(S), NEW y \in Seq(S), NEW z \in Seq(S)
  PROVE  (x \o y) \o z = x \o (y \o z)
BY ConcatAssociative

(* Cutting a sequence in two loses nothing.                                *)
LEMMA CutKeeps ==
  ASSUME NEW S, NEW a \in Seq(S), NEW b \in Seq(S), NEW n \in 0 .. Len(b)
  PROVE  /\ SubSeq(b, 1, n) \in Seq(S) /\ SubSeq(b, n + 1, Len(b)) \in Seq(S)
         /\ (a \o SubSeq(b, 1, n)) \o SubSeq(b, n + 1, Len(b)) = a \o b
<1>1. Len(b) \in Nat /\ \A i \in 1 .. Len(b) : b[i] \in S
  BY LenProperties, ElementOfSeq
<1>2. SubSeq(b, 1, n) \in Seq(S)
  BY <1>1, SubSeqProperties
<1>3. SubSeq(b, n + 1, Len(b)) \in Seq(S)
  BY <1>1, SubSeqProperties
<1>4. SubSeq(b, 1, n) \o SubSeq(b, n + 1, Len(b)) = SubSeq(b, 1, Len(b))
  <2>1. 1 \in 1 .. Len(b) + 1 /\ n \in 1 - 1 .. Len(b) /\ Len(b) \in n .. Len(b)
    BY <1>1
  <2> QED
    BY <2>1, ConcatAdjacentSubSeq
<1>5. SubSeq(b, 1, Len(b)) = b
  BY SubSeqFull
<1> DEFINE x == SubSeq(b, 1, n)
           y == SubSeq(b, n + 1, Len(b))
<1>6. x \in Seq(S) /\ y \in Seq(S) /\ x \o y = b
  BY <1>2, <1>3, <1>4, <1>5
<1> HIDE DEF x, y
<1>7. \A p, q, r \in Seq(S) : (p \o q) \o r = p \o (q \o r)
  BY ConcatTwice
<1>8. (a \o x) \o y = a \o (x \o y)
  BY <1>6, <1>7
<1> QED
  BY <1>6, <1>8 DEF x, y

(* The text of a message, and what is left of it.                          *)
LEMMA TextTyped ==
  ASSUME NEW m \in Messages \cup {Junk}
  PROVE  Text(m) \in Seq(Bytes) /\ Len(Text(m)) = MsgLen
BY ConnAssumption DEF Text, Bytes

(* The same of bytes.                                                      *)
LEMMA CutBytes ==
  \A a, b \in Seq(Bytes) : \A n \in 0 .. Len(b) :
    /\ SubSeq(b, 1, n) \in Seq(Bytes) /\ SubSeq(b, n + 1, Len(b)) \in Seq(Bytes)
    /\ (a \o SubSeq(b, 1, n)) \o SubSeq(b, n + 1, Len(b)) = a \o b
BY CutKeeps

(* The last byte of two sequences of bytes.                                *)
LEMMA ConcatBytes ==
  \A a, b \in Seq(Bytes) :
    /\ a \o b \in Seq(Bytes) /\ Len(a \o b) = Len(a) + Len(b)
    /\ b # <<>> => (a \o b)[Len(a) + Len(b)] = b[Len(b)]
<1> SUFFICES ASSUME NEW a \in Seq(Bytes), NEW b \in Seq(Bytes)
             PROVE  /\ a \o b \in Seq(Bytes) /\ Len(a \o b) = Len(a) + Len(b)
                    /\ b # <<>> => (a \o b)[Len(a) + Len(b)] = b[Len(b)]
  OBVIOUS
<1>1. /\ Len(a) \in Nat /\ Len(b) \in Nat /\ (b # <<>> => Len(b) > 0)
      /\ a \o b \in Seq(Bytes) /\ Len(a \o b) = Len(a) + Len(b)
  OBVIOUS
<1>2. \A i \in 1 .. Len(a) + Len(b) :
        (a \o b)[i] = IF i <= Len(a) THEN a[i] ELSE b[i - Len(a)]
  BY ConcatProperties
<1>3. ASSUME b # <<>>
      PROVE  (a \o b)[Len(a) + Len(b)] = b[Len(b)]
  <2>1. /\ Len(a) + Len(b) \in 1 .. Len(a) + Len(b)
        /\ ~(Len(a) + Len(b) <= Len(a)) /\ (Len(a) + Len(b)) - Len(a) = Len(b)
    BY <1>1, <1>3
  <2> QED
    BY <1>2, <2>1
<1> QED
  BY <1>1, <1>3

(* Cutting a message in two loses nothing.                                 *)
LEMMA CutText ==
  ASSUME NEW w \in Seq(Bytes), NEW m \in Messages \cup {Junk}, NEW n \in 0 .. MsgLen
  PROVE  /\ SubSeq(Text(m), 1, n) \in Seq(Bytes)
         /\ SubSeq(Text(m), n + 1, MsgLen) \in Seq(Bytes)
         /\ (w \o SubSeq(Text(m), 1, n)) \o SubSeq(Text(m), n + 1, MsgLen)
              = w \o Text(m)
<1>1. ASSUME NEW t \in Seq(Bytes), Len(t) = MsgLen
      PROVE  /\ SubSeq(t, 1, n) \in Seq(Bytes)
             /\ SubSeq(t, n + 1, MsgLen) \in Seq(Bytes)
             /\ (w \o SubSeq(t, 1, n)) \o SubSeq(t, n + 1, MsgLen) = w \o t
  <2>1. n \in 0 .. Len(t)
    BY <1>1
  <2>2. /\ SubSeq(t, 1, n) \in Seq(Bytes)
        /\ SubSeq(t, n + 1, Len(t)) \in Seq(Bytes)
        /\ (w \o SubSeq(t, 1, n)) \o SubSeq(t, n + 1, Len(t)) = w \o t
    BY <2>1, CutBytes, Zenon
  <2> QED
    BY <1>1, <2>2
<1> QED
  BY <1>1, TextTyped, Zenon

(* A message after whole messages leaves whole messages.                   *)
LEMMA AppendFrames ==
  ASSUME NEW s \in Seq(Bytes), NEW m \in Messages \cup {Junk}, Frames(s)
  PROVE  Frames(s \o Text(m))
<1> USE ConnAssumption
<1> DEFINE t == s \o Text(m)
<1>1. /\ t \in Seq(Bytes) /\ Len(t) = Len(s) + MsgLen
      /\ \A i \in 1 .. Len(t) :
           t[i] = IF i <= Len(s) THEN s[i] ELSE Text(m)[i - Len(s)]
  BY TextTyped, ConcatProperties
<1>2. \A k \in 1 .. MsgLen : Text(m)[k] = <<m, k>>
  BY DEF Text
<1>3. \A i \in 1 .. Len(s) : t[i] = s[i]
  BY <1>1
<1>4. \A k \in 1 .. MsgLen : t[Len(s) + k] = <<m, k>>
  BY <1>1, <1>2
<1>5. DOMAIN t = 1 .. Len(t) /\ DOMAIN s = 1 .. Len(s)
  BY <1>1
<1> HIDE DEF t
<1>6. t # <<>> => t[Len(t)][2] = MsgLen
  BY <1>1, <1>4
<1>7. ASSUME NEW i \in 1 .. Len(t)
      PROVE  IF t[i][2] = 1 THEN i > 1 => t[i - 1][2] = MsgLen
                            ELSE i > 1 /\ t[i - 1] = <<t[i][1], t[i][2] - 1>>
  <2>1. CASE i <= Len(s)
    BY <1>3, <1>5, <2>1 DEF Frames
  <2>2. CASE i = Len(s) + 1
    <3>1. t[i][2] = 1
      BY <1>4, <2>2
    <3>2. i > 1 => s # <<>> /\ t[i - 1] = s[Len(s)]
      BY <1>3, <2>2
    <3> QED
      BY <3>1, <3>2 DEF Frames
  <2>3. CASE i > Len(s) + 1
    <3> DEFINE k == i - Len(s)
    <3>1. k \in 1 .. MsgLen /\ k - 1 \in 1 .. MsgLen /\ k # 1
          /\ i = Len(s) + k /\ i - 1 = Len(s) + (k - 1) /\ i > 1
      BY <1>1, <2>3
    <3> HIDE DEF k
    <3>2. t[i] = <<m, k>>
      BY <1>4, <3>1
    <3>3. t[i - 1] = <<m, k - 1>>
      <4>1. \A j \in 1 .. MsgLen : i - 1 = Len(s) + j => t[i - 1] = <<m, j>>
        BY <1>4
      <4> QED
        BY <3>1, <4>1
    <3> QED
      BY <3>1, <3>2, <3>3
  <2> QED
    BY <1>1, <2>1, <2>2, <2>3
<1>8. Frames(t)
  BY <1>5, <1>6, <1>7 DEF Frames
<1> QED
  BY <1>8 DEF t

------------------------------------------------------------------------------
(* What a step does to the output, the Channel and the socket.             *)

Sends == \E m \in Messages \cup {Junk} : sendInLoop(m) /\ UNCHANGED counts
Shuts == shutdownInLoop /\ UNCHANGED <<chan, out, counts>>
Comes == /\ updateChannel(events_ \cup {"read"})
         /\ ups' = ups + 1
         /\ UNCHANGED <<out, downs, finSent>>
Goes == /\ updateChannel({})
        /\ downs' = downs + 1
        /\ UNCHANGED <<out, ups, finSent>>
Writes == writeSome
Removes == removeChannel /\ UNCHANGED <<out, counts, finSent>>

(* Every step is one of these, or touches none of it.                      *)
LEMMA Effects ==
  ASSUME ConnInv, [Next]_vars
  PROVE  \/ UNCHANGED <<chan, out, counts, finSent>>
         \/ Sends \/ Shuts \/ Comes \/ Goes \/ Writes \/ Removes
<1> USE DEF Sends, Shuts, Comes, Goes, Writes, Removes
<1>1. CASE UNCHANGED vars
  BY <1>1 DEF vars, sock
<1>2. CASE UserCall \/ CallStep
  BY <1>2 DEF UserCall, CallStep, shutdownHere, sendHere, sendTest, shutdownTest,
     release, sendQueue, shutdownSet, shutdownQueue, sock, counts
<1>3. CASE Handler
  BY <1>3 DEF Handler, closeEvent, errorEvent, readMessage, readEnd, readFails,
     writeNothing, writeError, handleWriteEnd, messageReturn, handleCloseEnd,
     handleClose, handleError, sock, counts
<1>4. CASE Functor
  <2>1. CASE sendTask
    <3>1. Head(batch).msg \in Messages \cup {Junk}
      <4>1. batch \in Seq(Tasks) /\ batch # <<>>
        BY <2>1 DEF sendTask, functor, ConnInv, TypeOK
      <4>2. Head(batch) \in Tasks
        BY <4>1, HeadTailProperties
      <4> QED
        BY <4>2 DEF Tasks
    <3> QED
      BY <2>1, <3>1 DEF sendTask
  <2> QED
    BY <1>4, <2>1 DEF Functor, connectEstablished, connectDestroy, connectDestroyEnd,
       shutdownTask, writeCompleteTask, taskCallbackReturn, sock, counts
<1>5. CASE \/ poll \/ doPendingFunctors \/ doPendingFunctorsEnd
           \/ removeConnectionInLoop \/ destroyServer \/ Peer
  BY <1>5 DEF poll, doPendingFunctors, doPendingFunctorsEnd, removeConnectionInLoop,
     destroyServer, Peer, peerSend, peerShut, peerReset, sock
<1> QED
  BY <1>1, <1>2, <1>3, <1>4, <1>5 DEF Next, LoopStep

(* The poller records what it did.                                         *)
LEMMA UpdateRegisters ==
  ASSUME TypeOK, Registered, NEW ev \in SUBSET {"read", "write"}, updateChannel(ev)
  PROVE  /\ Registered' /\ events_' = ev
         /\ index_' \in {"added", "deleted"}
         /\ epoll' \in {Absent, ev}
         /\ exited' \in {"no", "fatal", "sigpipe"}
BY DEF TypeOK, Registered, updateChannel, Absent

(* What sendInLoop does to an open connection or a closed one.             *)
LEMMA SendEffect ==
  ASSUME TypeOK, Registered, NEW m \in Messages \cup {Junk}, sendInLoop(m)
  PROVE  /\ Registered'
         /\ finSent' = finSent /\ peer' = peer
         /\ incoming' = incoming /\ requests' = requests
         /\ soError' \in BOOLEAN
         /\ tasks' = tasks \/ tasks' = Append(tasks, Plain("writeComplete"))
         /\ index_' \in {"new", "added", "deleted"}
         /\ epoll' \in {Absent} \cup SUBSET {"read", "write"}
         /\ events_' \in SUBSET {"read", "write"}
         /\ exited' \in {"no", "fatal", "sigpipe"}
         /\ outputBuffer_' \in Seq(Bytes) /\ wire' \in Seq(Bytes)
         /\ \/ UNCHANGED <<out, chan>>
            \/ /\ outputBuffer_ = <<>> /\ ~isWriting /\ ~finSent
               /\ Output' = Output \o Text(m)
               /\ isWriting' <=> outputBuffer_' # <<>>
<1> USE ConnAssumption
<1>1. finSent' = finSent /\ peer' = peer /\ incoming' = incoming /\ requests' = requests
  BY DEF sendInLoop
<1>2. CASE UNCHANGED <<out, chan, tasks>> /\ exited' \in {"sigpipe", exited}
           /\ soError' \in {FALSE, soError}
  BY <1>1, <1>2 DEF out, chan, TypeOK, Registered
<1>3. ASSUME NEW n \in 0 .. MsgLen,
             /\ freshOutput /\ ~soError /\ ~raisesSigpipe /\ UNCHANGED soError
             /\ wire' = wire \o SubSeq(Text(m), 1, n)
             /\ appendRest(SubSeq(Text(m), n + 1, MsgLen))
      PROVE  /\ Registered'
             /\ soError' \in BOOLEAN
             /\ tasks' = tasks \/ tasks' = Append(tasks, Plain("writeComplete"))
             /\ index_' \in {"new", "added", "deleted"}
             /\ epoll' \in {Absent} \cup SUBSET {"read", "write"}
             /\ events_' \in SUBSET {"read", "write"}
             /\ exited' \in {"no", "fatal", "sigpipe"}
             /\ outputBuffer_' \in Seq(Bytes) /\ wire' \in Seq(Bytes)
             /\ outputBuffer_ = <<>> /\ ~isWriting /\ ~finSent
             /\ Output' = Output \o Text(m)
             /\ isWriting' <=> outputBuffer_' # <<>>
  <2> DEFINE rest == SubSeq(Text(m), n + 1, MsgLen)
  <2>1. /\ SubSeq(Text(m), 1, n) \in Seq(Bytes) /\ rest \in Seq(Bytes)
        /\ (wire \o SubSeq(Text(m), 1, n)) \o rest = wire \o Text(m)
        /\ wire \in Seq(Bytes)
    BY CutText DEF TypeOK
  <2>2. outputBuffer_ = <<>> /\ ~isWriting /\ ~finSent /\ soError' \in BOOLEAN
    BY <1>3 DEF freshOutput, raisesSigpipe, TypeOK
  <2>3. wire' \in Seq(Bytes)
    BY <1>3, <2>1
  <2>4. Output = wire
    BY <2>1, <2>2, ConcatEmptySeq DEF Output
  <2> HIDE DEF rest
  <2>5. CASE rest = <<>>
    <3>1. /\ outputBuffer_' = <<>>
          /\ UNCHANGED <<chan, exited>>
          /\ tasks' = tasks \/ tasks' = Append(tasks, Plain("writeComplete"))
      BY <1>3, <2>2, <2>5 DEF appendRest, queueInLoop, rest
    <3>2. Output' = Output \o Text(m)
      BY <1>3, <2>1, <2>3, <2>4, <2>5, <3>1 DEF Output, rest
    <3> QED
      BY <2>2, <2>3, <3>1, <3>2 DEF chan, TypeOK, Registered, isWriting
  <2>6. CASE rest # <<>>
    <3>1. /\ outputBuffer_' = outputBuffer_ \o rest
          /\ updateChannel(events_ \cup {"write"})
          /\ UNCHANGED tasks
      BY <1>3, <2>6 DEF appendRest, rest
    <3>2. outputBuffer_' = rest
      BY <2>1, <2>2, <3>1, ConcatEmptySeq
    <3>3. Output' = Output \o Text(m)
      BY <1>3, <2>1, <2>4, <3>2 DEF Output, rest
    <3>4. events_ \cup {"write"} \in SUBSET {"read", "write"}
      BY DEF TypeOK
    <3>5. /\ Registered' /\ events_' = events_ \cup {"write"}
          /\ index_' \in {"added", "deleted"}
          /\ epoll' \in {Absent, events_ \cup {"write"}}
          /\ exited' \in {"no", "fatal", "sigpipe"}
      BY <3>1, <3>4, UpdateRegisters
    <3> QED
      BY <2>1, <2>2, <2>3, <2>6, <3>1, <3>2, <3>3, <3>4, <3>5 DEF isWriting
  <2> QED
    BY <2>5, <2>6
<1> QED
  BY <1>1, <1>2, <1>3 DEF sendInLoop

------------------------------------------------------------------------------
(* The safety invariants.                                                  *)

(* The poller's record stays right.                                        *)
LEMMA KeepsRegistered ==
  ASSUME ConnInv, [Next]_vars
  PROVE  Registered'
<1> USE DEF ConnInv
<1>1. CASE UNCHANGED chan
  BY <1>1 DEF chan, Registered
<1>2. ASSUME NEW ev \in SUBSET {"read", "write"}, updateChannel(ev)
      PROVE  Registered'
  BY <1>2, UpdateRegisters
<1>3. CASE Sends
  BY <1>3, SendEffect DEF Sends
<1>4. CASE Removes
  BY <1>4 DEF Removes, removeChannel, Registered, Absent
<1>5. CASE Writes
  <2>1. UNCHANGED chan \/ updateChannel(events_ \ {"write"})
    BY <1>5 DEF Writes, writeSome
  <2>2. events_ \ {"write"} \in SUBSET {"read", "write"}
    BY DEF TypeOK
  <2> QED
    BY <1>1, <1>2, <2>1, <2>2
<1>6. CASE Comes \/ Goes
  <2>1. events_ \cup {"read"} \in SUBSET {"read", "write"}
        /\ {} \in SUBSET {"read", "write"}
    BY DEF TypeOK
  <2> QED
    BY <1>2, <1>6, <2>1 DEF Comes, Goes
<1>7. CASE Shuts
  BY <1>1, <1>7 DEF Shuts
<1> QED
  BY <1>1, <1>3, <1>4, <1>5, <1>6, <1>7, Effects

(* writeSome takes a part of the output, and stops watching at its end.    *)
LEMMA WriteEffect ==
  ASSUME TypeOK, writeSome
  PROVE  /\ outputBuffer_' \in Seq(Bytes) /\ wire' \in Seq(Bytes)
         /\ Output' = Output /\ finSent' = finSent /\ UNCHANGED counts
         /\ IF outputBuffer_' = <<>> THEN ~isWriting'
                                     ELSE UNCHANGED chan /\ isWriting
<1>1. PICK n \in 1 .. Len(outputBuffer_) :
        /\ wire' = wire \o SubSeq(outputBuffer_, 1, n)
        /\ outputBuffer_' = SubSeq(outputBuffer_, n + 1, Len(outputBuffer_))
  BY DEF writeSome
<1>2. /\ wire \in Seq(Bytes) /\ outputBuffer_ \in Seq(Bytes)
      /\ n \in 0 .. Len(outputBuffer_)
  BY DEF TypeOK
<1>3. /\ SubSeq(outputBuffer_, 1, n) \in Seq(Bytes)
      /\ SubSeq(outputBuffer_, n + 1, Len(outputBuffer_)) \in Seq(Bytes)
      /\ (wire \o SubSeq(outputBuffer_, 1, n))
           \o SubSeq(outputBuffer_, n + 1, Len(outputBuffer_)) = wire \o outputBuffer_
  BY <1>2, CutKeeps
<1>4. wire' \in Seq(Bytes) /\ outputBuffer_' \in Seq(Bytes)
  BY <1>1, <1>2, <1>3, ConcatProperties
<1>5. Output' = Output
  BY <1>1, <1>3 DEF Output
<1>6. finSent' = finSent /\ UNCHANGED counts
  BY DEF writeSome, sock
<1>7. IF outputBuffer_' = <<>> THEN ~isWriting' ELSE UNCHANGED chan /\ isWriting
  BY DEF writeSome, updateChannel, isWriting
<1> QED
  BY <1>4, <1>5, <1>6, <1>7

(* EPOLLOUT is watched for exactly while there is output.                  *)
LEMMA KeepsWatching ==
  ASSUME ConnInv, [Next]_vars
  PROVE  WatchesOutput'
<1> USE DEF ConnInv
<1>1. CASE UNCHANGED <<chan, out, counts, finSent>> \/ Shuts
  BY <1>1 DEF Shuts, chan, out, counts, WatchesOutput, Open, isWriting
<1>2. CASE Sends
  <2>1. PICK m \in Messages \cup {Junk} : sendInLoop(m) /\ UNCHANGED counts
    BY <1>2 DEF Sends
  <2>2. UNCHANGED <<out, chan>> \/ (isWriting' <=> outputBuffer_' # <<>>)
    BY <2>1, SendEffect
  <2> QED
    BY <2>1, <2>2 DEF chan, out, counts, WatchesOutput, Open, isWriting
<1>3. CASE Comes
  <2>1. ups = 0 => ~isWriting' /\ outputBuffer_' = <<>>
    BY <1>3 DEF Comes, updateChannel, Early, isWriting, out
  <2> QED
    BY <1>3, <2>1 DEF Comes, WatchesOutput, Open, TypeOK
<1>4. CASE Goes
  BY <1>4 DEF Goes, WatchesOutput, Open, TypeOK
<1>5. CASE Writes
  BY <1>5, WriteEffect DEF Writes, chan, counts, WatchesOutput, Open, isWriting
<1>6. CASE Removes
  BY <1>6 DEF Removes, removeChannel, out, counts, WatchesOutput, Open, isWriting
<1> QED
  BY <1>1, <1>2, <1>3, <1>4, <1>5, <1>6, Effects

(* Whole messages go out.                                                  *)
LEMMA KeepsWhole ==
  ASSUME ConnInv, [Next]_vars
  PROVE  Whole'
<1> USE DEF ConnInv
<1>1. CASE UNCHANGED out
  BY <1>1 DEF out, Whole, Output
<1>2. CASE Sends
  <2>1. PICK m \in Messages \cup {Junk} : sendInLoop(m)
    BY <1>2 DEF Sends
  <2>2. UNCHANGED out \/ Output' = Output \o Text(m)
    BY <2>1, SendEffect
  <2>3. Output \in Seq(Bytes)
    BY ConcatProperties DEF Output, TypeOK
  <2>4. Frames(Output) => Frames(Output \o Text(m))
    BY <2>3, AppendFrames
  <2>5. CASE Output' = Output \o Text(m)
    BY <2>4, <2>5 DEF Whole
  <2> QED
    BY <1>1, <2>2, <2>5
<1>3. CASE Writes
  BY <1>3, WriteEffect DEF Writes, Whole
<1> QED
  BY <1>1, <1>2, <1>3, Effects DEF Shuts, Comes, Goes, Removes

(* FIN does not overtake output.                                           *)
LEMMA KeepsFin ==
  ASSUME ConnInv, [Next]_vars
  PROVE  FinAfterOutput'
<1> USE DEF ConnInv
<1>1. CASE UNCHANGED <<chan, out, counts, finSent>> \/ Removes
  BY <1>1 DEF Removes, out, counts, FinAfterOutput, Open
<1>2. CASE Sends
  <2>1. PICK m \in Messages \cup {Junk} : sendInLoop(m) /\ UNCHANGED counts
    BY <1>2 DEF Sends
  <2>2. finSent' = finSent /\ (UNCHANGED out \/ ~finSent)
    BY <2>1, SendEffect
  <2> QED
    BY <2>1, <2>2 DEF out, counts, FinAfterOutput, Open
<1>3. CASE Shuts
  BY <1>3 DEF Shuts, shutdownInLoop, outputFlushed, out, counts, FinAfterOutput,
     WatchesOutput, Open
<1>4. CASE Comes
  BY <1>4 DEF Comes, Early, out, FinAfterOutput, Open, TypeOK
<1>5. CASE Goes
  BY <1>5 DEF Goes, FinAfterOutput, Open, TypeOK
<1>6. CASE Writes
  <2>1. outputBuffer_ # <<>>
    BY <1>6 DEF Writes, writeSome
  <2> QED
    BY <1>6, <2>1, WriteEffect DEF Writes, counts, FinAfterOutput, Open
<1> QED
  BY <1>1, <1>2, <1>3, <1>4, <1>5, <1>6, Effects

------------------------------------------------------------------------------
(* Types.                                                                  *)

(* What is queued is a functor of the connection.                          *)
LEMMA QueueTyped ==
  ASSUME TypeOK, NEW fn \in Raw \cup Owning, NEW t \in Threads,
         NEW m \in Messages \cup {Junk}, queueInLoop(Task(fn, t, m))
  PROVE  tasks' \in Seq(Tasks)
<1>1. Task(fn, t, m) \in Tasks
  BY DEF Task, Tasks
<1> QED
  BY <1>1, AppendProperties DEF queueInLoop, TypeOK

(* The functors the loop queues itself.                                    *)
LEMMA PlainTyped ==
  ASSUME TypeOK, NEW fn \in Raw \cup Owning, queueInLoop(Plain(fn))
  PROVE  tasks' \in Seq(Tasks)
BY QueueTyped DEF Plain, Threads

(* What a functor leaves in the batch, and the message it has.             *)
LEMMA FunctorTyped ==
  ASSUME TypeOK, NEW fn, functor(fn)
  PROVE  /\ batch' \in Seq(Tasks) /\ batchOwns' \in BOOLEAN
         /\ Head(batch).msg \in Messages \cup {Junk}
         /\ UNCHANGED <<revents_, call, holders, accepted>>
<1>1. batch \in Seq(Tasks) /\ batch # <<>>
  BY DEF functor, TypeOK
<1>2. Head(batch) \in Tasks /\ Tail(batch) \in Seq(Tasks)
  BY <1>1, HeadTailProperties
<1> QED
  BY <1>2 DEF functor, TypeOK, Tasks

(* Calls of send() and shutdown() from anywhere.                           *)
LEMMA CallsTyped ==
  ASSUME TypeOK, Registered, UserCall \/ CallStep
  PROVE  TypeOK'
<1>1. CASE shutdownHere
  <2>1. tasks' \in Seq(Tasks)
    BY <1>1, PlainTyped DEF shutdownHere, Raw, TypeOK
  <2>2. finSent' \in BOOLEAN
    BY <1>1 DEF shutdownHere, shutdownInLoop, TypeOK
  <2> QED
    BY <1>1, <2>1, <2>2 DEF shutdownHere, chan, out, server, counts, place, TypeOK
<1>2. ASSUME NEW m \in Messages, sendHere(m)
      PROVE  TypeOK'
  <2>1. accepted' \in SUBSET (Threads \X Messages)
    BY <1>2 DEF sendHere, Threads, TypeOK
  <2>2. UNCHANGED <<state_, server, counts, place, call, holders>>
    BY <1>2 DEF sendHere
  <2>3. CASE TidCached
    <3>1. sendInLoop(m)
      BY <1>2, <2>3 DEF sendHere
    <3>2. tasks' \in Seq(Tasks)
      <4>1. tasks' = tasks \/ queueInLoop(Plain("writeComplete"))
        BY <3>1, SendEffect DEF queueInLoop
      <4> QED
        BY <4>1, PlainTyped DEF Owning, TypeOK
    <3> QED
      BY <2>1, <2>2, <3>1, <3>2, SendEffect DEF server, counts, place, TypeOK
  <2>4. CASE ~TidCached
    <3>1. tasks' \in Seq(Tasks)
      BY <1>2, <2>4, QueueTyped DEF sendHere, Raw, Threads
    <3>2. UNCHANGED <<out, chan, sock, exited>>
      BY <1>2, <2>4 DEF sendHere
    <3> QED
      BY <2>1, <2>2, <3>1, <3>2 DEF out, chan, sock, server, counts, place, TypeOK
  <2> QED
    BY <2>3, <2>4
<1>3. ASSUME NEW c \in Callers,
             shutdownTest(c) \/ shutdownSet(c) \/ release(c)
      PROVE  TypeOK'
  <2>1. /\ call' \in {call, [call EXCEPT ![c] = <<"set">>],
                           [call EXCEPT ![c] = <<"queue">>]}
        /\ holders' \in {holders, holders \ {c}}
        /\ state_' \in {state_, "DisConnecting"}
        /\ UNCHANGED <<chan, out, sock, server, counts, place, tasks, accepted, exited>>
    BY <1>3 DEF shutdownTest, shutdownSet, release
  <2>2. call' \in [Callers -> {<<"none">>, <<"queue">>, <<"set">>}
                              \cup ({"send"} \X Messages)]
    BY <2>1 DEF TypeOK
  <2>3. holders' \in SUBSET Callers
        /\ state_' \in {"Connecting", "Connected", "DisConnecting", "DisConnected"}
    BY <2>1 DEF TypeOK
  <2> QED
    BY <2>1, <2>2, <2>3 DEF chan, out, sock, server, counts, place, TypeOK
<1>4. ASSUME NEW c \in Callers, NEW m \in Messages, sendTest(c, m)
      PROVE  TypeOK'
  <2>1. call' \in [Callers -> {<<"none">>, <<"queue">>, <<"set">>}
                              \cup ({"send"} \X Messages)]
    BY <1>4 DEF sendTest, TypeOK
  <2> QED
    BY <1>4, <2>1 DEF sendTest, chan, out, sock, server, counts, place, TypeOK
<1>5. ASSUME NEW c \in Callers, sendQueue(c) \/ shutdownQueue(c)
      PROVE  TypeOK'
  <2>1. /\ call' = [call EXCEPT ![c] = <<"none">>]
        /\ UNCHANGED <<state_, chan, out, sock, server, counts, place, holders,
                       exited>>
    BY <1>5 DEF sendQueue, shutdownQueue
  <2>2. call' \in [Callers -> {<<"none">>, <<"queue">>, <<"set">>}
                              \cup ({"send"} \X Messages)]
    BY <2>1 DEF TypeOK
  <2>3. tasks' \in Seq(Tasks) /\ accepted' \in SUBSET (Threads \X Messages)
    <3>1. CASE shutdownQueue(c)
      BY <3>1, QueueTyped DEF shutdownQueue, Raw, Threads, TypeOK
    <3>2. CASE sendQueue(c)
      <4>1. call[c][2] \in Messages
        BY <3>2 DEF sendQueue, TypeOK
      <4>2. queueInLoop(Task("sendInLoop", c, call[c][2]))
        BY <3>2 DEF sendQueue
      <4>3. tasks' \in Seq(Tasks)
        BY <4>1, <4>2, QueueTyped DEF Raw, Threads
      <4> QED
        BY <3>2, <4>1, <4>3 DEF sendQueue, Threads, TypeOK
    <3> QED
      BY <1>5, <3>1, <3>2
  <2> QED
    BY <2>1, <2>2, <2>3 DEF chan, out, sock, server, counts, place, TypeOK
<1> QED
  BY <1>1, <1>2, <1>3, <1>4, <1>5 DEF UserCall, CallStep

(* What is unchanged, or typed.                                            *)
StateType == state_ \in {"Connecting", "Connected", "DisConnecting", "DisConnected"}
AtType == at \in {"poll", "events", "batch", "written"} \cup InCallback
EventsType == revents_ \in SUBSET {"close", "error", "read", "write"}
ExitedType == exited \in {"no", "fatal", "sigpipe"}
ChanType == /\ events_ \in SUBSET {"read", "write"}
            /\ index_ \in {"new", "added", "deleted"}
            /\ epoll \in {Absent} \cup SUBSET {"read", "write"}
OutType == outputBuffer_ \in Seq(Bytes) /\ wire \in Seq(Bytes)
SockType == /\ finSent \in BOOLEAN /\ soError \in BOOLEAN
            /\ peer \in {"open", "shut", "reset"}
            /\ incoming \in 0 .. requests /\ requests \in 0 .. MaxRequests

(* A step that keeps the calls of the other threads keeps the types, part  *)
(* by part.                                                                *)
LEMMA TypesKept ==
  ASSUME TypeOK,
         state_' = state_ \/ StateType', at' = at \/ AtType',
         revents_' = revents_ \/ EventsType', exited' = exited \/ ExitedType',
         UNCHANGED chan \/ ChanType', UNCHANGED sock \/ SockType', UNCHANGED out \/ OutType',
         tasks' = tasks \/ tasks' \in Seq(Tasks),
         batch' = batch \/ batch' \in Seq(Tasks),
         batchOwns' = batchOwns \/ batchOwns' \in BOOLEAN,
         stopped' = stopped \/ stopped' \in BOOLEAN,
         mapped' = mapped \/ mapped' \in BOOLEAN,
         removals' = removals \/ removals' \in Nat,
         ups' = ups \/ ups' \in Nat, downs' = downs \/ downs' \in Nat,
         UNCHANGED <<call, holders, accepted>>
  PROVE  TypeOK'
<1>1. StateType' /\ AtType' /\ EventsType' /\ ExitedType'
  BY DEF StateType, AtType, EventsType, ExitedType, TypeOK
<1>2. ChanType'
  BY DEF ChanType, TypeOK, chan
<1>3. SockType'
  BY DEF SockType, TypeOK, sock
<1>4. OutType'
  BY DEF OutType, TypeOK, out
<1>5. tasks' \in Seq(Tasks) /\ batch' \in Seq(Tasks) /\ batchOwns' \in BOOLEAN
  BY DEF TypeOK
<1>6. /\ stopped' \in BOOLEAN /\ mapped' \in BOOLEAN /\ removals' \in Nat
      /\ ups' \in Nat /\ downs' \in Nat
  BY DEF TypeOK
<1>7. /\ call' \in [Callers -> {<<"none">>, <<"queue">>, <<"set">>}
                                \cup ({"send"} \X Messages)]
      /\ holders' \in SUBSET Callers /\ accepted' \in SUBSET (Threads \X Messages)
  BY DEF TypeOK
<1> QED
  BY <1>1, <1>2, <1>3, <1>4, <1>5, <1>6, <1>7
     DEF TypeOK, StateType, AtType, EventsType, ExitedType, ChanType, SockType, OutType

(* The handlers of the Channel.                                            *)
LEMMA HandlersTyped ==
  ASSUME TypeOK, Registered, Handler
  PROVE  TypeOK'
<1>1. ASSUME NEW cb, next(cb)
      PROVE  /\ revents_' \in SUBSET {"close", "error", "read", "write"}
             /\ UNCHANGED <<batch, batchOwns, call, holders, accepted>>
  BY <1>1 DEF next, TypeOK
<1>2. ASSUME handleClose
      PROVE  /\ state_' = "DisConnected" /\ downs' \in Nat /\ at' \in InCallback
             /\ events_' \in SUBSET {"read", "write"}
             /\ index_' \in {"new", "added", "deleted"}
             /\ epoll' \in {Absent} \cup SUBSET {"read", "write"}
             /\ exited' \in {"no", "fatal", "sigpipe"}
             /\ UNCHANGED <<out, sock, server, tasks, ups>>
  <2>1. updateChannel({})
    BY <1>2 DEF handleClose
  <2>2. {} \in SUBSET {"read", "write"}
    OBVIOUS
  <2>3. /\ events_' = {} /\ index_' \in {"added", "deleted"} /\ epoll' \in {Absent, {}}
        /\ exited' \in {"no", "fatal", "sigpipe"}
    BY <2>1, <2>2, UpdateRegisters
  <2> QED
    BY <1>2, <2>3 DEF handleClose, InCallback, TypeOK
<1>3. CASE closeEvent \/ readEnd
  BY <1>1, <1>2, <1>3 DEF closeEvent, readEnd, out, sock, server, TypeOK
<1>4. CASE errorEvent \/ readFails \/ writeNothing
  <2>1. PICK cb : next(cb)
    BY <1>4 DEF errorEvent, readFails, writeNothing
  <2>2. /\ UNCHANGED sock \/ SockType'
        /\ UNCHANGED <<state_, chan, out, server, counts, tasks, at, exited>>
    BY <1>4 DEF errorEvent, readFails, writeNothing, handleError, sock, SockType, TypeOK
  <2> QED
    BY <1>1, <2>1, <2>2, TypesKept DEF EventsType, server, counts
<1>5. CASE readMessage
  BY <1>1, <1>5 DEF readMessage, chan, out, server, counts, InCallback, TypeOK
<1>6. CASE writeSome
  <2>1. next("write") /\ UNCHANGED <<state_, server, counts, tasks, sock>>
    BY <1>6 DEF writeSome, sock
  <2>2. at' \in {at, "complete", "written"}
    BY <1>6 DEF writeSome
  <2>3. UNCHANGED <<chan, exited>> \/ updateChannel(events_ \ {"write"})
    BY <1>6 DEF writeSome
  <2>4. events_ \ {"write"} \in SUBSET {"read", "write"}
    BY DEF TypeOK
  <2>5. /\ events_' \in SUBSET {"read", "write"}
        /\ index_' \in {"new", "added", "deleted"}
        /\ epoll' \in {Absent} \cup SUBSET {"read", "write"}
        /\ exited' \in {"no", "fatal", "sigpipe"}
    <3>1. CASE UNCHANGED <<chan, exited>>
      BY <3>1 DEF chan, TypeOK
    <3>2. CASE updateChannel(events_ \ {"write"})
      BY <2>4, <3>2, UpdateRegisters
    <3> QED
      BY <2>3, <3>1, <3>2
  <2>6. outputBuffer_' \in Seq(Bytes) /\ wire' \in Seq(Bytes)
    BY <1>6, WriteEffect
  <2> QED
    BY <1>1, <2>1, <2>2, <2>5, <2>6 DEF sock, server, counts, InCallback, TypeOK
<1>7. CASE writeError
  <2>1. next("write")
    BY <1>7 DEF writeError
  <2>2. /\ UNCHANGED sock \/ SockType'
        /\ exited' = exited \/ ExitedType'
        /\ UNCHANGED <<state_, chan, out, server, counts, tasks, at>>
    BY <1>7 DEF writeError, handleError, sock, SockType, ExitedType, TypeOK
  <2> QED
    BY <1>1, <2>1, <2>2, TypesKept DEF EventsType, server, counts
<1>8. CASE handleWriteEnd
  <2>1. finSent' \in BOOLEAN
    BY <1>8 DEF handleWriteEnd, shutdownInLoop, TypeOK
  <2> QED
    BY <1>8, <2>1 DEF handleWriteEnd, chan, out, server, counts, TypeOK
<1>9. CASE messageReturn
  BY <1>9 DEF messageReturn, chan, out, sock, server, counts, TypeOK
<1>10. CASE handleCloseEnd
  BY <1>10 DEF handleCloseEnd, removeConnection, chan, out, sock, counts, TypeOK
<1> QED
  BY <1>3, <1>4, <1>5, <1>6, <1>7, <1>8, <1>9, <1>10 DEF Handler

(* The functors of the loop.                                               *)
LEMMA FunctorsTyped ==
  ASSUME TypeOK, Registered, Functor
  PROVE  TypeOK'
<1> DEFINE ChanTyped == /\ events_' \in SUBSET {"read", "write"}
                        /\ index_' \in {"new", "added", "deleted"}
                        /\ epoll' \in {Absent} \cup SUBSET {"read", "write"}
                        /\ exited' \in {"no", "fatal", "sigpipe"}
<1>1. ASSUME NEW ev \in SUBSET {"read", "write"}, updateChannel(ev)
      PROVE  ChanTyped
  BY <1>1, UpdateRegisters
<1>2. ASSUME removeChannel
      PROVE  ChanTyped
  BY <1>2 DEF removeChannel, TypeOK
<1>3. CASE connectEstablished
  <2>1. events_ \cup {"read"} \in SUBSET {"read", "write"}
    BY DEF TypeOK
  <2>2. ChanTyped
    BY <1>1, <1>3, <2>1 DEF connectEstablished
  <2>3. functor("connectEstablished")
    BY <1>3 DEF connectEstablished
  <2> QED
    <3>1. /\ StateType' /\ AtType' /\ ExitedType' /\ ChanType' /\ ups' \in Nat
          /\ UNCHANGED <<out, sock, server, tasks, downs>>
      BY <1>3, <2>2 DEF connectEstablished, StateType, AtType, ExitedType, ChanType,
         InCallback, TypeOK
    <3> HIDE DEF ChanTyped
    <3> QED
      BY <2>3, <3>1, FunctorTyped, TypesKept DEF server
<1>4. CASE connectDestroy
  <2>1. {} \in SUBSET {"read", "write"}
    OBVIOUS
  <2>2. ChanTyped
    BY <1>1, <1>2, <1>4, <2>1 DEF connectDestroy
  <2>3. functor("connectDestroy")
    BY <1>4 DEF connectDestroy
  <2>4. /\ state_' \in {"DisConnected", state_} /\ downs' \in {downs + 1, downs}
        /\ at' \in {"down", at}
        /\ UNCHANGED <<out, sock, server, tasks, ups>>
    BY <1>4 DEF connectDestroy
  <2> QED
    <3>1. /\ StateType' /\ AtType' /\ ExitedType' /\ ChanType' /\ downs' \in Nat
          /\ UNCHANGED <<out, sock, server, tasks, ups>>
      BY <2>2, <2>4 DEF StateType, AtType, ExitedType, ChanType, InCallback, TypeOK
    <3> QED
      BY <2>3, <3>1, FunctorTyped, TypesKept DEF server
<1>5. CASE connectDestroyEnd
  <2>1. ChanTyped
    BY <1>2, <1>5 DEF connectDestroyEnd
  <2> QED
    BY <1>5, <2>1 DEF connectDestroyEnd, out, sock, server, counts, TypeOK
<1>6. CASE sendTask
  <2>1. functor("sendInLoop")
    BY <1>6 DEF sendTask
  <2>2. PICK m \in Messages \cup {Junk} : sendInLoop(m)
    BY <1>6, <2>1, FunctorTyped DEF sendTask
  <2>3. UNCHANGED <<state_, server, counts, at>>
    BY <1>6 DEF sendTask
  <2>4. tasks' \in Seq(Tasks)
    <3>1. tasks' = tasks \/ queueInLoop(Plain("writeComplete"))
      BY <2>2, SendEffect DEF queueInLoop
    <3> QED
      BY <3>1, PlainTyped DEF Owning, TypeOK
  <2>5. SockType' /\ ChanType' /\ ExitedType' /\ OutType'
    BY <2>2, SendEffect DEF SockType, ChanType, ExitedType, OutType, TypeOK
  <2> HIDE DEF ChanTyped
  <2> QED
    BY <2>1, <2>3, <2>4, <2>5, FunctorTyped, TypesKept DEF server, counts
<1>7. CASE shutdownTask
  <2>1. functor("shutdownInLoop")
    BY <1>7 DEF shutdownTask
  <2>2. /\ SockType'
        /\ UNCHANGED <<state_, chan, out, server, counts, at, tasks, exited>>
    BY <1>7 DEF shutdownTask, shutdownInLoop, SockType, TypeOK
  <2> QED
    BY <2>1, <2>2, FunctorTyped, TypesKept DEF server, counts
<1>8. CASE writeCompleteTask
  <2>1. functor("writeComplete")
    BY <1>8 DEF writeCompleteTask
  <2>2. /\ AtType'
        /\ UNCHANGED <<state_, chan, out, sock, server, counts, tasks, exited>>
    BY <1>8 DEF writeCompleteTask, AtType, InCallback
  <2> QED
    BY <2>1, <2>2, FunctorTyped, TypesKept DEF server, counts
<1>9. CASE taskCallbackReturn
  BY <1>9 DEF taskCallbackReturn, chan, out, sock, server, counts, TypeOK
<1> QED
  BY <1>3, <1>4, <1>5, <1>6, <1>7, <1>8, <1>9 DEF Functor

(* The rest of the loop, the base loop, the server and the peer.           *)
LEMMA OthersTyped ==
  ASSUME TypeOK,
         \/ poll \/ doPendingFunctors \/ doPendingFunctorsEnd
         \/ removeConnectionInLoop \/ destroyServer \/ Peer
  PROVE  TypeOK'
<1> USE ConnAssumption
<1>1. CASE poll
  BY <1>1 DEF poll, chan, out, sock, server, counts, TypeOK
<1>2. CASE doPendingFunctors
  <2>1. /\ AtType' /\ batch' \in Seq(Tasks) /\ tasks' \in Seq(Tasks)
        /\ UNCHANGED <<state_, chan, out, sock, server, counts, revents_, batchOwns,
                       call, holders, accepted, exited>>
    BY <1>2 DEF doPendingFunctors, AtType, TypeOK
  <2> QED
    BY <2>1, TypesKept DEF server, counts
<1>3. CASE doPendingFunctorsEnd
  <2>1. /\ AtType' /\ batchOwns' \in BOOLEAN
        /\ UNCHANGED <<state_, chan, out, sock, server, counts, revents_, batch,
                       tasks, call, holders, accepted, exited>>
    BY <1>3 DEF doPendingFunctorsEnd, AtType
  <2> QED
    BY <2>1, TypesKept DEF server, counts
<1>4. CASE removeConnectionInLoop
  <2>1. tasks' \in Seq(Tasks)
    BY <1>4, PlainTyped DEF removeConnectionInLoop, Owning
  <2>2. removals' \in Nat
    BY <1>4 DEF removeConnectionInLoop, TypeOK
  <2> QED
    <3>1. /\ mapped' \in BOOLEAN
          /\ UNCHANGED <<state_, chan, out, sock, stopped, counts, place, call,
                         holders, accepted, exited>>
      BY <1>4 DEF removeConnectionInLoop
    <3> QED
      BY <2>1, <2>2, <3>1, TypesKept DEF counts, place
<1>5. CASE destroyServer
  <2>1. tasks' \in Seq(Tasks)
    BY <1>5, PlainTyped DEF destroyServer, Owning, TypeOK
  <2> QED
    <3>1. /\ mapped' \in BOOLEAN /\ stopped' \in BOOLEAN
          /\ UNCHANGED <<state_, chan, out, sock, removals, counts, place, call,
                         holders, accepted, exited>>
      BY <1>5 DEF destroyServer
    <3> QED
      BY <2>1, <3>1, TypesKept DEF counts, place
<1>6. CASE Peer
  <2>1. /\ requests' \in 0 .. MaxRequests /\ incoming' \in 0 .. requests'
        /\ peer' \in {"open", "shut", "reset"} /\ soError' \in BOOLEAN
        /\ UNCHANGED <<state_, chan, out, finSent, server, counts, place, tasks,
                       call, holders, accepted, exited>>
    <3>1. CASE peerSend
      BY <3>1 DEF peerSend, TypeOK
    <3>2. CASE peerShut
      BY <3>2 DEF peerShut, TypeOK
    <3>3. CASE peerReset
      BY <3>3 DEF peerReset, TypeOK
    <3> QED
      BY <1>6, <3>1, <3>2, <3>3 DEF Peer
  <2> QED
    <3>1. SockType'
      BY <2>1 DEF SockType, TypeOK
    <3> QED
      BY <2>1, <3>1, TypesKept DEF server, counts, place
<1> QED
  BY <1>1, <1>2, <1>3, <1>4, <1>5, <1>6

(* Every step keeps the types.                                             *)
LEMMA KeepsTypes ==
  ASSUME ConnInv, [Next]_vars
  PROVE  TypeOK'
<1>1. CASE UNCHANGED vars
  <2>1. UNCHANGED <<state_, chan, out, sock, server, counts, place, tasks, call,
                    holders, accepted, exited>>
    BY <1>1 DEF vars
  <2> QED
    BY <2>1, TypesKept DEF ConnInv, server, counts, place
<1> QED
  BY <1>1, CallsTyped, HandlersTyped, FunctorsTyped, OthersTyped
     DEF Next, LoopStep, ConnInv

------------------------------------------------------------------------------
(* Before connectEstablished.                                              *)

(* A functor of the server queued behind others of it.                     *)
LEMMA QueueOfServer ==
  ASSUME TypeOK, OfServer(tasks), queueInLoop(Plain("connectDestroy"))
  PROVE  OfServer(tasks')
<1>1. /\ tasks \in Seq(Tasks)
      /\ tasks' = Append(tasks, Plain("connectDestroy"))
  BY DEF TypeOK, queueInLoop
<1>2. Plain("connectDestroy").fn = "connectDestroy"
  BY DEF Plain, Task
<1> HIDE DEF Plain
<1> QED
  BY <1>1, <1>2 DEF OfServer

(* Nothing happens to the connection before connectEstablished.            *)
LEMMA KeepsEarly ==
  ASSUME ConnInv, [Next]_vars
  PROVE  Early'
<1> SUFFICES ASSUME ups' = 0
             PROVE  /\ state_' = "Connecting"
                    /\ outputBuffer_' = <<>> /\ wire' = <<>>
                    /\ events_' = {} /\ epoll' = Absent /\ revents_' = {}
                    /\ at' \in {"poll", "events", "batch"}
                    /\ \A c \in Callers : call'[c] = <<"none">>
                    /\ OfServer(tasks') /\ OfServer(batch')
  BY DEF Early
<1>1. ups = 0
  BY Effects DEF Sends, Shuts, Comes, Goes, Writes, Removes, writeSome, counts,
     ConnInv, TypeOK
<1>2. /\ state_ = "Connecting"
      /\ outputBuffer_ = <<>> /\ wire = <<>>
      /\ events_ = {} /\ epoll = Absent /\ revents_ = {}
      /\ at \in {"poll", "events", "batch"}
      /\ \A c \in Callers : call[c] = <<"none">>
      /\ OfServer(tasks) /\ OfServer(batch)
  BY <1>1 DEF ConnInv, Early
<1>3. CASE UNCHANGED <<state_, chan, out, place, tasks, call>>
  BY <1>2, <1>3 DEF chan, out, place
<1>4. ~UserCall \/ \E c \in Callers : release(c)
  BY <1>2 DEF UserCall, shutdownHere, sendHere, sendTest, shutdownTest, InCallback
<1>5. ~CallStep
  BY <1>2 DEF CallStep, sendQueue, shutdownSet, shutdownQueue
<1>6. ~Handler
  BY <1>2 DEF Handler, closeEvent, errorEvent, readMessage, readEnd, readFails,
     writeNothing, writeSome, writeError, handleWriteEnd, messageReturn,
     handleCloseEnd, next
<1>7. CASE poll
  BY <1>2, <1>7 DEF poll, chan, out
<1>8. CASE doPendingFunctors
  BY <1>2, <1>8 DEF doPendingFunctors, chan, out, OfServer
<1>9. CASE doPendingFunctorsEnd
  BY <1>2, <1>9 DEF doPendingFunctorsEnd, chan, out
<1>10. CASE Functor
  <2>1. ASSUME NEW fn, functor(fn)
        PROVE  fn \in {"connectEstablished", "connectDestroy"} /\ OfServer(batch')
    <3>1. batch \in Seq(Tasks) /\ batch # <<>> /\ batch' = Tail(batch)
          /\ Head(batch).fn = fn
      BY <2>1 DEF functor, ConnInv, TypeOK
    <3>2. Head(batch) = batch[1] /\ 1 \in DOMAIN batch
      BY <3>1
    <3>3. \A i \in DOMAIN Tail(batch) : /\ i + 1 \in DOMAIN batch
                                        /\ Tail(batch)[i] = batch[i + 1]
      BY <3>1
    <3> QED
      BY <1>2, <3>1, <3>2, <3>3 DEF OfServer
  <2>2. connectDestroy
    BY <1>1, <1>2, <1>10, <2>1 DEF Functor, connectEstablished, connectDestroyEnd,
       sendTask, shutdownTask, writeCompleteTask, taskCallbackReturn
  <2>3. /\ functor("connectDestroy") /\ removeChannel
        /\ UNCHANGED <<state_, at, out, tasks>>
    BY <1>2, <2>2 DEF connectDestroy, stillUp
  <2> QED
    BY <1>2, <2>1, <2>3 DEF removeChannel, functor, out
<1>11. CASE removeConnectionInLoop \/ destroyServer
  <2>1. UNCHANGED <<state_, chan, out, place, call>>
    BY <1>11 DEF removeConnectionInLoop, destroyServer
  <2>2. tasks' = tasks \/ queueInLoop(Plain("connectDestroy"))
    BY <1>11 DEF removeConnectionInLoop, destroyServer
  <2>3. OfServer(tasks')
    BY <1>2, <2>2, QueueOfServer DEF ConnInv
  <2> QED
    BY <1>2, <2>1, <2>3 DEF chan, out, place
<1>12. CASE Peer
  BY <1>3, <1>12 DEF Peer, peerSend, peerShut, peerReset
<1>13. CASE \E c \in Callers : release(c)
  BY <1>3, <1>13 DEF release
<1>14. CASE UNCHANGED vars
  BY <1>3, <1>14 DEF vars
<1> QED
  BY <1>4, <1>5, <1>6, <1>7, <1>8, <1>9, <1>10, <1>11, <1>12, <1>13, <1>14
     DEF Next, LoopStep

------------------------------------------------------------------------------
(* Theorems.                                                               *)

(* The invariant of the connection.                                        *)
THEOREM ConnInvariant == Spec => []ConnInv
<1>1. ConnInv /\ [Next]_vars => ConnInv'
  BY KeepsTypes, KeepsEarly, KeepsRegistered, KeepsWatching, KeepsWhole, KeepsFin
     DEF ConnInv
<1> QED
  BY ConnInit, <1>1, PTL DEF Spec

(* The state of the connection, of its functors and of calls half done in  *)
(* other threads stays among the states the code knows.                    *)
THEOREM ConnTypeCorrect == Spec => []TypeOK
<1>1. ConnInv => TypeOK
  BY DEF ConnInv
<1> QED
  BY <1>1, ConnInvariant, PTL

(* The poller's record of the socket is what the kernel has.               *)
THEOREM RecordIsRight == Spec => []Registered
<1>1. ConnInv => Registered
  BY DEF ConnInv
<1> QED
  BY <1>1, ConnInvariant, PTL

(* An open connection waits for EPOLLOUT exactly while it has output.      *)
THEOREM OutputIsWatched == Spec => []WatchesOutput
<1>1. ConnInv => WatchesOutput
  BY DEF ConnInv
<1> QED
  BY <1>1, ConnInvariant, PTL

(* However writes are cut, no message is torn or mixed with another.       *)
THEOREM MessagesWhole == Spec => []Untorn
<1>1. ConnInv => Untorn
  BY DEF ConnInv, Whole, Frames, Untorn
<1> QED
  BY <1>1, ConnInvariant, PTL

(* FIN leaves an open connection only after all of its output.             *)
THEOREM FinIsLast == Spec => []FinAfterOutput
<1>1. ConnInv => FinAfterOutput
  BY DEF ConnInv
<1> QED
  BY <1>1, ConnInvariant, PTL

------------------------------------------------------------------------------
(* The reply of a server that calls the connection from its loop only.     *)

(* Then nothing is queued without its owner; before the first send() there *)
(* is no output; and what the only send() took is all there, unless the    *)
(* peer has reset.                                                         *)
ReplyInv ==
  /\ \A i \in DOMAIN tasks : tasks[i].fn \in Owning
  /\ \A i \in DOMAIN batch : batch[i].fn \in Owning
  /\ ups = 0 => accepted = {} /\ ~finSent
  /\ Open /\ finSent => state_ # "Connected"
  /\ soError => peer = "reset"
  /\ Open /\ accepted = {} => Output = <<>>
  /\ Open /\ peer # "reset" =>
       \A a \in accepted :
         accepted = {a} => \E i \in DOMAIN Output : Output[i] = <<a[2], MsgLen>>

(* The first send() of an open connection puts all of it on the socket or  *)
(* in the buffer.                                                          *)
LEMMA FirstSend ==
  ASSUME ConnInv, ReplyInv, NEW m \in Messages, sendInLoop(m),
         Open, state_ = "Connected", accepted = {}, peer # "reset"
  PROVE  \E i \in DOMAIN Output' : Output'[i] = <<m, MsgLen>>
<1> USE ConnAssumption
<1>1. Output = <<>> /\ outputBuffer_ = <<>> /\ ~isWriting
  <2>1. Output = <<>>
    BY DEF ReplyInv
  <2>2. outputBuffer_ = <<>>
    BY <2>1, ConcatEqualIffEmpty, ConcatProperties, EmptySeq DEF Output, ConnInv, TypeOK
  <2> QED
    BY <2>1, <2>2 DEF ConnInv, WatchesOutput
<1>2. ~soError /\ ~raisesSigpipe
  BY DEF ReplyInv, raisesSigpipe
<1>3. PICK n \in 0 .. MsgLen :
        /\ wire' = wire \o SubSeq(Text(m), 1, n)
        /\ appendRest(SubSeq(Text(m), n + 1, MsgLen))
  BY <1>1, <1>2 DEF sendInLoop, freshOutput
<1> DEFINE rest == SubSeq(Text(m), n + 1, MsgLen)
<1>4. /\ wire \in Seq(Bytes) /\ rest \in Seq(Bytes)
      /\ (wire \o SubSeq(Text(m), 1, n)) \o rest = wire \o Text(m)
  BY CutText DEF ConnInv, TypeOK
<1> HIDE DEF rest
<1>5. outputBuffer_' = rest
  <2>1. outputBuffer_' = IF rest = <<>> THEN outputBuffer_ ELSE outputBuffer_ \o rest
    BY <1>3 DEF appendRest, rest
  <2> QED
    BY <1>1, <1>4, <2>1, ConcatEmptySeq
<1>6. Output' = wire \o Text(m)
  BY <1>3, <1>4, <1>5 DEF Output
<1>7. /\ Len(Output') = Len(wire) + MsgLen /\ Output' \in Seq(Bytes)
      /\ Output'[Len(wire) + MsgLen] = Text(m)[MsgLen]
  <2>1. ASSUME NEW t \in Seq(Bytes), Len(t) = MsgLen
        PROVE  /\ Len(wire \o t) = Len(wire) + MsgLen /\ wire \o t \in Seq(Bytes)
               /\ (wire \o t)[Len(wire) + MsgLen] = t[MsgLen]
    <3>1. t # <<>>
      BY <2>1
    <3>2. /\ wire \o t \in Seq(Bytes) /\ Len(wire \o t) = Len(wire) + Len(t)
          /\ (wire \o t)[Len(wire) + Len(t)] = t[Len(t)]
      BY <1>4, <3>1, ConcatBytes
    <3> QED
      BY <2>1, <3>2
  <2> QED
    BY <1>6, <2>1, TextTyped, Zenon
<1>8. Len(wire) + MsgLen \in DOMAIN Output'
  BY <1>4, <1>7
<1> QED
  BY <1>7, <1>8 DEF Text

(* Every step keeps it.                                                    *)
LEMMA KeepsReplyInv ==
  ASSUME TidCached, Callers = {}, ConnInv, ConnInv', ReplyInv, [Next]_vars
  PROVE  ReplyInv'
<1> DEFINE Owned(ts) == \A i \in DOMAIN ts : ts[i].fn \in Owning
<1>1. ASSUME NEW fn, functor(fn)
      PROVE  fn \in Owning /\ Owned(batch')
  <2>1. /\ batch \in Seq(Tasks) /\ batch # <<>> /\ batch' = Tail(batch)
        /\ Head(batch).fn = fn
    BY <1>1 DEF functor, ConnInv, TypeOK
  <2>2. Head(batch) = batch[1] /\ 1 \in DOMAIN batch
    BY <2>1
  <2>3. \A i \in DOMAIN Tail(batch) : /\ i + 1 \in DOMAIN batch
                                      /\ Tail(batch)[i] = batch[i + 1]
    BY <2>1
  <2> QED
    BY <2>1, <2>2, <2>3 DEF ReplyInv
<1>2. ~sendTask /\ ~shutdownTask
  BY <1>1 DEF sendTask, shutdownTask, Owning
<1>3. ASSUME NEW fn \in Owning, queueInLoop(Plain(fn))
      PROVE  Owned(tasks')
  <2>1. tasks \in Seq(Tasks) /\ tasks' = Append(tasks, Plain(fn))
    BY <1>3 DEF queueInLoop, ConnInv, TypeOK
  <2>2. Plain(fn).fn = fn
    BY DEF Plain, Task
  <2> HIDE DEF Plain
  <2> QED
    BY <2>1, <2>2 DEF ReplyInv
<1>4. ASSUME NEW m, sendInLoop(m)
      PROVE  tasks' = tasks \/ queueInLoop(Plain("writeComplete"))
  BY <1>4 DEF sendInLoop, appendRest
<1>5. Owned(tasks') /\ Owned(batch')
  <2>1. tasks' = tasks \/ tasks' = <<>> \/ \E fn \in Owning : queueInLoop(Plain(fn))
    <3>1. CASE UserCall
      BY <1>4, <3>1 DEF UserCall, shutdownHere, sendHere, Owning
    <3>2. CASE Functor
      BY <1>2, <3>2 DEF Functor, connectEstablished, connectDestroy,
         connectDestroyEnd, writeCompleteTask, taskCallbackReturn
    <3>3. CASE Handler
      BY <3>3 DEF Handler, closeEvent, errorEvent, readMessage, readEnd, readFails,
         writeNothing, writeSome, writeError, handleWriteEnd, messageReturn,
         handleCloseEnd, handleClose, handleError
    <3> QED
      BY <3>1, <3>2, <3>3 DEF Next, CallStep, LoopStep, poll, doPendingFunctors,
         doPendingFunctorsEnd, removeConnectionInLoop, destroyServer, Peer, peerSend,
         peerShut, peerReset, Owning, vars
  <2>2. batch' = batch \/ batch' = tasks \/ \E fn : functor(fn)
    <3>1. CASE Functor
      BY <1>2, <3>1 DEF Functor, connectEstablished, connectDestroy,
         connectDestroyEnd, writeCompleteTask, taskCallbackReturn
    <3>2. CASE Handler
      BY <3>2 DEF Handler, closeEvent, errorEvent, readMessage, readEnd, readFails,
         writeNothing, writeSome, writeError, handleWriteEnd, messageReturn,
         handleCloseEnd, next
    <3> QED
      BY <3>1, <3>2 DEF Next, UserCall, CallStep, LoopStep, poll, doPendingFunctors,
         doPendingFunctorsEnd, removeConnectionInLoop, destroyServer, Peer, peerSend,
         peerShut, peerReset, shutdownHere, sendHere, place, vars
  <2>3. Owned(tasks')
    BY <1>3, <2>1 DEF ReplyInv
  <2>4. Owned(batch')
    BY <1>1, <2>2 DEF ReplyInv
  <2> QED
    BY <2>3, <2>4
<1> HIDE DEF Owned
<1>6. /\ ups' = ups \/ ups' = ups + 1
      /\ downs' = downs \/ downs' = downs + 1
      /\ ups \in Nat /\ downs \in Nat
  BY Effects DEF Sends, Shuts, Comes, Goes, Writes, Removes, writeSome, counts,
     ConnInv, TypeOK
<1>7. /\ soError' => soError \/ peer' = "reset"
      /\ peer = "reset" => peer' = "reset"
  <2>1. CASE UserCall
    BY <2>1 DEF UserCall, shutdownHere, sendHere, sendInLoop
  <2>2. CASE Functor
    BY <1>2, <2>2 DEF Functor, connectEstablished, connectDestroy,
       connectDestroyEnd, writeCompleteTask, taskCallbackReturn, sock
  <2>3. CASE Handler
    BY <2>3 DEF Handler, closeEvent, errorEvent, readMessage, readEnd, readFails,
       writeNothing, writeSome, writeError, handleWriteEnd, messageReturn,
       handleCloseEnd, handleClose, handleError, sock
  <2> QED
    BY <2>1, <2>2, <2>3 DEF Next, CallStep, LoopStep, poll, doPendingFunctors,
       doPendingFunctorsEnd, removeConnectionInLoop, destroyServer, Peer, peerSend,
       peerShut, peerReset, sock, vars
<1>8. \/ /\ UNCHANGED <<state_, finSent>>
      \/ finSent' /\ state_' = "DisConnecting"
      \/ finSent' = finSent /\ state_' \in {"DisConnecting", "DisConnected"}
      \/ finSent' = finSent /\ ups' = ups + 1
  <2>1. CASE UserCall
    BY <2>1 DEF UserCall, shutdownHere, sendHere, sendInLoop, shutdownInLoop,
       ConnInv, TypeOK
  <2>2. CASE Functor
    BY <1>2, <2>2 DEF Functor, connectEstablished, connectDestroy,
       connectDestroyEnd, writeCompleteTask, taskCallbackReturn, sock
  <2>3. CASE Handler
    BY <2>3 DEF Handler, closeEvent, errorEvent, readMessage, readEnd, readFails,
       writeNothing, writeSome, writeError, handleWriteEnd, messageReturn,
       handleCloseEnd, handleClose, handleError, sock, shutsAfterOutput,
       shutdownInLoop, ConnInv, TypeOK
  <2> QED
    BY <2>1, <2>2, <2>3 DEF Next, CallStep, LoopStep, poll, doPendingFunctors,
       doPendingFunctorsEnd, removeConnectionInLoop, destroyServer, Peer, peerSend,
       peerShut, peerReset, sock, vars
<1>9. \/ \E m \in Messages : sendHere(m)
      \/ accepted' = accepted /\ Output' = Output
  <2>1. accepted' = accepted \/ \E m \in Messages : sendHere(m)
    <3>1. CASE Functor
      BY <1>2, <3>1 DEF Functor, connectEstablished, connectDestroy, functor,
         connectDestroyEnd, writeCompleteTask, taskCallbackReturn
    <3>2. CASE Handler
      BY <3>2 DEF Handler, closeEvent, errorEvent, readMessage, readEnd, readFails,
         writeNothing, writeSome, writeError, handleWriteEnd, messageReturn,
         handleCloseEnd, next
    <3> QED
      BY <3>1, <3>2 DEF Next, UserCall, CallStep, LoopStep, poll, doPendingFunctors,
         doPendingFunctorsEnd, removeConnectionInLoop, destroyServer, Peer, peerSend,
         peerShut, peerReset, shutdownHere, vars
  <2>2. Output' = Output \/ \E m \in Messages : sendHere(m)
    <3>1. CASE UNCHANGED out
      BY <3>1 DEF out, Output
    <3>2. CASE writeSome
      BY <3>2, WriteEffect DEF ConnInv
    <3>3. UNCHANGED out \/ writeSome \/ \E m \in Messages : sendHere(m)
      <4>1. CASE Functor
        BY <1>2, <4>1 DEF Functor, connectEstablished, connectDestroy,
           connectDestroyEnd, writeCompleteTask, taskCallbackReturn
      <4>2. CASE Handler
        BY <4>2 DEF Handler, closeEvent, errorEvent, readMessage, readEnd, readFails,
           writeNothing, writeError, handleWriteEnd, messageReturn,
           handleCloseEnd, handleClose, handleError
      <4> QED
        BY <4>1, <4>2 DEF Next, UserCall, CallStep, LoopStep, poll,
           doPendingFunctors, doPendingFunctorsEnd, removeConnectionInLoop,
           destroyServer, Peer, peerSend, peerShut, peerReset, shutdownHere, vars
    <3> QED
      BY <3>1, <3>2, <3>3
  <2> QED
    BY <2>1, <2>2
<1>10. ups' = 0 => accepted' = {} /\ ~finSent'
  <2> SUFFICES ASSUME ups' = 0 PROVE accepted' = {} /\ ~finSent'
    OBVIOUS
  <2>1. ups = 0 /\ at \notin InCallback /\ state_' = "Connecting"
    BY <1>6 DEF ConnInv, Early, InCallback
  <2>2. accepted' = {}
    BY <1>9, <2>1 DEF ReplyInv, sendHere
  <2>3. ~finSent'
    BY <1>6, <1>8, <2>1 DEF ReplyInv
  <2> QED
    BY <2>2, <2>3
<1>11. Open' => Open \/ ups = 0
  BY <1>6 DEF Open
<1>12. Open' /\ finSent' => state_' # "Connected"
  <2> SUFFICES ASSUME Open', finSent' PROVE state_' # "Connected"
    OBVIOUS
  <2>1. CASE finSent' = finSent
    <3>1. ups # 0 /\ Open
      BY <1>11, <2>1 DEF ReplyInv
    <3>2. ups' # ups + 1
      BY <1>6, <3>1 DEF Open
    <3>3. state_ # "Connected"
      BY <2>1, <3>1 DEF ReplyInv
    <3> QED
      BY <1>8, <3>2, <3>3
  <2>2. CASE finSent' # finSent
    BY <1>8, <2>2
  <2> QED
    BY <2>1, <2>2
<1>13. soError' => peer' = "reset"
  BY <1>7 DEF ReplyInv
<1>14. ups = 0 => Output = <<>>
  BY DEF ConnInv, Early, Output
<1>15. Open' /\ accepted' = {} => Output' = <<>>
  BY <1>9, <1>11, <1>14 DEF ReplyInv, sendHere
<1>16. ASSUME Open', peer' # "reset", NEW a \in accepted', accepted' = {a}
       PROVE  \E i \in DOMAIN Output' : Output'[i] = <<a[2], MsgLen>>
  <2>1. CASE accepted' = accepted /\ Output' = Output
    BY <1>7, <1>11, <1>16, <2>1 DEF ReplyInv
  <2>2. ASSUME NEW m \in Messages, sendHere(m)
        PROVE  \E i \in DOMAIN Output' : Output'[i] = <<a[2], MsgLen>>
    <3>1. /\ at \in InCallback /\ state_ = "Connected" /\ sendInLoop(m)
          /\ accepted' = accepted \cup {<<Loop, m>>} /\ <<Loop, m>> \notin accepted
      BY <2>2 DEF sendHere, unsent, Threads
    <3>2. a = <<Loop, m>> /\ accepted = {}
      BY <1>16, <3>1
    <3>3. ups # 0
      BY <3>1 DEF ConnInv, Early
    <3> QED
      BY <1>7, <1>11, <1>16, <3>1, <3>2, <3>3, FirstSend
  <2> QED
    BY <1>9, <2>1, <2>2
<1> QED
  BY <1>5, <1>10, <1>12, <1>13, <1>15, <1>16 DEF ReplyInv, Owned

(* Where send() is called in the loop's thread only, the lone reply of a   *)
(* connection is on the socket or in the buffer until the connection ends. *)
THEOREM LoneReplyKept ==
  ASSUME TidCached, Callers = {}
  PROVE  Spec => []KeepsReply
<1>1. Init => ReplyInv
  BY DEF Init, ReplyInv, Open, Plain, Task, Owning
<1>2. ConnInv /\ ConnInv' /\ ReplyInv /\ [Next]_vars => ReplyInv'
  BY KeepsReplyInv
<1>3. ReplyInv => KeepsReply
  BY DEF ReplyInv, KeepsReply, KeepsSends
<1> QED
  BY <1>1, <1>2, <1>3, ConnInvariant, PTL DEF Spec

------------------------------------------------------------------------------
(* The life of a connection of a server that stays and calls it from its   *)
(* loop only.                                                              *)

NotIn(ts, fn) == \A i \in DOMAIN ts : ts[i].fn # fn
OnceIn(ts, fn) == \E i \in DOMAIN ts : \A j \in DOMAIN ts : ts[j].fn = fn <=> j = i

Never(fn) == NotIn(tasks, fn) /\ NotIn(batch, fn)
Once(fn) == \/ OnceIn(tasks, fn) /\ NotIn(batch, fn)
            \/ NotIn(tasks, fn) /\ OnceIn(batch, fn)

New == /\ ups = 0 /\ downs = 0
       /\ index_ = "new" /\ removals = 0
       /\ Once("connectEstablished") /\ Never("connectDestroy")

Up == /\ ups = 1 /\ downs = 0
      /\ index_ = "added" /\ "read" \in events_
      /\ removals = 0 /\ at # "closing"
      /\ Never("connectEstablished") /\ Never("connectDestroy")

(* After handleClose the connection's removal is in one place: the end of  *)
(* handleClose, the base loop, a functor; or it is over.                   *)
Removal ==
  \/ at = "closing" /\ index_ = "deleted" /\ removals = 0 /\ Never("connectDestroy")
  \/ at # "closing" /\ index_ = "deleted" /\ removals = 1 /\ Never("connectDestroy")
  \/ at # "closing" /\ index_ = "deleted" /\ removals = 0 /\ Once("connectDestroy")
  \/ at # "closing" /\ index_ = "new" /\ removals = 0 /\ Never("connectDestroy")

Down == /\ ups = 1 /\ downs = 1
        /\ state_ = "DisConnected"
        /\ events_ = {} /\ epoll = Absent
        /\ revents_ \cap {"close", "read"} = {}
        /\ Never("connectEstablished")
        /\ Removal

LifeInv ==
  /\ exited # "fatal" /\ at # "down"
  /\ batch # <<>> => at \in {"batch", "up", "completeTask"}
  /\ "close" \in revents_ => "read" \notin revents_
  /\ New \/ Up \/ Down

(* A step leaves the connection where it is in its life or takes it one    *)
(* further.                                                                *)
Lives == \/ New /\ (New' \/ Up')
         \/ Up /\ (Up' \/ (Down' /\ index_' = "deleted"))
         \/ Down /\ Down' /\ index_' \in {index_, "new"}

(* Another functor at the end of a queue.                                  *)
LEMMA AppendCount ==
  ASSUME NEW ts \in Seq(Tasks), NEW t \in Tasks, NEW fn
  PROVE  /\ t.fn # fn /\ NotIn(ts, fn) => NotIn(Append(ts, t), fn)
         /\ t.fn # fn /\ OnceIn(ts, fn) => OnceIn(Append(ts, t), fn)
         /\ t.fn = fn /\ NotIn(ts, fn) => OnceIn(Append(ts, t), fn)
<1> DEFINE us == Append(ts, t)
<1>1. /\ DOMAIN ts = 1 .. Len(ts) /\ DOMAIN us = 1 .. Len(ts) + 1 /\ Len(ts) \in Nat
      /\ us[Len(ts) + 1] = t
      /\ \A i \in 1 .. Len(ts) : us[i] = ts[i]
  OBVIOUS
<1> HIDE DEF us
<1>2. ASSUME t.fn # fn, NotIn(ts, fn) PROVE NotIn(us, fn)
  BY <1>1, <1>2 DEF NotIn
<1>3. ASSUME t.fn # fn, OnceIn(ts, fn) PROVE OnceIn(us, fn)
  <2>1. PICK i \in DOMAIN ts : \A j \in DOMAIN ts : ts[j].fn = fn <=> j = i
    BY <1>3 DEF OnceIn
  <2>2. i \in DOMAIN us /\ \A j \in DOMAIN us : us[j].fn = fn <=> j = i
    BY <1>1, <1>3, <2>1
  <2> QED
    BY <2>2 DEF OnceIn
<1>4. ASSUME t.fn = fn, NotIn(ts, fn) PROVE OnceIn(us, fn)
  <2>1. /\ Len(ts) + 1 \in DOMAIN us
        /\ \A j \in DOMAIN us : us[j].fn = fn <=> j = Len(ts) + 1
    BY <1>1, <1>4 DEF NotIn
  <2> QED
    BY <2>1 DEF OnceIn
<1> QED
  BY <1>2, <1>3, <1>4 DEF us

(* A functor taken from the head of a queue.                               *)
LEMMA TailCount ==
  ASSUME NEW ts \in Seq(Tasks), ts # <<>>, NEW fn
  PROVE  /\ NotIn(ts, fn) => Head(ts).fn # fn /\ NotIn(Tail(ts), fn)
         /\ Head(ts).fn # fn /\ OnceIn(ts, fn) => OnceIn(Tail(ts), fn)
         /\ Head(ts).fn = fn /\ OnceIn(ts, fn) => NotIn(Tail(ts), fn)
<1> DEFINE us == Tail(ts)
<1>1. /\ DOMAIN ts = 1 .. Len(ts) /\ DOMAIN us = 1 .. Len(ts) - 1
      /\ Len(ts) \in Nat \ {0} /\ Head(ts) = ts[1]
      /\ \A i \in 1 .. Len(ts) - 1 : us[i] = ts[i + 1]
  OBVIOUS
<1> HIDE DEF us
<1>2. \A j \in DOMAIN us : /\ us[j] = ts[j + 1] /\ j + 1 \in DOMAIN ts
                         /\ j + 1 # 1 /\ (j + 1) - 1 = j
  BY <1>1
<1>3. ASSUME NotIn(ts, fn) PROVE Head(ts).fn # fn /\ NotIn(us, fn)
  BY <1>1, <1>3 DEF NotIn
<1>4. ASSUME NEW i \in DOMAIN ts, \A j \in DOMAIN ts : ts[j].fn = fn <=> j = i
      PROVE  IF i = 1 THEN Head(ts).fn = fn /\ NotIn(us, fn)
                      ELSE Head(ts).fn # fn /\ OnceIn(us, fn)
  <2>1. CASE i = 1
    <3>1. Head(ts).fn = fn
      BY <1>1, <1>4, <2>1
    <3>2. NotIn(us, fn)
      BY <1>2, <1>4, <2>1 DEF NotIn
    <3> QED
      BY <2>1, <3>1, <3>2
  <2>2. CASE i # 1
    <3>1. i - 1 \in DOMAIN us /\ \A j \in DOMAIN us : us[j].fn = fn <=> j = i - 1
      <4>1. /\ i \in Nat /\ i - 1 \in DOMAIN us
            /\ \A j \in DOMAIN us : j + 1 = i <=> j = i - 1
        BY <1>1, <2>2
      <4>2. \A j \in DOMAIN us : us[j].fn = fn <=> j + 1 = i
        BY <1>2, <1>4
      <4> QED
        BY <4>1, <4>2
    <3>2. Head(ts).fn # fn
      BY <1>1, <1>4, <2>2
    <3> QED
      BY <2>2, <3>1, <3>2 DEF OnceIn
  <2> QED
    BY <2>1, <2>2
<1> QED
  BY <1>3, <1>4 DEF OnceIn, us

(* How often functors of a kind are queued stays what it was.              *)
Counts(fn) == (Never(fn) => Never(fn)') /\ (Once(fn) => Once(fn)')

(* A functor that is queued is one more of its kind only.                  *)
LEMMA QueueCounts ==
  ASSUME TypeOK, UNCHANGED batch, NEW g \in Raw \cup Owning, NEW fn,
         tasks' = tasks \/ queueInLoop(Plain(g))
  PROVE  /\ g # fn => Counts(fn)
         /\ g = fn /\ queueInLoop(Plain(g)) /\ Never(fn) => Once(fn)'
<1>1. /\ tasks \in Seq(Tasks) /\ Plain(g) \in Tasks /\ Plain(g).fn = g
      /\ tasks' = tasks \/ tasks' = Append(tasks, Plain(g))
  BY ConnAssumption DEF TypeOK, queueInLoop, Plain, Task, Tasks, Threads
<1>2. /\ g # fn /\ NotIn(tasks, fn) => NotIn(tasks', fn)
      /\ g # fn /\ OnceIn(tasks, fn) => OnceIn(tasks', fn)
      /\ g = fn /\ queueInLoop(Plain(g)) /\ NotIn(tasks, fn) => OnceIn(tasks', fn)
  BY <1>1, AppendCount DEF queueInLoop
<1> QED
  BY <1>2 DEF Counts, Never, Once, NotIn, OnceIn

(* A functor that runs leaves the others, and the only one of its kind     *)
(* leaves none.                                                            *)
LEMMA FunctorCounts ==
  ASSUME TypeOK, NEW g, functor(g), UNCHANGED tasks, NEW fn
  PROVE  /\ ~Never(g)
         /\ g # fn => Counts(fn)
         /\ Once(g) => Never(g)'
<1>1. /\ batch \in Seq(Tasks) /\ batch # <<>>
      /\ Head(batch).fn = g /\ batch' = Tail(batch)
  BY DEF functor, TypeOK
<1>2. ~NotIn(batch, g)
  BY <1>1, TailCount
<1>3. /\ g # fn /\ NotIn(batch, fn) => NotIn(batch', fn)
      /\ g # fn /\ OnceIn(batch, fn) => OnceIn(batch', fn)
      /\ OnceIn(batch, g) => NotIn(batch', g)
  BY <1>1, TailCount
<1>4. \A k : /\ NotIn(tasks, k) => NotIn(tasks', k)
             /\ OnceIn(tasks, k) => OnceIn(tasks', k)
  OBVIOUS
<1> QED
  BY <1>2, <1>3, <1>4 DEF Counts, Never, Once

(* What a step does that is no event of the connection's life.             *)
Quiet ==
  /\ UNCHANGED <<chan, counts, removals>>
  /\ exited' \in {exited, "sigpipe"}
  /\ state_' = state_ \/ state_ = "Connected"
  /\ at' = at \/ {at, at'} \cap {"closing", "down"} = {}
  /\ batch' # <<>> => at' \in {"batch", "up", "completeTask"}
  /\ revents_' \subseteq revents_ \/ poll
  /\ Counts("connectEstablished") /\ Counts("connectDestroy")

(* Such a step changes nothing of what the invariant says.                 *)
LEMMA QuietLives ==
  ASSUME ConnInv, LifeInv, Quiet
  PROVE  LifeInv' /\ Lives
<1>1. /\ "close" \in revents_' => "read" \notin revents_'
      /\ epoll = Absent => revents_' \subseteq revents_
  BY DEF Quiet, LifeInv, poll
<1>2. UNCHANGED <<events_, index_, epoll, ups, downs, removals>>
  BY DEF Quiet, chan, counts
<1>3. ASSUME New PROVE New'
  BY <1>2, <1>3 DEF Quiet, New, Counts
<1>4. ASSUME Up PROVE Up'
  BY <1>2, <1>4 DEF Quiet, Up, Counts
<1>5. ASSUME Down PROVE Down'
  <2>1. Removal'
    BY <1>2, <1>5 DEF Quiet, Down, Removal, Counts
  <2>2. state_' = "DisConnected" /\ Never("connectEstablished")'
    BY <1>5 DEF Quiet, Down, Counts
  <2> QED
    BY <1>1, <1>2, <1>5, <2>1, <2>2 DEF Down
<1>6. exited' # "fatal" /\ at' # "down"
      /\ (batch' # <<>> => at' \in {"batch", "up", "completeTask"})
  BY DEF Quiet, LifeInv
<1> QED
  BY <1>1, <1>2, <1>3, <1>4, <1>5, <1>6 DEF LifeInv, Lives

(* Which handlers and functors can run at all.                             *)
LEMMA LifeGuards ==
  ASSUME ConnInv, LifeInv, ReplyInv
  PROVE  /\ at \in InCallback \/ revents_ # {} \/ isWriting => Up \/ Down
         /\ "close" \in revents_ \/ "read" \in revents_ => Up
         /\ isWriting => Up
         /\ \A fn : functor(fn) => fn \in Owning
<1>1. at \in InCallback \/ revents_ # {} \/ isWriting => Up \/ Down
  BY DEF ConnInv, Early, InCallback, isWriting, LifeInv, New
<1>2. ASSUME NEW fn, functor(fn) PROVE fn \in Owning
  <2>1. Head(batch).fn = fn /\ Head(batch) = batch[1] /\ 1 \in DOMAIN batch
    BY <1>2 DEF functor, ConnInv, TypeOK
  <2> QED
    BY <2>1 DEF ReplyInv
<1> QED
  BY <1>1, <1>2 DEF Down, isWriting

(* A functor that only runs leaves the count of the connection's two.      *)
LEMMA SameQueues ==
  ASSUME ConnInv, UNCHANGED batch,
         tasks' = tasks \/ queueInLoop(Plain("writeComplete"))
  PROVE  Counts("connectEstablished") /\ Counts("connectDestroy")
BY QueueCounts DEF ConnInv, Owning

(* A send() from a callback finds the connection up and leaves it up.      *)
LEMMA SendLives ==
  ASSUME TidCached, ConnInv, LifeInv, ReplyInv, NEW m \in Messages, sendHere(m)
  PROVE  LifeInv' /\ Lives
<1>1. at \in InCallback /\ state_ = "Connected" /\ sendInLoop(m)
      /\ UNCHANGED <<state_, server, counts, place>>
  BY DEF sendHere
<1>2. Up
  BY <1>1, LifeGuards DEF Down
<1>3. tasks' = tasks \/ queueInLoop(Plain("writeComplete"))
  BY <1>1 DEF sendInLoop, appendRest
<1>4. \/ UNCHANGED chan /\ exited' \in {exited, "sigpipe"}
      \/ updateChannel(events_ \cup {"write"})
  BY <1>1 DEF sendInLoop, appendRest, chan
<1>5. index_' = "added" /\ "read" \in events_' /\ exited' # "fatal"
  BY <1>2, <1>4 DEF Up, LifeInv, ConnInv, Registered, updateChannel, chan
<1>6. Up'
  BY <1>1, <1>2, <1>3, <1>5, SameQueues DEF Up, Counts, server, counts, place
<1> QED
  BY <1>1, <1>2, <1>5, <1>6 DEF LifeInv, Lives, place

(* handleClose runs once, and hands the removal to its own end.            *)
LEMMA CloseLives ==
  ASSUME ConnInv, LifeInv, ReplyInv, closeEvent \/ readEnd
  PROVE  LifeInv' /\ Lives
<1>1. /\ handleClose /\ at = "events"
      /\ "close" \in revents_ \/ "read" \in revents_
      /\ revents_' \subseteq revents_ /\ revents_' \cap {"close", "read"} = {}
      /\ UNCHANGED batch
  BY DEF closeEvent, readEnd, next, LifeInv
<1>2. Up
  BY <1>1, LifeGuards
<1>3. /\ index_' = "deleted" /\ events_' = {} /\ epoll' = Absent
      /\ UNCHANGED exited
  BY <1>1, <1>2 DEF handleClose, updateChannel, Up
<1>4. Never("connectEstablished")' /\ Never("connectDestroy")'
  BY <1>1, <1>2, SameQueues DEF handleClose, Up, Counts
<1>5. Down'
  BY <1>1, <1>2, <1>3, <1>4 DEF handleClose, Up, Down, Removal, server
<1> QED
  BY <1>1, <1>2, <1>3, <1>5 DEF LifeInv, Lives, handleClose

(* handleWrite has output only while the connection is up, and keeps       *)
(* reading.                                                                *)
LEMMA WriteLives ==
  ASSUME ConnInv, LifeInv, ReplyInv, writeSome
  PROVE  LifeInv' /\ Lives
<1>1. /\ at = "events" /\ isWriting /\ at' # "closing" /\ at' # "down"
      /\ revents_' \subseteq revents_
      /\ UNCHANGED <<state_, server, counts, tasks, batch>>
  BY DEF writeSome, next
<1>2. Up
  BY <1>1, LifeGuards
<1>3. UNCHANGED <<chan, exited>> \/ updateChannel(events_ \ {"write"})
  BY DEF writeSome
<1>4. index_' = "added" /\ "read" \in events_' /\ exited' # "fatal"
  BY <1>2, <1>3 DEF Up, LifeInv, ConnInv, Registered, updateChannel, chan
<1>5. Up'
  BY <1>1, <1>2, <1>4, SameQueues DEF Up, Counts, server, counts
<1> QED
  BY <1>1, <1>4, <1>5, <1>2 DEF LifeInv, Lives

(* The handlers: the end of handleClose gives the removal to the base loop, *)
(* the others are quiet.                                                   *)
LEMMA HandlerLives ==
  ASSUME ConnInv, LifeInv, ReplyInv, Handler
  PROVE  LifeInv' /\ Lives
<1>1. CASE handleCloseEnd
  <2>1. Down
    BY <1>1 DEF handleCloseEnd, LifeInv, Up, New, ConnInv, Early
  <2>2. Never("connectEstablished")' /\ Never("connectDestroy")'
    BY <1>1, <2>1, SameQueues DEF handleCloseEnd, Down, Removal, Counts
  <2>3. removals' = 1 /\ index_' = "deleted" /\ at' = "events"
    BY <1>1, <2>1 DEF handleCloseEnd, Down, Removal, removeConnection, chan
  <2>4. Down'
    BY <1>1, <2>1, <2>2, <2>3 DEF handleCloseEnd, Down, Removal, chan, counts
  <2> QED
    BY <1>1, <2>1, <2>3, <2>4 DEF handleCloseEnd, LifeInv, Lives, chan
<1>2. CASE errorEvent \/ readMessage \/ readFails \/ writeNothing \/ writeError
  <2>1. /\ UNCHANGED <<state_, chan, counts, removals, batch, tasks>>
        /\ exited' \in {exited, "sigpipe"}
        /\ at = "events" /\ at' \in {"events", "message"}
        /\ revents_' \subseteq revents_
    BY <1>2 DEF errorEvent, readMessage, readFails, writeNothing, writeError,
       handleError, next, server
  <2>2. Quiet
    BY <2>1, SameQueues DEF Quiet, LifeInv
  <2> QED
    BY <2>2, QuietLives
<1>3. CASE handleWriteEnd \/ messageReturn
  <2>1. /\ UNCHANGED <<state_, chan, counts, removals, batch, tasks, exited, revents_>>
        /\ at \in {"complete", "written", "message"} /\ at' = "events"
    BY <1>3 DEF handleWriteEnd, messageReturn, server
  <2>2. Quiet
    BY <2>1, SameQueues DEF Quiet, LifeInv
  <2> QED
    BY <2>2, QuietLives
<1> QED
  BY <1>1, <1>2, <1>3, CloseLives, WriteLives DEF Handler

(* The functors: connectEstablished begins the life, connectDestroy finds  *)
(* the connection down and removes the Channel.                            *)
LEMMA FunctorLives ==
  ASSUME ConnInv, LifeInv, ReplyInv, Functor
  PROVE  LifeInv' /\ Lives
<1>1. ~sendTask /\ ~shutdownTask /\ ~connectDestroyEnd
  BY LifeGuards DEF sendTask, shutdownTask, connectDestroyEnd, Owning, LifeInv
<1>2. CASE connectEstablished
  <2>1. /\ functor("connectEstablished") /\ UNCHANGED tasks
        /\ updateChannel(events_ \cup {"read"})
        /\ at' = "up" /\ ups' = ups + 1
        /\ UNCHANGED <<server, downs>>
    BY <1>2 DEF connectEstablished
  <2>2. New /\ epoll = Absent /\ revents_ = {}
    BY <2>1, FunctorCounts DEF ConnInv, LifeInv, Up, Down, New, Early
  <2>3. Never("connectEstablished")' /\ Never("connectDestroy")'
    BY <2>1, <2>2, FunctorCounts DEF ConnInv, New, Counts
  <2>4. index_' = "added" /\ events_' = events_ \cup {"read"} /\ UNCHANGED exited
    BY <2>1, <2>2 DEF updateChannel, New
  <2>5. Up'
    BY <2>1, <2>2, <2>3, <2>4 DEF New, Up, server
  <2>6. UNCHANGED revents_
    BY <2>1 DEF functor
  <2> QED
    BY <2>1, <2>2, <2>4, <2>5, <2>6 DEF LifeInv, Lives
<1>3. CASE connectDestroy
  <2>1. functor("connectDestroy") /\ at = "batch" /\ UNCHANGED <<tasks, ups, server>>
    BY <1>3 DEF connectDestroy, functor
  <2>2. Down /\ index_ = "deleted" /\ removals = 0 /\ Once("connectDestroy")
    BY <2>1, FunctorCounts DEF ConnInv, LifeInv, Up, New, Down, Removal
  <2>3. removeChannel /\ UNCHANGED <<state_, downs, at>>
    BY <1>3, <2>2 DEF connectDestroy, stillUp, Down
  <2>4. index_' = "new" /\ UNCHANGED <<events_, epoll, exited>>
    BY <2>2, <2>3 DEF removeChannel
  <2>5. Never("connectEstablished")' /\ Never("connectDestroy")'
    BY <2>1, <2>2, FunctorCounts DEF ConnInv, Down, Counts
  <2>6. UNCHANGED revents_
    BY <2>1 DEF functor
  <2>7. Down'
    BY <2>1, <2>2, <2>3, <2>4, <2>5, <2>6 DEF Down, Removal, server
  <2> QED
    BY <2>1, <2>2, <2>3, <2>4, <2>6, <2>7 DEF LifeInv, Lives
<1>4. CASE writeCompleteTask
  <2>1. /\ functor("writeComplete")
        /\ UNCHANGED <<state_, chan, counts, removals, tasks, exited, revents_>>
        /\ at = "batch" /\ at' = "completeTask"
    BY <1>4 DEF writeCompleteTask, functor, server
  <2>2. Counts("connectEstablished") /\ Counts("connectDestroy")
    BY <2>1, FunctorCounts DEF ConnInv
  <2>3. Quiet
    BY <2>1, <2>2 DEF Quiet
  <2> QED
    BY <2>3, QuietLives
<1>5. CASE taskCallbackReturn
  <2>1. /\ UNCHANGED <<state_, chan, counts, removals, tasks, batch, exited, revents_>>
        /\ at \in {"up", "completeTask"} /\ at' = "batch"
    BY <1>5 DEF taskCallbackReturn, server
  <2>2. Quiet
    BY <2>1, SameQueues DEF Quiet
  <2> QED
    BY <2>2, QuietLives
<1> QED
  BY <1>1, <1>2, <1>3, <1>4, <1>5 DEF Functor

(* Every step keeps the invariant and leads the connection on.             *)
LEMMA StepLives ==
  ASSUME TidCached, Callers = {}, ~ServerStops, ConnInv, LifeInv, ReplyInv,
         [Next]_vars
  PROVE  LifeInv' /\ Lives
<1>1. CASE removeConnectionInLoop
  <2>1. Down /\ at # "closing" /\ index_ = "deleted" /\ removals = 1
        /\ Never("connectDestroy")
    BY <1>1 DEF removeConnectionInLoop, LifeInv, New, Up, Down, Removal
  <2>2. Never("connectEstablished")' /\ Once("connectDestroy")'
    BY <1>1, <2>1, QueueCounts
       DEF removeConnectionInLoop, ConnInv, Owning, Down, Counts, place
  <2>3. removals' = 0 /\ UNCHANGED <<state_, chan, counts, place, exited>>
    BY <1>1, <2>1 DEF removeConnectionInLoop
  <2>4. Down'
    BY <2>1, <2>2, <2>3 DEF Down, Removal, chan, counts, place
  <2> QED
    BY <2>1, <2>3, <2>4 DEF LifeInv, Lives, place, chan
<1>2. CASE \/ poll \/ doPendingFunctorsEnd \/ shutdownHere \/ Peer
           \/ UNCHANGED vars
  <2>1. /\ UNCHANGED <<chan, counts, removals, exited, batch, tasks>>
        /\ state_' = state_ \/ state_ = "Connected"
        /\ revents_' = revents_ \/ poll
        /\ \/ at' = at
           \/ at = "poll" /\ at' = "events"
           \/ at = "batch" /\ at' = "poll" /\ batch = <<>>
    BY <1>2 DEF poll, doPendingFunctorsEnd, shutdownHere, Peer, peerSend, peerShut,
       peerReset, vars, place, server
  <2>2. Quiet
    BY <2>1, SameQueues DEF Quiet, LifeInv
  <2> QED
    BY <2>2, QuietLives
<1>3. CASE doPendingFunctors
  <2>1. /\ UNCHANGED <<state_, chan, counts, removals, exited, revents_>>
        /\ at = "events" /\ at' = "batch"
        /\ batch = <<>> /\ batch' = tasks /\ tasks' = <<>>
    BY <1>3 DEF doPendingFunctors, LifeInv, server
  <2>2. \A fn : Counts(fn)
    BY <2>1 DEF Counts, Never, Once, NotIn, OnceIn
  <2>3. Quiet
    BY <2>1, <2>2 DEF Quiet
  <2> QED
    BY <2>3, QuietLives
<1> QED
  BY <1>1, <1>2, <1>3, SendLives, HandlerLives, FunctorLives
     DEF Next, UserCall, CallStep, LoopStep, destroyServer

(* Where the connection is in its life is where the abstract one is.       *)
LEMMA LivesImplement ==
  ASSUME Lives
  PROVE  [Life!Next]_<<[c \in {"this"} |-> Stage], FALSE>>
<1>1. /\ New => Stage = "new"
      /\ Up => Stage = "up"
      /\ Down => Stage = IF index_ = "new" THEN "gone" ELSE "down"
  BY DEF New, Up, Down, Stage
<1>2. /\ New' => Stage' = "new"
      /\ Up' => Stage' = "up"
      /\ Down' => Stage' = IF index_' = "new" THEN "gone" ELSE "down"
  BY DEF New, Up, Down, Stage
<1>3. \/ Stage' = Stage
      \/ Stage = "new" /\ Stage' = "up"
      \/ Stage = "up" /\ Stage' = "down"
      \/ Stage = "down" /\ Stage' = "gone"
  BY <1>1, <1>2 DEF Lives
<1> HIDE DEF Stage
<1> QED
  BY <1>3 DEF Life!Next, Life!ComesUp, Life!GoesDown, Life!IsRemoved, Life!Becomes

(* The invariant of the connection's life.                                 *)
LEMMA LifeInvariant ==
  ASSUME TidCached, Callers = {}, ~ServerStops
  PROVE  Spec => [](ConnInv /\ ReplyInv /\ LifeInv)
<1>1. Init => ReplyInv
  BY DEF Init, ReplyInv, Open, Plain, Task, Owning
<1>2. Init => LifeInv
  BY DEF Init, LifeInv, New, Once, Never, NotIn, OnceIn, Plain, Task
<1>3. ConnInv /\ ConnInv' /\ ReplyInv /\ [Next]_vars => ReplyInv'
  BY KeepsReplyInv
<1>4. ConnInv /\ ReplyInv /\ LifeInv /\ [Next]_vars => LifeInv'
  BY StepLives
<1> QED
  BY <1>1, <1>2, <1>3, <1>4, ConnInvariant, PTL DEF Spec

(* Where only the loop's thread calls and the server stays, the user sees  *)
(* each connection come up once and go down once, and its Channel is       *)
(* removed once, after that.                                               *)
THEOREM ConnImplementsLife ==
  ASSUME TidCached, Callers = {}, ~ServerStops
  PROVE  Spec => ImplementsLife
<1>1. Init => Life!Init
  BY DEF Init, Life!Init, Stage
<1>2. ConnInv /\ ReplyInv /\ LifeInv /\ [Next]_vars
        => [Life!Next]_<<[c \in {"this"} |-> Stage], FALSE>>
  BY StepLives, LivesImplement
<1> QED
  BY <1>1, <1>2, LifeInvariant, PTL DEF Spec, ImplementsLife, Life!Spec

------------------------------------------------------------------------------
(* The safety half of ShutdownEnds, for any callers in any threads.        *)

(* shutdownInLoop is queued, or about to be by another thread.             *)
Asked == ~Never("shutdownInLoop") \/ \E c \in Callers : call[c] = <<"queue">>

(* A connection in DisConnecting has somebody who will send the FIN.       *)
FinToCome ==
  exited = "no" /\ state_ = "DisConnecting" /\ peer # "reset" =>
    finSent \/ isWriting \/ at \in {"complete", "written"} \/ Asked

(* A Channel taken out of the epoll set waits for nothing, and functors    *)
(* are left of a batch only while it runs.                                 *)
ShutInv ==
  /\ index_ = "deleted" => events_ = {}
  /\ batch # <<>> => at \in {"batch", "up", "completeTask", "down"}
  /\ FinToCome

(* The same, seen from the socket: shutdown() is not forgotten, but for a  *)
(* reset or a server that has removed the Channel.                         *)
ShutdownNotForgotten ==
  exited = "no" /\ state_ = "DisConnecting" /\ peer # "reset" /\ index_ # "new" =>
    finSent \/ "write" \in epoll \/ at \in {"complete", "written"} \/ Asked

(* A queue grows at its end.                                               *)
LEMMA LongerQueue ==
  ASSUME TypeOK, tasks' = tasks \/ \E t \in Tasks : queueInLoop(t)
  PROVE  \A i \in DOMAIN tasks : i \in DOMAIN tasks' /\ tasks'[i] = tasks[i]
<1>1. tasks \in Seq(Tasks)
  BY DEF TypeOK
<1>2. ASSUME NEW t \in Tasks, queueInLoop(t), NEW i \in DOMAIN tasks
      PROVE  i \in DOMAIN tasks' /\ tasks'[i] = tasks[i]
  BY <1>1, <1>2 DEF queueInLoop
<1> QED
  BY <1>2

(* What was queued is still queued when more is.                           *)
LEMMA StaysQueued ==
  ASSUME TypeOK, NEW fn, UNCHANGED batch,
         tasks' = tasks \/ \E t \in Tasks : queueInLoop(t)
  PROVE  ~Never(fn) => ~Never(fn)'
BY LongerQueue DEF Never, NotIn

(* Queueing it.                                                            *)
LEMMA IsQueued ==
  ASSUME TypeOK, NEW t \in Tasks, queueInLoop(t)
  PROVE  ~Never(t.fn)'
<1>1. Len(tasks) + 1 \in DOMAIN tasks' /\ tasks'[Len(tasks) + 1] = t
  BY DEF queueInLoop, TypeOK
<1> QED
  BY <1>1 DEF Never, NotIn

(* A functor that runs is the only one that leaves the queue.              *)
LEMMA RunsOnlyHead ==
  ASSUME TypeOK, NEW g, functor(g), NEW fn, fn # g,
         tasks' = tasks \/ \E t \in Tasks : queueInLoop(t)
  PROVE  ~Never(fn) => ~Never(fn)'
<1>1. /\ batch \in Seq(Tasks) /\ batch # <<>>
      /\ Head(batch) = batch[1] /\ batch[1].fn = g
      /\ \A i \in DOMAIN batch : i = 1 \/ (/\ i - 1 \in DOMAIN batch'
                                        /\ batch'[i - 1] = batch[i])
  BY DEF functor, TypeOK
<1>2. ~NotIn(batch, fn) => ~NotIn(batch', fn)
  BY <1>1 DEF NotIn
<1>3. ~NotIn(tasks, fn) => ~NotIn(tasks', fn)
  BY LongerQueue DEF NotIn
<1> QED
  BY <1>2, <1>3 DEF Never

(* The functors there are.                                                 *)
LEMMA TasksTyped ==
  /\ \A fn \in Raw \cup Owning, t \in Threads, m \in Messages \cup {Junk} :
       Task(fn, t, m) \in Tasks /\ Task(fn, t, m).fn = fn
  /\ \A fn \in Raw \cup Owning : Plain(fn) \in Tasks /\ Plain(fn).fn = fn
BY DEF Task, Tasks, Plain, Threads

(* Only what waits for nothing is taken out of the epoll set.              *)
LEMMA DeletedIsIdle ==
  ASSUME ConnInv, [Next]_vars, index_ = "deleted" => events_ = {}
  PROVE  index_' = "deleted" => events_' = {}
<1>1. ASSUME NEW ev, updateChannel(ev) PROVE index_' = "deleted" => events_' = {}
  BY <1>1 DEF updateChannel
<1>2. CASE Sends
  <2>1. UNCHANGED chan \/ updateChannel(events_ \cup {"write"})
    BY <1>2 DEF Sends, sendInLoop, appendRest, chan
  <2> QED
    BY <1>1, <2>1 DEF chan
<1>3. CASE Writes
  BY <1>1, <1>3 DEF Writes, writeSome, chan
<1> QED
  BY <1>1, <1>2, <1>3, Effects DEF Shuts, Comes, Goes, Removes, removeChannel, chan

(* What a batch is cut at.                                                 *)
LEMMA BatchInPlace ==
  ASSUME ShutInv, [Next]_vars
  PROVE  batch' # <<>> => at' \in {"batch", "up", "completeTask", "down"}
<1>1. CASE UserCall \/ CallStep \/ removeConnectionInLoop \/ destroyServer \/ Peer
           \/ UNCHANGED vars
  BY <1>1 DEF ShutInv, UserCall, CallStep, shutdownHere, sendHere, sendTest, shutdownTest,
     release, sendQueue, shutdownSet, shutdownQueue, removeConnectionInLoop,
     destroyServer, Peer, peerSend, peerShut, peerReset, vars, place
<1>2. CASE Handler
  <2>1. UNCHANGED batch /\ at \in {"events", "complete", "written", "message", "closing"}
    BY <1>2 DEF Handler, closeEvent, errorEvent, readMessage, readEnd, readFails,
       writeNothing, writeSome, writeError, handleWriteEnd, messageReturn,
       handleCloseEnd, next
  <2> QED
    BY <2>1 DEF ShutInv
<1>3. CASE Functor
  BY <1>3 DEF Functor, connectEstablished, connectDestroy, connectDestroyEnd, sendTask,
     shutdownTask, writeCompleteTask, taskCallbackReturn, functor, ShutInv
<1>4. CASE poll \/ doPendingFunctors \/ doPendingFunctorsEnd
  BY <1>4 DEF poll, doPendingFunctors, doPendingFunctorsEnd, ShutInv
<1> QED
  BY <1>1, <1>2, <1>3, <1>4 DEF Next, LoopStep

(* A step that leaves everybody who will send the FIN.                     *)
LEMMA FinStillToCome ==
  ASSUME FinToCome,
         state_' = "DisConnecting" => state_ = "DisConnecting",
         peer' # "reset" => peer # "reset",
         exited' = "no" => exited = "no",
         finSent => finSent', isWriting => isWriting',
         at \in {"complete", "written"} => at' \in {"complete", "written"},
         Asked => Asked'
  PROVE  FinToCome'
BY DEF FinToCome

(* shutdownInLoop sends the FIN, or leaves it to handleWrite.              *)
LEMMA ShutdownSends ==
  ASSUME TypeOK, shutdownInLoop, UNCHANGED <<chan, peer>>
  PROVE  FinToCome'
BY DEF shutdownInLoop, outputFlushed, isWriting, FinToCome, chan

(* A send() leaves what is watched watched.                                *)
LEMMA SendWatches ==
  ASSUME ConnInv, NEW m \in Messages \cup {Junk}, sendInLoop(m)
  PROVE  /\ UNCHANGED <<finSent, peer>> /\ (isWriting => isWriting')
         /\ tasks' = tasks \/ \E t \in Tasks : queueInLoop(t)
<1>1. UNCHANGED chan \/ updateChannel(events_ \cup {"write"})
  BY DEF sendInLoop, appendRest, chan
<1>2. tasks' = tasks \/ queueInLoop(Plain("writeComplete"))
  BY DEF sendInLoop, appendRest
<1>3. Plain("writeComplete") \in Tasks
  BY TasksTyped DEF Owning
<1>4. isWriting => isWriting'
  BY <1>1 DEF isWriting, updateChannel, chan
<1> QED
  BY <1>2, <1>3, <1>4 DEF sendInLoop

(* No step forgets a shutdown().                                           *)
LEMMA KeepsFinToCome ==
  ASSUME ConnInv, ShutInv, [Next]_vars
  PROVE  FinToCome'
<1> USE ConnAssumption
<1>0. TypeOK /\ FinToCome
  BY DEF ConnInv, ShutInv
<1>1. CASE UserCall
  <2>1. ASSUME NEW m \in Messages, sendHere(m) PROVE FinToCome'
    BY <2>1 DEF sendHere, FinToCome
  <2>2. CASE shutdownHere
    <3>1. CASE TidCached
      BY <1>0, <2>2, <3>1, ShutdownSends DEF shutdownHere
    <3>2. CASE ~TidCached
      <4>1. ~Never("shutdownInLoop")'
        BY <1>0, <2>2, <3>2, IsQueued, TasksTyped DEF shutdownHere, Raw
      <4> QED
        BY <4>1 DEF FinToCome, Asked
    <3> QED
      BY <3>1, <3>2
  <2>3. ASSUME NEW c \in Callers,
               shutdownTest(c) \/ release(c) \/ \E m \in Messages : sendTest(c, m)
        PROVE  FinToCome'
    <3>1. /\ UNCHANGED <<state_, chan, sock, exited, at, tasks, batch>>
          /\ \A d \in Callers : call[d] = <<"queue">> => call'[d] = call[d]
      BY <1>0, <2>3 DEF shutdownTest, release, sendTest, place, TypeOK
    <3>2. Asked => Asked'
      BY <3>1 DEF Asked, Never
    <3> QED
      BY <1>0, <3>1, <3>2, FinStillToCome DEF sock, chan, isWriting
  <2> QED
    BY <1>1, <2>1, <2>2, <2>3 DEF UserCall
<1>2. ASSUME NEW c \in Callers, sendQueue(c) PROVE FinToCome'
  <2>1. /\ UNCHANGED <<state_, chan, sock, exited, at, batch>>
        /\ call[c][1] = "send" /\ call' = [call EXCEPT ![c] = <<"none">>]
        /\ queueInLoop(Task("sendInLoop", c, call[c][2]))
    BY <1>2 DEF sendQueue, place
  <2>2. call[c][2] \in Messages
    BY <1>0, <2>1 DEF TypeOK
  <2>3. Task("sendInLoop", c, call[c][2]) \in Tasks
    BY <2>2, TasksTyped DEF Raw, Threads
  <2>4. ~Never("shutdownInLoop") => ~Never("shutdownInLoop")'
    BY <1>0, <2>1, <2>3, StaysQueued
  <2>5. \A d \in Callers : call[d] = <<"queue">> => call'[d] = call[d]
    BY <1>0, <2>1 DEF TypeOK
  <2>6. Asked => Asked'
    BY <2>4, <2>5 DEF Asked
  <2> QED
    BY <1>0, <2>1, <2>6, FinStillToCome DEF sock, chan, isWriting
<1>3. ASSUME NEW c \in Callers, shutdownSet(c) PROVE FinToCome'
  <2>1. call'[c] = <<"queue">>
    BY <1>0, <1>3 DEF shutdownSet, TypeOK
  <2> QED
    BY <2>1 DEF FinToCome, Asked
<1>4. ASSUME NEW c \in Callers, shutdownQueue(c) PROVE FinToCome'
  <2>1. ~Never("shutdownInLoop")'
    BY <1>0, <1>4, IsQueued, TasksTyped DEF shutdownQueue, Raw, Threads
  <2> QED
    BY <2>1 DEF FinToCome, Asked
<1>5. CASE closeEvent \/ readEnd \/ connectEstablished
  BY <1>5 DEF closeEvent, readEnd, handleClose, connectEstablished, FinToCome
<1>6. CASE \/ errorEvent \/ readMessage \/ readFails \/ writeNothing \/ messageReturn
           \/ handleCloseEnd \/ poll \/ taskCallbackReturn \/ doPendingFunctorsEnd
           \/ Peer \/ UNCHANGED vars
  <2>1. /\ UNCHANGED <<state_, chan, finSent, exited, tasks, batch, call>>
        /\ peer' = peer \/ peer' # "open"
        /\ peer' # "reset" => peer # "reset"
        /\ at \notin {"complete", "written"} \/ at' = at
    BY <1>6 DEF errorEvent, readMessage, readFails, writeNothing, messageReturn,
       handleCloseEnd, poll, taskCallbackReturn, doPendingFunctorsEnd, Peer, peerSend,
       peerShut, peerReset, vars, next, handleError, sock, place
  <2>2. Asked => Asked'
    BY <2>1 DEF Asked, Never
  <2> QED
    BY <1>0, <2>1, <2>2, FinStillToCome DEF chan, isWriting
<1>7. CASE writeError
  <2>1. /\ UNCHANGED <<state_, chan, finSent, peer, tasks, batch, call>>
        /\ at = "events" /\ exited = "no"
    BY <1>7 DEF writeError, next, handleError, sock, Running
  <2>2. Asked => Asked'
    BY <2>1 DEF Asked, Never
  <2> QED
    BY <1>0, <2>1, <2>2, FinStillToCome DEF chan, isWriting
<1>8. CASE writeSome
  <2>1. /\ UNCHANGED <<state_, sock, tasks, batch, call>>
        /\ at = "events" /\ exited = "no"
        /\ UNCHANGED chan \/ at' \in {"complete", "written"}
    BY <1>8 DEF writeSome, next, Running
  <2>2. CASE at' \in {"complete", "written"}
    BY <2>2 DEF FinToCome
  <2>3. CASE UNCHANGED chan
    <3>1. Asked => Asked'
      BY <2>1 DEF Asked, Never
    <3> QED
      BY <1>0, <2>1, <2>3, <3>1, FinStillToCome DEF chan, isWriting, sock
  <2> QED
    BY <2>1, <2>2, <2>3
<1>9. CASE handleWriteEnd
  <2>1. CASE shutsAfterOutput
    BY <1>0, <1>9, <2>1, ShutdownSends DEF handleWriteEnd
  <2>2. CASE ~shutsAfterOutput
    BY <1>9, <2>2 DEF handleWriteEnd, shutsAfterOutput, FinToCome
  <2> QED
    BY <2>1, <2>2
<1>10. CASE doPendingFunctors
  <2>1. /\ UNCHANGED <<state_, chan, sock, exited, call>>
        /\ at = "events" /\ batch' = tasks /\ tasks' = <<>>
    BY <1>10 DEF doPendingFunctors
  <2>2. batch = <<>>
    BY <2>1 DEF ShutInv
  <2>3. Asked => Asked'
    BY <2>1, <2>2 DEF Asked, Never, NotIn
  <2> QED
    BY <1>0, <2>1, <2>3, FinStillToCome DEF chan, isWriting, sock
<1>11. CASE connectDestroy \/ writeCompleteTask
  <2>1. CASE state_' = "DisConnected"
    BY <2>1 DEF FinToCome
  <2>2. CASE state_' # "DisConnected"
    <3>1. PICK g \in {"connectDestroy", "writeComplete"} : functor(g)
      BY <1>11 DEF connectDestroy, writeCompleteTask
    <3>2. /\ UNCHANGED <<state_, events_, sock, tasks, call>>
          /\ at = "batch" /\ exited = "no"
      BY <1>11, <2>2, <3>1 DEF connectDestroy, writeCompleteTask, removeChannel, functor, chan,
         Running
    <3>3. ~Never("shutdownInLoop") => ~Never("shutdownInLoop")'
      BY <1>0, <3>1, <3>2, RunsOnlyHead
    <3>4. Asked => Asked'
      BY <3>2, <3>3 DEF Asked
    <3> QED
      BY <1>0, <3>2, <3>4, FinStillToCome DEF isWriting, sock
  <2> QED
    BY <2>1, <2>2
<1>12. CASE connectDestroyEnd
  <2>1. /\ UNCHANGED <<state_, events_, sock, tasks, batch, call>>
        /\ at = "down" /\ exited = "no"
    BY <1>12 DEF connectDestroyEnd, removeChannel, Running
  <2>2. Asked => Asked'
    BY <2>1 DEF Asked, Never
  <2> QED
    BY <1>0, <2>1, <2>2, FinStillToCome DEF isWriting, sock
<1>13. CASE sendTask
  <2>1. /\ functor("sendInLoop") /\ UNCHANGED <<state_, at>>
        /\ at = "batch" /\ exited = "no" /\ UNCHANGED call
    BY <1>13 DEF sendTask, functor, Running
  <2>2. PICK m \in Messages \cup {Junk} : sendInLoop(m)
    BY <1>0, <1>13, <2>1, FunctorTyped DEF sendTask
  <2>3. ~Never("shutdownInLoop") => ~Never("shutdownInLoop")'
    BY <1>0, <2>1, <2>2, SendWatches, RunsOnlyHead
  <2>4. Asked => Asked'
    BY <2>1, <2>3 DEF Asked
  <2> QED
    BY <1>0, <2>1, <2>2, <2>4, SendWatches, FinStillToCome
<1>14. CASE shutdownTask
  BY <1>0, <1>14, ShutdownSends DEF shutdownTask
<1>15. CASE removeConnectionInLoop \/ destroyServer
  <2>1. /\ UNCHANGED <<state_, chan, sock, exited, at, batch, call>>
        /\ tasks' = tasks \/ queueInLoop(Plain("connectDestroy"))
    BY <1>15 DEF removeConnectionInLoop, destroyServer, place
  <2>2. ~Never("shutdownInLoop") => ~Never("shutdownInLoop")'
    BY <1>0, <2>1, TasksTyped, StaysQueued DEF Owning
  <2>3. Asked => Asked'
    BY <2>1, <2>2 DEF Asked
  <2> QED
    BY <1>0, <2>1, <2>3, FinStillToCome DEF chan, isWriting, sock
<1> QED
  BY <1>1, <1>2, <1>3, <1>4, <1>5, <1>6, <1>7, <1>8, <1>9, <1>10, <1>11, <1>12, <1>13, <1>14,
     <1>15 DEF Next, CallStep, LoopStep, Handler, Functor

(* Whoever calls shutdown(), and whatever is in the buffer: what is left of *)
(* ShutdownEnds is that the peer reads and the loop goes on                *)
(* (TcpConnection.cc:60-89, 236-253).                                      *)
THEOREM ShutdownRemembered == Spec => []ShutdownNotForgotten
<1>1. Init => ShutInv
  BY DEF Init, ShutInv, FinToCome
<1>2. ConnInv /\ ShutInv /\ [Next]_vars => ShutInv'
  <2> SUFFICES ASSUME ConnInv, ShutInv, [Next]_vars PROVE ShutInv'
    OBVIOUS
  <2>1. index_ = "deleted" => events_ = {}
    BY DEF ShutInv
  <2> QED
    BY <2>1, DeletedIsIdle, BatchInPlace, KeepsFinToCome DEF ShutInv
<1>3. ConnInv /\ ShutInv => ShutdownNotForgotten
  BY DEF ConnInv, TypeOK, Registered, ShutInv, FinToCome, isWriting, ShutdownNotForgotten
<1> QED
  BY <1>1, <1>2, <1>3, ConnInvariant, PTL DEF Spec

------------------------------------------------------------------------------
(* The end of a connection that only its loop's thread calls, while its    *)
(* server may be destroyed at any moment.                                  *)

Built == Plain("connectEstablished")
Destroy == Plain("connectDestroy")

(* Whoever takes the connection out of connections_ queues its removal.    *)
OneDestroy == IF mapped THEN Never("connectDestroy") ELSE Once("connectDestroy")

(* The connection is built, and the server perhaps gone since.             *)
Fresh ==
  /\ ups = 0 /\ index_ = "new" /\ removals = 0 /\ (mapped \/ stopped)
  /\ IF mapped
     THEN \/ batch = <<>> /\ tasks = <<Built>>
          \/ batch = <<Built>> /\ tasks = <<>>
     ELSE \/ batch = <<>> /\ tasks = <<Built, Destroy>>
          \/ batch = <<Built>> /\ tasks = <<Destroy>>
          \/ batch = <<Built, Destroy>> /\ tasks = <<>>

Serving ==
  /\ ups = 1 /\ index_ = "added" /\ "read" \in events_
  /\ state_ \in {"Connected", "DisConnecting"}
  /\ removals = 0 /\ at \notin {"closing", "down"} /\ (mapped \/ stopped)
  /\ Never("connectEstablished") /\ OneDestroy

(* handleClose has run; the base loop is told once, and does nothing more  *)
(* if its server is gone.                                                  *)
Ending ==
  /\ ups = 1 /\ index_ = "deleted" /\ state_ = "DisConnected"
  /\ events_ = {} /\ epoll = Absent
  /\ revents_ \cap {"close", "read"} = {} /\ at # "down"
  /\ removals \in {0, 1} /\ (at = "closing" => removals = 0)
  /\ at = "closing" \/ removals = 1 => mapped \/ stopped
  /\ mapped => at = "closing" \/ removals = 1
  /\ Never("connectEstablished") /\ OneDestroy

(* connectDestroy of a server that went first, at its user's callback.     *)
Destroying ==
  /\ ups = 1 /\ index_ = "deleted" /\ state_ = "DisConnected"
  /\ epoll = Absent /\ at = "down" /\ stopped /\ ~mapped
  /\ Never("connectEstablished") /\ Never("connectDestroy")

Gone ==
  /\ ups = 1 /\ index_ = "new" /\ state_ \in {"DisConnecting", "DisConnected"}
  /\ epoll = Absent /\ revents_ = {} /\ at \notin {"closing", "down"}
  /\ ~mapped /\ (removals = 0 \/ stopped)
  /\ Never("connectEstablished") /\ Never("connectDestroy")

NoHandler == {"poll", "batch", "up", "completeTask", "down"}

EndInv ==
  /\ exited # "fatal"
  /\ at \in NoHandler => revents_ = {}
  /\ "close" \in revents_ => "read" \notin revents_
  /\ batch # <<>> => at \in {"batch", "up", "completeTask", "down"}
  /\ Fresh \/ Serving \/ Ending \/ Destroying \/ Gone

(* A step that is no event of the connection's life or of its server's.    *)
Calm ==
  /\ UNCHANGED <<chan, ups, removals, mapped, stopped>>
  /\ exited' \in {exited, "sigpipe"}
  /\ state_' = state_ \/ (state_ = "Connected" /\ state_' = "DisConnecting")
  /\ at' = at \/ (at \notin {"closing", "down"} /\ at' \notin {"closing", "down"})
  /\ batch' # <<>> => at' \in {"batch", "up", "completeTask", "down"}
  /\ at' \in NoHandler => revents_' = {}
  /\ revents_' \subseteq revents_ \/ poll
  /\ Counts("connectEstablished") /\ Counts("connectDestroy")
  /\ ups = 0 => \/ UNCHANGED <<batch, tasks>>
                \/ batch = <<>> /\ batch' = tasks /\ tasks' = <<>>

LEMMA CalmEnds ==
  ASSUME ConnInv, EndInv, Calm
  PROVE  EndInv'
<1>1. /\ "close" \in revents_' => "read" \notin revents_'
      /\ epoll = Absent => revents_' \subseteq revents_
  BY DEF Calm, EndInv, poll
<1>2. UNCHANGED <<events_, index_, epoll, ups, removals, mapped, stopped>>
  BY DEF Calm, chan
<1>3. /\ state_' = state_ \/ (state_ = "Connected" /\ state_' = "DisConnecting")
      /\ at' = at \/ (at \notin {"closing", "down"} /\ at' \notin {"closing", "down"})
  BY DEF Calm
<1>4. OneDestroy => OneDestroy'
  BY <1>2 DEF OneDestroy, Calm, Counts
<1>5. Never("connectEstablished") => Never("connectEstablished")'
  BY DEF Calm, Counts
<1>6. Never("connectDestroy") => Never("connectDestroy")'
  BY DEF Calm, Counts
<1>7. ASSUME Fresh PROVE Fresh'
  <2>1. \/ UNCHANGED <<batch, tasks>>
        \/ batch = <<>> /\ batch' = tasks /\ tasks' = <<>>
    BY <1>7 DEF Fresh, Calm
  <2>2. UNCHANGED <<Built, Destroy>>
    BY DEF Built, Destroy, Plain, Task
  <2>3. CASE UNCHANGED <<batch, tasks>>
    BY <1>2, <1>7, <2>2, <2>3 DEF Fresh
  <2>4. CASE batch = <<>> /\ batch' = tasks /\ tasks' = <<>>
    <3>1. tasks = IF mapped THEN <<Built>> ELSE <<Built, Destroy>>
      BY <1>7, <2>4 DEF Fresh
    <3> QED
      BY <1>2, <1>7, <2>2, <2>4, <3>1 DEF Fresh
  <2> QED
    BY <2>1, <2>3, <2>4
<1>8. ASSUME Serving PROVE Serving'
  <2>1. Never("connectEstablished")' /\ OneDestroy'
    BY <1>4, <1>5, <1>8 DEF Serving
  <2>2. at' \notin {"closing", "down"} /\ state_' \in {"Connected", "DisConnecting"}
    BY <1>3, <1>8 DEF Serving
  <2> QED
    BY <1>2, <1>8, <2>1, <2>2 DEF Serving
<1>9. ASSUME Ending PROVE Ending'
  <2>1. Never("connectEstablished")' /\ OneDestroy'
    BY <1>4, <1>5, <1>9 DEF Ending
  <2>2. /\ at' = "closing" <=> at = "closing"
        /\ at' # "down" /\ state_' = "DisConnected"
    BY <1>3, <1>9 DEF Ending
  <2>3. revents_' \cap {"close", "read"} = {}
    BY <1>1, <1>9 DEF Ending
  <2> QED
    BY <1>2, <1>9, <2>1, <2>2, <2>3 DEF Ending
<1>10. ASSUME Destroying PROVE Destroying'
  <2>1. Never("connectEstablished")' /\ Never("connectDestroy")'
    BY <1>5, <1>6, <1>10 DEF Destroying
  <2>2. at' = "down" /\ state_' = "DisConnected"
    BY <1>3, <1>10 DEF Destroying
  <2> QED
    BY <1>2, <1>10, <2>1, <2>2 DEF Destroying
<1>11. ASSUME Gone PROVE Gone'
  <2>1. Never("connectEstablished")' /\ Never("connectDestroy")'
    BY <1>5, <1>6, <1>11 DEF Gone
  <2>2. /\ at' \notin {"closing", "down"} /\ revents_' = {}
        /\ state_' \in {"DisConnecting", "DisConnected"}
    BY <1>1, <1>3, <1>11 DEF Gone
  <2> QED
    BY <1>2, <1>11, <2>1, <2>2 DEF Gone
<1> QED
  BY <1>1, <1>7, <1>8, <1>9, <1>10, <1>11 DEF EndInv, Calm

(* Where a functor or a callback finds the connection.                     *)
LEMMA EndGuards ==
  ASSUME ConnInv, EndInv, ReplyInv
  PROVE  /\ Fresh => at \notin InCallback /\ revents_ = {} /\ epoll = Absent
         /\ "close" \in revents_ \/ "read" \in revents_ => Serving \/ Destroying
         /\ \A fn : functor(fn) => fn \in Owning /\ ~Never(fn)
         /\ \A fn : functor(fn) /\ Fresh => fn = "connectEstablished"
<1>1. Fresh => at \notin InCallback /\ revents_ = {} /\ epoll = Absent
  BY DEF ConnInv, Early, InCallback, Fresh
<1>2. ASSUME NEW fn, functor(fn) PROVE fn \in Owning /\ ~Never(fn)
  <2>1. Head(batch).fn = fn /\ Head(batch) = batch[1] /\ 1 \in DOMAIN batch
    BY <1>2 DEF functor, ConnInv, TypeOK
  <2> QED
    BY <2>1 DEF ReplyInv, Never, NotIn
<1>3. ASSUME NEW fn, functor(fn), Fresh PROVE fn = "connectEstablished"
  <2>1. batch # <<>> /\ Head(batch).fn = fn
    BY <1>3 DEF functor
  <2>2. Head(batch) = Built
    BY <1>3, <2>1 DEF Fresh
  <2> QED
    BY <2>1, <2>2, TasksTyped DEF Built, Owning
<1>4. "close" \in revents_ \/ "read" \in revents_ => Serving \/ Destroying
  BY <1>1 DEF EndInv, Ending, Gone
<1> QED
  BY <1>1, <1>2, <1>3, <1>4

(* What only another event may change of a connection that is served.      *)
LEMMA ServingKept ==
  ASSUME ConnInv, EndInv, Serving, UNCHANGED <<server, counts, state_, batch>>,
         tasks' = tasks \/ queueInLoop(Plain("writeComplete")),
         \/ UNCHANGED <<chan, exited>> \/ (UNCHANGED chan /\ exited' = "sigpipe")
         \/ updateChannel(events_ \cup {"write"}) \/ updateChannel(events_ \ {"write"}),
         at' \notin {"closing", "down"}
  PROVE  Serving' /\ exited' # "fatal"
<1>1. index_' = "added" /\ "read" \in events_' /\ exited' # "fatal"
  BY DEF EndInv, Serving, ConnInv, Registered, updateChannel, chan
<1>2. Never("connectEstablished")' /\ OneDestroy'
  BY SameQueues DEF Serving, OneDestroy, Counts, server
<1> QED
  BY <1>1, <1>2 DEF Serving, server, counts

LEMMA SendEnds ==
  ASSUME TidCached, ConnInv, EndInv, ReplyInv, NEW m \in Messages, sendHere(m)
  PROVE  EndInv'
<1>1. at \in InCallback /\ state_ = "Connected" /\ sendInLoop(m)
      /\ UNCHANGED <<state_, server, counts, place>>
  BY DEF sendHere
<1>2. Serving
  BY <1>1, EndGuards DEF EndInv, Ending, Destroying, Gone
<1>3. tasks' = tasks \/ queueInLoop(Plain("writeComplete"))
  BY <1>1 DEF sendInLoop, appendRest
<1>4. \/ UNCHANGED <<chan, exited>> \/ (UNCHANGED chan /\ exited' = "sigpipe")
      \/ updateChannel(events_ \cup {"write"})
  BY <1>1 DEF sendInLoop, appendRest, chan
<1>5. at' \notin {"closing", "down"}
  BY <1>1, <1>2 DEF Serving, place
<1>6. Serving' /\ exited' # "fatal"
  BY <1>1, <1>2, <1>3, <1>4, <1>5, ServingKept DEF place
<1> QED
  BY <1>1, <1>6 DEF EndInv, place

(* The handlers: handleClose comes once.                                   *)
LEMMA HandlerEnds ==
  ASSUME ConnInv, EndInv, ReplyInv, Handler
  PROVE  EndInv'
<1>1. CASE closeEvent \/ readEnd
  <2>1. /\ handleClose /\ at = "events"
        /\ "close" \in revents_ \/ "read" \in revents_
        /\ revents_' \cap {"close", "read"} = {}
        /\ UNCHANGED batch
    BY <1>1 DEF closeEvent, readEnd, next, EndInv
  <2>2. Serving /\ batch = <<>>
    BY <2>1, EndGuards DEF Destroying, EndInv
  <2>3. /\ index_' = "deleted" /\ events_' = {} /\ epoll' = Absent
        /\ UNCHANGED exited
    BY <2>1, <2>2 DEF handleClose, updateChannel, Serving
  <2>4. Never("connectEstablished")' /\ OneDestroy'
    BY <2>1, <2>2, SameQueues DEF handleClose, Serving, OneDestroy, Counts, server
  <2>5. Ending'
    BY <2>1, <2>2, <2>3, <2>4 DEF handleClose, Serving, Ending, server
  <2>6. at' = "closing"
    BY <2>1 DEF handleClose
  <2> QED
    BY <2>1, <2>2, <2>3, <2>5, <2>6 DEF EndInv, NoHandler
<1>2. CASE handleCloseEnd
  <2>1. at = "closing" /\ at' = "events" /\ removals' = removals + 1
        /\ UNCHANGED <<state_, chan, counts, stopped, mapped, batch, tasks, exited, revents_>>
    BY <1>2 DEF handleCloseEnd, removeConnection
  <2>2. Ending
    BY <2>1, EndGuards DEF EndInv, Serving, Destroying, Gone, InCallback
  <2>3. Never("connectEstablished")' /\ OneDestroy'
    BY <2>1, <2>2, SameQueues DEF Ending, OneDestroy, Counts
  <2>4. Ending'
    BY <2>1, <2>2, <2>3 DEF Ending, chan, counts
  <2> QED
    BY <2>1, <2>4 DEF EndInv, NoHandler
<1>3. CASE writeSome
  <2>1. /\ at = "events" /\ isWriting /\ at' \in {"events", "written", "complete"}
        /\ "write" \in revents_ /\ revents_' \subseteq revents_
        /\ UNCHANGED <<state_, server, counts, tasks, batch>>
        /\ UNCHANGED <<chan, exited>> \/ updateChannel(events_ \ {"write"})
    BY <1>3 DEF writeSome, next
  <2>2. Serving
    <3>1. ~Fresh
      BY <2>1, EndGuards
    <3> QED
      BY <2>1, <3>1 DEF EndInv, Ending, Destroying, Gone, isWriting
  <2>3. Serving' /\ exited' # "fatal"
    BY <2>1, <2>2, ServingKept
  <2> QED
    BY <2>1, <2>3 DEF EndInv, NoHandler
<1>4. CASE errorEvent \/ readMessage \/ readFails \/ writeNothing \/ writeError
  <2>1. /\ UNCHANGED <<state_, chan, ups, server, batch, tasks>>
        /\ exited' \in {exited, "sigpipe"}
        /\ at = "events" /\ at' \in {"events", "message"}
        /\ revents_' \subseteq revents_
    BY <1>4 DEF errorEvent, readMessage, readFails, writeNothing, writeError,
       handleError, next, counts
  <2>2. Calm
    BY <2>1, SameQueues DEF Calm, EndInv, NoHandler, server
  <2> QED
    BY <2>2, CalmEnds
<1>5. CASE handleWriteEnd \/ messageReturn
  <2>1. /\ UNCHANGED <<state_, chan, ups, server, batch, tasks, exited, revents_>>
        /\ at \in {"complete", "written", "message"} /\ at' = "events"
    BY <1>5 DEF handleWriteEnd, messageReturn, counts
  <2>2. Calm
    BY <2>1, SameQueues DEF Calm, EndInv, NoHandler, server
  <2> QED
    BY <2>2, CalmEnds
<1> QED
  BY <1>1, <1>2, <1>3, <1>4, <1>5 DEF Handler

(* Queues of one functor and of two.                                       *)
LEMMA ShortQueues ==
  ASSUME NEW a, NEW b
  PROVE  /\ Tail(<<a>>) = <<>> /\ Tail(<<a, b>>) = <<b>>
         /\ Append(<<>>, b) = <<b>> /\ Append(<<a>>, b) = <<a, b>>
         /\ <<a>> # <<>> /\ <<a, b>> # <<>>
<1>1. /\ <<>> \in Seq({a, b}) /\ <<a>> \in Seq({a, b}) /\ <<a, b>> \in Seq({a, b})
  OBVIOUS
<1>2. Tail(<<a>>) = <<>>
  <2>1. Len(<<a>>) = 1 /\ Len(Tail(<<a>>)) = 0
    BY <1>1
  <2> QED
    BY <1>1, <2>1, EmptySeq
<1>3. Tail(<<a, b>>) = <<b>>
  <2>1. /\ Len(Tail(<<a, b>>)) = 1 /\ Tail(<<a, b>>)[1] = b
        /\ Tail(<<a, b>>) \in Seq({a, b})
    BY <1>1
  <2>2. <<b>> \in Seq({a, b}) /\ Len(<<b>>) = 1 /\ <<b>>[1] = b
    OBVIOUS
  <2> QED
    BY <2>1, <2>2, SeqEqual
<1>4. Append(<<>>, b) = <<b>>
  OBVIOUS
<1>5. Append(<<a>>, b) = <<a, b>>
  <2>1. /\ Len(Append(<<a>>, b)) = 2 /\ Append(<<a>>, b) \in Seq({a, b})
        /\ Append(<<a>>, b)[1] = a /\ Append(<<a>>, b)[2] = b
    BY <1>1
  <2>2. Len(<<a, b>>) = 2 /\ <<a, b>>[1] = a /\ <<a, b>>[2] = b
    OBVIOUS
  <2> DEFINE s == Append(<<a>>, b)
             t == <<a, b>>
  <2>3. /\ s \in Seq({a, b}) /\ t \in Seq({a, b}) /\ Len(s) = 2 /\ Len(t) = 2
        /\ s[1] = t[1] /\ s[2] = t[2]
    BY <1>1, <2>1, <2>2
  <2> HIDE DEF s, t
  <2>4. \A i \in 1 .. Len(s) : s[i] = t[i]
    BY <2>3
  <2>5. s = t
    BY <2>3, <2>4, SeqEqual
  <2> QED
    BY <2>5 DEF s, t
<1>6. <<a>> # <<>> /\ <<a, b>> # <<>>
  OBVIOUS
<1> QED
  BY <1>2, <1>3, <1>4, <1>5, <1>6

(* The functors: what connectDestroy finds is in the poller.               *)
LEMMA FunctorEnds ==
  ASSUME ConnInv, EndInv, ReplyInv, Functor
  PROVE  EndInv'
<1>1. ~sendTask /\ ~shutdownTask
  BY EndGuards DEF sendTask, shutdownTask, Owning
<1>2. CASE connectEstablished
  <2>1. /\ functor("connectEstablished") /\ UNCHANGED <<server, tasks, downs, revents_>>
        /\ updateChannel(events_ \cup {"read"})
        /\ state_' = "Connected" /\ at' = "up" /\ ups' = ups + 1
        /\ batch # <<>> /\ batch' = Tail(batch) /\ revents_ = {}
    BY <1>2 DEF connectEstablished, functor, EndInv, NoHandler
  <2>2. Fresh /\ epoll = Absent
    BY <2>1, EndGuards DEF EndInv, Serving, Ending, Destroying, Gone
  <2>3. index_' = "added" /\ events_' = events_ \cup {"read"} /\ UNCHANGED exited
    BY <2>1, <2>2 DEF updateChannel, Fresh
  <2>4. Built.fn = "connectEstablished" /\ Destroy.fn = "connectDestroy"
    BY TasksTyped DEF Built, Destroy, Owning
  <2>5. CASE mapped
    <3>1. batch' = <<>> /\ tasks' = <<>>
      BY <2>1, <2>2, <2>5, ShortQueues DEF Fresh
    <3>2. Never("connectEstablished")' /\ OneDestroy'
      BY <2>1, <2>5, <3>1 DEF Never, NotIn, OneDestroy, server
    <3> QED
      BY <2>1, <2>2, <2>3, <3>1, <3>2 DEF Fresh, Serving, EndInv, server
  <2>6. CASE ~mapped
    <3>1. \/ batch' = <<>> /\ tasks' = <<Destroy>>
          \/ batch' = <<Destroy>> /\ tasks' = <<>>
      BY <2>1, <2>2, <2>6, ShortQueues DEF Fresh
    <3>2. NotIn(<<Destroy>>, "connectEstablished") /\ OnceIn(<<Destroy>>, "connectDestroy")
      BY <2>4 DEF NotIn, OnceIn
    <3>3. \A fn : NotIn(<<>>, fn)
      BY DEF NotIn
    <3>4. Never("connectEstablished")' /\ Once("connectDestroy")'
      BY <3>1, <3>2, <3>3 DEF Never, Once
    <3>5. OneDestroy'
      BY <2>1, <2>6, <3>4 DEF OneDestroy, server
    <3> QED
      BY <2>1, <2>2, <2>3, <3>4, <3>5 DEF Fresh, Serving, EndInv, server
  <2> QED
    BY <2>5, <2>6
<1>3. CASE connectDestroy
  <2>1. /\ functor("connectDestroy") /\ at = "batch" /\ revents_ = {}
        /\ UNCHANGED <<tasks, ups, server, revents_>>
        /\ ~Never("connectDestroy") /\ ~Fresh
    BY <1>3, EndGuards DEF connectDestroy, functor, EndInv, NoHandler
  <2>2. /\ Serving \/ Ending
        /\ Never("connectEstablished") /\ ~mapped /\ Once("connectDestroy")
    BY <2>1 DEF EndInv, Serving, Ending, Destroying, Gone, OneDestroy
  <2>3. Never("connectEstablished")' /\ Never("connectDestroy")'
    BY <2>1, <2>2, FunctorCounts DEF ConnInv, Counts
  <2>4. CASE stillUp
    <3>1. /\ state_' = "DisConnected" /\ updateChannel({}) /\ at' = "down"
          /\ Serving
      BY <1>3, <2>2, <2>4 DEF connectDestroy, stillUp, Ending
    <3>2. index_' = "deleted" /\ epoll' = Absent /\ UNCHANGED exited
      BY <3>1 DEF updateChannel, Serving
    <3>3. Destroying'
      BY <2>1, <2>2, <2>3, <3>1, <3>2 DEF Serving, Destroying, server
    <3> QED
      BY <2>1, <3>1, <3>2, <3>3 DEF EndInv
  <2>5. CASE ~stillUp
    <3>1. removeChannel /\ UNCHANGED <<state_, at>>
      BY <1>3, <2>5 DEF connectDestroy
    <3>2. index_' = "new" /\ epoll' = Absent /\ UNCHANGED exited
      BY <2>2, <3>1 DEF removeChannel, Serving, Ending
    <3>3. state_ \in {"DisConnecting", "DisConnected"} /\ ups = 1
          /\ (removals = 0 \/ stopped)
      BY <2>1, <2>2, <2>5 DEF Serving, Ending, stillUp
    <3>4. Gone'
      BY <2>1, <2>2, <2>3, <3>1, <3>2, <3>3 DEF Gone, server
    <3> QED
      BY <2>1, <3>1, <3>2, <3>4 DEF EndInv
  <2> QED
    BY <2>4, <2>5
<1>4. CASE connectDestroyEnd
  <2>1. /\ at = "down" /\ at' = "batch" /\ removeChannel /\ revents_ = {}
        /\ UNCHANGED <<state_, server, counts, revents_, batch, tasks>>
    BY <1>4 DEF connectDestroyEnd, EndInv, NoHandler
  <2>2. Destroying
    BY <2>1, EndGuards DEF EndInv, Serving, Ending, Gone, InCallback
  <2>3. index_' = "new" /\ UNCHANGED <<epoll, exited>>
    BY <2>1, <2>2 DEF removeChannel, Destroying
  <2>4. Never("connectEstablished")' /\ Never("connectDestroy")'
    BY <2>1, <2>2 DEF Destroying, Never
  <2>5. Gone'
    BY <2>1, <2>2, <2>3, <2>4 DEF Destroying, Gone, server, counts
  <2> QED
    BY <2>1, <2>3, <2>5 DEF EndInv
<1>5. CASE writeCompleteTask
  <2>1. /\ functor("writeComplete")
        /\ UNCHANGED <<state_, chan, ups, server, tasks, exited, revents_>>
        /\ at = "batch" /\ at' = "completeTask" /\ revents_ = {}
    BY <1>5 DEF writeCompleteTask, functor, counts, EndInv, NoHandler
  <2>2. Counts("connectEstablished") /\ Counts("connectDestroy")
    BY <2>1, FunctorCounts DEF ConnInv
  <2>3. ups # 0
    BY <2>1, EndGuards DEF EndInv, Serving, Ending, Destroying, Gone
  <2>4. Calm
    BY <2>1, <2>2, <2>3 DEF Calm, server
  <2> QED
    BY <2>4, CalmEnds
<1>6. CASE taskCallbackReturn
  <2>1. /\ UNCHANGED <<state_, chan, ups, server, tasks, batch, exited, revents_>>
        /\ at \in {"up", "completeTask"} /\ at' = "batch" /\ revents_ = {}
    BY <1>6 DEF taskCallbackReturn, counts, EndInv, NoHandler
  <2>2. Calm
    BY <2>1, SameQueues DEF Calm, server
  <2> QED
    BY <2>2, CalmEnds
<1> QED
  BY <1>1, <1>2, <1>3, <1>4, <1>5, <1>6 DEF Functor

(* The base loop: removeConnectionInLoop and the destructor take the       *)
(* connection out of connections_ before they queue its removal.           *)
LEMMA ServerEnds ==
  ASSUME ConnInv, EndInv, removeConnectionInLoop \/ destroyServer
  PROVE  EndInv'
<1>1. UNCHANGED <<state_, chan, counts, place, exited>>
  BY DEF removeConnectionInLoop, destroyServer
<1>2. ~mapped' /\ (tasks' = tasks \/ queueInLoop(Destroy))
  BY DEF removeConnectionInLoop, destroyServer, Destroy
<1>3. Counts("connectEstablished")
  BY <1>1, <1>2, QueueCounts DEF ConnInv, Owning, Destroy, place
<1>4. CASE removeConnectionInLoop
  <2>1. /\ removals > 0 /\ removals' = removals - 1 /\ ~mapped' /\ ~stopped
        /\ UNCHANGED stopped /\ queueInLoop(Destroy)
    BY <1>4 DEF removeConnectionInLoop, Destroy
  <2>2. Ending /\ removals = 1 /\ mapped
    BY <2>1 DEF EndInv, Fresh, Serving, Ending, Destroying, Gone
  <2>3. Once("connectDestroy")'
    BY <1>1, <2>1, <2>2, QueueCounts DEF ConnInv, Owning, Destroy, Ending, OneDestroy, place
  <2>4. Ending'
    BY <1>1, <1>3, <2>1, <2>2, <2>3 DEF Ending, OneDestroy, Counts, chan, counts, place
  <2> QED
    BY <1>1, <2>4 DEF EndInv, place
<1>5. CASE destroyServer
  <2>1. /\ ~stopped /\ stopped' /\ ~mapped' /\ UNCHANGED removals
        /\ IF mapped THEN queueInLoop(Destroy) ELSE UNCHANGED tasks
    BY <1>5 DEF destroyServer, Destroy
  <2>2. mapped \/ Ending \/ Gone
    BY <2>1 DEF EndInv, Fresh, Serving, Ending, Destroying, Gone
  <2>3. OneDestroy => Once("connectDestroy")'
    <3>1. CASE mapped
      BY <1>1, <2>1, <3>1, QueueCounts DEF ConnInv, Owning, Destroy, OneDestroy, place
    <3>2. CASE ~mapped
      BY <1>1, <2>1, <3>2 DEF OneDestroy, Once, place
    <3> QED
      BY <3>1, <3>2
  <2>4. CASE Fresh
    <3>1. mapped /\ tasks' = Append(tasks, Destroy)
      BY <2>1, <2>4 DEF Fresh, queueInLoop
    <3>2. \/ batch = <<>> /\ tasks' = <<Built, Destroy>>
          \/ batch = <<Built>> /\ tasks' = <<Destroy>>
      BY <2>4, <3>1, ShortQueues DEF Fresh
    <3>3. UNCHANGED <<Built, Destroy>>
      BY DEF Built, Destroy, Plain, Task
    <3>4. Fresh'
      BY <1>1, <2>1, <2>4, <3>2, <3>3 DEF Fresh, chan, counts, place
    <3> QED
      BY <1>1, <3>4 DEF EndInv, place
  <2>5. CASE Serving
    <3>1. Serving'
      BY <1>1, <1>3, <2>1, <2>3, <2>5 DEF Serving, OneDestroy, Counts, chan, counts, place
    <3> QED
      BY <1>1, <3>1 DEF EndInv, place
  <2>6. CASE Ending
    <3>1. Ending'
      BY <1>1, <1>3, <2>1, <2>3, <2>6 DEF Ending, OneDestroy, Counts, chan, counts, place
    <3> QED
      BY <1>1, <3>1 DEF EndInv, place
  <2>7. CASE Gone
    <3>1. UNCHANGED <<tasks, batch>>
      BY <1>1, <2>1, <2>7 DEF Gone, place
    <3>2. Gone'
      BY <1>1, <2>1, <2>7, <3>1 DEF Gone, Never, chan, counts, place
    <3> QED
      BY <1>1, <3>2 DEF EndInv, place
  <2> QED
    BY <2>1, <2>4, <2>5, <2>6, <2>7 DEF EndInv, Destroying
<1> QED
  BY <1>4, <1>5

(* Every step keeps it.                                                    *)
LEMMA StepEnds ==
  ASSUME TidCached, Callers = {}, ConnInv, EndInv, ReplyInv, [Next]_vars
  PROVE  EndInv'
<1>1. CASE \/ poll \/ doPendingFunctorsEnd \/ shutdownHere \/ Peer
           \/ UNCHANGED vars
  <2>1. /\ UNCHANGED <<chan, ups, removals, mapped, stopped, exited, batch, tasks>>
        /\ state_' = state_ \/ (state_ = "Connected" /\ state_' = "DisConnecting")
        /\ revents_' = revents_ \/ poll
        /\ \/ at' = at /\ revents_' = revents_
           \/ at = "poll" /\ at' = "events"
           \/ at = "batch" /\ at' = "poll" /\ batch = <<>> /\ revents_' = revents_
    BY <1>1 DEF poll, doPendingFunctorsEnd, shutdownHere, Peer, peerSend, peerShut,
       peerReset, vars, place, server, counts
  <2>2. Calm
    BY <2>1, SameQueues DEF Calm, EndInv, NoHandler
  <2> QED
    BY <2>2, CalmEnds
<1>2. CASE doPendingFunctors
  <2>1. /\ UNCHANGED <<state_, chan, ups, removals, mapped, stopped, exited, revents_>>
        /\ at = "events" /\ at' = "batch" /\ revents_ = {}
        /\ batch = <<>> /\ batch' = tasks /\ tasks' = <<>>
    BY <1>2 DEF doPendingFunctors, EndInv, server, counts
  <2>2. \A fn : Counts(fn)
    BY <2>1 DEF Counts, Never, Once, NotIn, OnceIn
  <2>3. Calm
    BY <2>1, <2>2 DEF Calm
  <2> QED
    BY <2>3, CalmEnds
<1> QED
  BY <1>1, <1>2, SendEnds, HandlerEnds, FunctorEnds, ServerEnds
     DEF Next, UserCall, CallStep, LoopStep

(* Where only the loop's thread calls, no step of a connection reaches a   *)
(* LOG_FATAL of the poller, whenever its server is destroyed: before it is *)
(* established, while it is up, or while handleClose is under way          *)
(* (EpollPoller.cc:109-112, 149, TcpServer.cc:31-47, 105-120).             *)
THEOREM NotFatalInLoop ==
  ASSUME TidCached, Callers = {}
  PROVE  Spec => []NeverFatal
<1>1. Init => ReplyInv
  BY DEF Init, ReplyInv, Open, Plain, Task, Owning
<1>2. Init => EndInv
  BY DEF Init, EndInv, Fresh, Built
<1>3. ConnInv /\ ConnInv' /\ ReplyInv /\ [Next]_vars => ReplyInv'
  BY KeepsReplyInv
<1>4. ConnInv /\ ReplyInv /\ EndInv /\ [Next]_vars => EndInv'
  BY StepEnds
<1>5. EndInv => NeverFatal
  BY DEF EndInv, NeverFatal
<1> QED
  BY <1>1, <1>2, <1>3, <1>4, <1>5, ConnInvariant, PTL DEF Spec

(* A connection that is up is watched for its peer's end; one that ended,  *)
(* or whose server did, is at one place of its way out: handleClose, the   *)
(* base loop, its connectDestroy; or it is out of the poller and of the    *)
(* server.                                                                 *)
EndNotMissed ==
  exited = "no" =>
    \/ ups = 0 /\ ~Never("connectEstablished")
    \/ index_ = "added" /\ "read" \in epoll
    \/ at \in {"closing", "down"}
    \/ mapped /\ removals = 1
    \/ ~mapped /\ Once("connectDestroy")
    \/ ~mapped /\ index_ = "new" /\ ups = 1

(* What is left of Removed is that the loops go on                         *)
(* (TcpConnection.cc:97-115, 216-234, TcpServer.cc:91-116).                *)
THEOREM EndIsSeen ==
  ASSUME TidCached, Callers = {}
  PROVE  Spec => []EndNotMissed
<1>1. Init => ReplyInv
  BY DEF Init, ReplyInv, Open, Plain, Task, Owning
<1>2. Init => EndInv
  BY DEF Init, EndInv, Fresh, Built
<1>3. ConnInv /\ ConnInv' /\ ReplyInv /\ [Next]_vars => ReplyInv'
  BY KeepsReplyInv
<1>4. ConnInv /\ ReplyInv /\ EndInv /\ [Next]_vars => EndInv'
  BY StepEnds
<1>5. ConnInv /\ EndInv => EndNotMissed
  <2> SUFFICES ASSUME ConnInv, EndInv PROVE EndNotMissed
    OBVIOUS
  <2>1. CASE Fresh
    <3>1. Built.fn = "connectEstablished"
      BY DEF Built, Plain, Task
    <3>2. ~Never("connectEstablished")
      BY <2>1, <3>1 DEF Fresh, Never, NotIn
    <3> QED
      BY <2>1, <3>2 DEF Fresh, EndNotMissed
  <2>2. CASE Serving
    BY <2>2 DEF Serving, ConnInv, Registered, EndNotMissed
  <2>3. CASE Ending
    BY <2>3 DEF Ending, OneDestroy, EndNotMissed
  <2>4. CASE Destroying
    BY <2>4 DEF Destroying, EndNotMissed
  <2>5. CASE Gone
    BY <2>5 DEF Gone, EndNotMissed
  <2> QED
    BY <2>1, <2>2, <2>3, <2>4, <2>5 DEF EndInv
<1> QED
  BY <1>1, <1>2, <1>3, <1>4, <1>5, ConnInvariant, PTL DEF Spec
==============================================================================
