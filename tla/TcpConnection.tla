---------------------------- MODULE TcpConnection ----------------------------
(***************************************************************************)
(* One TcpConnection with its Channel, its entry in the EpollPoller and    *)
(* the socket under it (src/src/netlayer/TcpConnection.cc, Channel.cc,     *)
(* EpollPoller.cc).                                                        *)
(*                                                                         *)
(* Everything but send() and shutdown() runs in the thread of the          *)
(* connection's loop; user callbacks run there too and may call both.      *)
(* Other threads that hold the connection call them as well.  The loop is  *)
(* the queue its module is proved to be, cut into the batches of           *)
(* doPendingFunctors because a batch owns what its functors are bound to.  *)
(***************************************************************************)
EXTENDS Naturals, Sequences

CONSTANTS
  Callers,      \* threads other than the loop's that hold the connection
  Loop,         \* the thread of the connection's loop
  TidCached,    \* does the loop know its thread? (EventLoop.tla)
  Messages,     \* what is given to send(), each once
  Junk,         \* what a queued send may find in place of its string
  MsgLen,       \* bytes in a message
  MaxRequests,  \* bound on what the peer sends
  PeerResets,   \* may the peer reset the connection?
  ServerStops,  \* may the TcpServer be destroyed?
  CompletionSet \* is there a writeCompleteCallback_?

Threads == Callers \cup {Loop}

ASSUME ConnAssumption ==
  /\ Loop \notin Callers
  /\ Junk \notin Messages
  /\ MsgLen \in Nat \ {0}
  /\ MaxRequests \in Nat
  /\ {TidCached, PeerResets, ServerStops, CompletionSet} \subseteq BOOLEAN

VARIABLES
  state_, outputBuffer_,
  events_, index_,  \* of the Channel
  epoll,            \* what the kernel watches the socket for
  revents_,         \* callbacks of the current handleEvent still to run
  at,               \* where the loop's thread is
  tasks, batch,     \* functors of the loop that are about the connection:
                    \*   pendingFunctors_, and functors of doPendingFunctors
  batchOwns,        \* is a functor of the batch bound to a TcpConnectionPtr?
  call,             \* per outside thread, what its call still has to do
  holders,          \* outside threads with a TcpConnectionPtr
  stopped,          \* has the TcpServer been destroyed?
  mapped,           \* is the connection in TcpServer::connections_?
  removals,         \* removeConnectionInLoop functors of the base loop
  wire, finSent,    \* what the socket has taken
  peer, soError, incoming,  \* the peer's side of the socket, SO_ERROR, unread
  requests,         \* number of requests the peer has sent
  accepted,         \* history: <<thread, message>> send() did not turn down
  ups, downs,       \* calls of connectionCallback_
  exited            \* how the process ended: LOG_FATAL or SIGPIPE

chan == <<events_, index_, epoll>>
out == <<outputBuffer_, wire>>
sock == <<finSent, peer, soError, incoming, requests>>
server == <<stopped, mapped, removals>>
counts == <<ups, downs>>
place == <<revents_, at, batch, batchOwns>>
vars == <<state_, chan, out, sock, server, counts, place, tasks, call,
          holders, accepted, exited>>

Bytes == (Messages \cup {Junk}) \X (1 .. MsgLen)
Text(m) == [i \in 1 .. MsgLen |-> <<m, i>>]

Absent == {"absent"}
InCallback == {"up", "message", "closing", "down", "complete", "completeTask"}

Raw == {"sendInLoop", "shutdownInLoop"}  \* bound to this, not to a pointer
Owning == {"connectEstablished", "connectDestroy", "writeComplete"}
Task(fn, t, m) == [fn |-> fn, by |-> t, msg |-> m]
Tasks == [fn : Raw \cup Owning, by : Threads, msg : Messages \cup {Junk}]
Plain(fn) == Task(fn, Loop, Junk)

TypeOK ==
  /\ state_ \in {"Connecting", "Connected", "DisConnecting", "DisConnected"}
  /\ outputBuffer_ \in Seq(Bytes) /\ wire \in Seq(Bytes)
  /\ events_ \in SUBSET {"read", "write"}
  /\ index_ \in {"new", "added", "deleted"}
  /\ epoll \in {Absent} \cup SUBSET {"read", "write"}
  /\ revents_ \in SUBSET {"close", "error", "read", "write"}
  /\ at \in {"poll", "events", "batch", "written"} \cup InCallback
  /\ tasks \in Seq(Tasks) /\ batch \in Seq(Tasks)
  /\ batchOwns \in BOOLEAN
  /\ call \in [Callers -> {<<"none">>, <<"queue">>, <<"set">>}
                          \cup ({"send"} \X Messages)]
  /\ holders \in SUBSET Callers
  /\ stopped \in BOOLEAN /\ mapped \in BOOLEAN /\ removals \in Nat
  /\ finSent \in BOOLEAN /\ soError \in BOOLEAN
  /\ peer \in {"open", "shut", "reset"}
  /\ incoming \in 0 .. requests /\ requests \in 0 .. MaxRequests
  /\ accepted \in SUBSET (Threads \X Messages)
  /\ ups \in Nat /\ downs \in Nat
  /\ exited \in {"no", "fatal", "sigpipe"}

(* newConnection has built the connection and queued connectEstablished.   *)
Init ==
  /\ state_ = "Connecting"
  /\ outputBuffer_ = <<>> /\ wire = <<>>
  /\ events_ = {} /\ index_ = "new" /\ epoll = Absent
  /\ revents_ = {} /\ at = "poll"
  /\ tasks = <<Plain("connectEstablished")>>
  /\ batch = <<>> /\ batchOwns = FALSE
  /\ call = [c \in Callers |-> <<"none">>]
  /\ holders = Callers
  /\ stopped = FALSE /\ mapped = TRUE /\ removals = 0
  /\ finSent = FALSE /\ soError = FALSE /\ peer = "open"
  /\ incoming = 0 /\ requests = 0
  /\ accepted = {}
  /\ ups = 0 /\ downs = 0
  /\ exited = "no"

------------------------------------------------------------------------------
(* The Channel and the poller.                                             *)

isWriting == "write" \in events_

upInAnyState == TRUE                                               \* mutant
stillUp == state_ = "Connected"

neverShutsAfterOutput == FALSE                                      \* mutant
shutsAfterOutput == state_ = "DisConnecting"

updateKeepsIndex(ev) ==                                             \* mutant
  /\ events_' = ev
  /\ index_' = "added"
  /\ epoll' = IF index_ = "added" /\ ev = {} THEN Absent ELSE ev
  /\ UNCHANGED exited

updateForgetsAdded(ev) ==                                           \* mutant
  /\ events_' = ev
  /\ epoll' = ev
  /\ exited' = IF epoll = Absent THEN exited ELSE "fatal"
  /\ UNCHANGED index_

(* EPOLL_CTL_ADD of a socket that is there, or EPOLL_CTL_MOD of one that   *)
(* is not, fails, and LOG_FATAL ends the process.                          *)
updateChannel(ev) ==
  /\ events_' = ev
  /\ IF index_ # "added"
     THEN /\ index_' = "added"
          /\ epoll' = ev
          /\ exited' = IF epoll = Absent THEN exited ELSE "fatal"
     ELSE IF ev = {}
     THEN /\ index_' = "deleted"
          /\ epoll' = Absent
          /\ UNCHANGED exited
     ELSE /\ UNCHANGED index_
          /\ epoll' = ev
          /\ exited' = IF epoll # Absent THEN exited ELSE "fatal"

removeChannel ==
  /\ index_' = "new"
  /\ epoll' = IF index_ = "added" THEN Absent ELSE epoll
  /\ exited' = IF index_ = "new" THEN "fatal" ELSE exited
  /\ UNCHANGED events_

------------------------------------------------------------------------------
(* Writing.                                                                *)

queueInLoop(task) == tasks' = Append(tasks, task)

(* Writing to a socket that has no way out raises SIGPIPE, which nothing   *)
(* in src/ ignores; a pending SO_ERROR is returned first.                  *)
raisesSigpipe == ~soError /\ (finSent \/ peer = "reset")

alwaysFresh == TRUE                                                 \* mutant
freshOutput == ~isWriting /\ outputBuffer_ = <<>>

appendRestUnwatched(rest) ==                                        \* mutant
  /\ outputBuffer_' = outputBuffer_ \o rest
  /\ UNCHANGED <<chan, exited, tasks>>

restLost(rest) ==                                                   \* mutant
  UNCHANGED <<outputBuffer_, chan, exited, tasks>>

appendRest(rest) ==
  IF rest = <<>>
  THEN /\ UNCHANGED <<outputBuffer_, chan, exited>>
       /\ IF CompletionSet THEN queueInLoop(Plain("writeComplete"))
                           ELSE UNCHANGED tasks
  ELSE /\ outputBuffer_' = outputBuffer_ \o rest
       /\ updateChannel(events_ \cup {"write"})
       /\ UNCHANGED tasks

sendInLoop(m) ==
  /\ UNCHANGED <<finSent, peer, incoming, requests>>
  /\ \/ /\ state_ = "DisConnected" \/ ~freshOutput
        /\ UNCHANGED <<out, chan, soError, tasks, exited>>
     \/ /\ state_ # "DisConnected" /\ freshOutput
        /\ \/ /\ raisesSigpipe
              /\ exited' = "sigpipe"
              /\ UNCHANGED <<out, chan, soError, tasks>>
           \/ /\ soError                     \* ECONNRESET: saveError
              /\ soError' = FALSE
              /\ UNCHANGED <<out, chan, tasks, exited>>
           \/ /\ ~soError /\ ~raisesSigpipe
              /\ \E n \in 0 .. MsgLen :      \* 0: EWOULDBLOCK
                   /\ wire' = wire \o SubSeq(Text(m), 1, n)
                   /\ appendRest(SubSeq(Text(m), n + 1, MsgLen))
              /\ UNCHANGED soError

shutsWhileWriting == TRUE                                           \* mutant
outputFlushed == ~isWriting

shutdownInLoop == finSent' = (finSent \/ (outputFlushed /\ peer # "reset"))

------------------------------------------------------------------------------
(* send() and shutdown() from the loop's thread, inside a user callback.   *)
(* There nothing comes between the test of state_ and the rest.            *)

Running == exited = "no"

(* Somebody owns the object; a running handler holds the guard of its      *)
(* Channel, a running functor is held by its batch or is bound to this.    *)
owned == \/ mapped \/ removals > 0 \/ holders # {} \/ batchOwns
         \/ \E i \in DOMAIN tasks : tasks[i].fn \in Owning
         \/ \E i \in DOMAIN batch : batch[i].fn \in Owning

unsent(m) == \A t \in Threads : <<t, m>> \notin accepted

sendHere(m) ==
  /\ Running /\ at \in InCallback
  /\ state_ = "Connected" /\ unsent(m)
  /\ accepted' = accepted \cup {<<Loop, m>>}
  /\ IF TidCached
     THEN sendInLoop(m)
     ELSE /\ queueInLoop(Task("sendInLoop", Loop, m))
          /\ UNCHANGED <<out, chan, sock, exited>>
  /\ UNCHANGED <<state_, server, counts, place, call, holders>>

shutdownHere ==
  /\ Running /\ at \in InCallback
  /\ state_ = "Connected"
  /\ state_' = "DisConnecting"
  /\ IF TidCached
     THEN /\ shutdownInLoop
          /\ UNCHANGED tasks
     ELSE /\ queueInLoop(Plain("shutdownInLoop"))
          /\ UNCHANGED finSent
  /\ UNCHANGED <<chan, out, peer, soError, incoming, requests, server, counts,
                 place, call, holders, accepted, exited>>

(* The same calls from another thread: it reads state_, and the loop's     *)
(* thread may go on before it writes state_ or queues the functor.         *)

outside(c) == Running /\ c \in holders

sendTest(c, m) ==
  /\ outside(c) /\ call[c] = <<"none">>
  /\ state_ = "Connected" /\ unsent(m)
  /\ \A d \in Callers : call[d] # <<"send", m>>
  /\ call' = [call EXCEPT ![c] = <<"send", m>>]
  /\ UNCHANGED <<state_, chan, out, sock, server, counts, place, tasks,
                 holders, accepted, exited>>

sendQueue(c) ==
  /\ outside(c) /\ call[c][1] = "send"
  /\ queueInLoop(Task("sendInLoop", c, call[c][2]))
  /\ accepted' = accepted \cup {<<c, call[c][2]>>}
  /\ call' = [call EXCEPT ![c] = <<"none">>]
  /\ UNCHANGED <<state_, chan, out, sock, server, counts, place, holders,
                 exited>>

shutdownTest(c) ==
  /\ outside(c) /\ call[c] = <<"none">>
  /\ state_ = "Connected"
  /\ call' = [call EXCEPT ![c] = <<"set">>]
  /\ UNCHANGED <<state_, chan, out, sock, server, counts, place, tasks,
                 holders, accepted, exited>>

shutdownSet(c) ==
  /\ outside(c) /\ call[c] = <<"set">>
  /\ state_' = "DisConnecting"
  /\ call' = [call EXCEPT ![c] = <<"queue">>]
  /\ UNCHANGED <<chan, out, sock, server, counts, place, tasks, holders,
                 accepted, exited>>

shutdownQueue(c) ==
  /\ outside(c) /\ call[c] = <<"queue">>
  /\ queueInLoop(Task("shutdownInLoop", c, Junk))
  /\ call' = [call EXCEPT ![c] = <<"none">>]
  /\ UNCHANGED <<state_, chan, out, sock, server, counts, place, holders,
                 accepted, exited>>

release(c) ==
  /\ outside(c) /\ call[c] = <<"none">>
  /\ holders' = holders \ {c}
  /\ UNCHANGED <<state_, chan, out, sock, server, counts, place, tasks, call,
                 accepted, exited>>

------------------------------------------------------------------------------
(* Handlers.  handleEventWithGuard runs the callbacks of revents_ in this  *)
(* order: close, error, read, write.                                       *)

shuts == peer = "shut" /\ finSent

poll ==
  /\ Running /\ at = "poll"
  /\ \E ready \in SUBSET {"close", "error", "read", "write"} :
       /\ epoll = Absent \/ ~owned => ready = {}
       /\ "read" \in ready <=> /\ "read" \in epoll
                               /\ incoming > 0 \/ peer # "open"
       /\ "close" \in ready <=> /\ epoll # Absent /\ "read" \notin ready
                                /\ peer = "reset" \/ shuts
       /\ "error" \in ready <=> epoll # Absent /\ soError
       /\ "write" \in ready => "write" \in epoll
       /\ ready # {} \/ tasks # <<>>
       /\ revents_' = ready
  /\ at' = "events"
  /\ UNCHANGED <<state_, chan, out, sock, server, counts, tasks, batch,
                 batchOwns, call, holders, accepted, exited>>

next(cb) == /\ Running /\ at = "events"
            /\ cb \in revents_
            /\ cb # "close" => "close" \notin revents_
            /\ cb \in {"read", "write"} => "error" \notin revents_
            /\ cb = "write" => "read" \notin revents_
            /\ revents_' = revents_ \ {cb}
            /\ UNCHANGED <<batch, batchOwns, call, holders, accepted>>

handleClose ==
  /\ state_' = "DisConnected"
  /\ updateChannel({})
  /\ downs' = downs + 1
  /\ at' = "closing"
  /\ UNCHANGED <<out, sock, server, tasks, ups>>

handleError == /\ soError' = FALSE
               /\ UNCHANGED <<state_, chan, out, finSent, peer, incoming,
                              requests, server, counts, tasks, at, exited>>

closeEvent == next("close") /\ handleClose

errorEvent == next("error") /\ handleError

(* handleRead: the message callback takes all that was read.               *)
readMessage ==
  /\ next("read") /\ incoming > 0
  /\ incoming' = 0
  /\ at' = "message"
  /\ UNCHANGED <<state_, chan, out, finSent, peer, soError, requests, server,
                 counts, tasks, exited>>

readEnd == next("read") /\ incoming = 0 /\ ~soError /\ handleClose

readFails == next("read") /\ incoming = 0 /\ soError /\ handleError

(* handleWrite.                                                            *)
writeNothing ==
  /\ next("write") /\ ~isWriting
  /\ UNCHANGED <<state_, chan, out, sock, server, counts, tasks, at, exited>>

writeSome ==
  /\ next("write") /\ isWriting
  /\ ~soError /\ ~raisesSigpipe
  /\ \E n \in 1 .. Len(outputBuffer_) :
       /\ wire' = wire \o SubSeq(outputBuffer_, 1, n)
       /\ outputBuffer_' = SubSeq(outputBuffer_, n + 1, Len(outputBuffer_))
  /\ IF outputBuffer_' # <<>>
     THEN UNCHANGED <<chan, at, sock, exited>>
     ELSE /\ updateChannel(events_ \ {"write"})
          /\ at' = IF CompletionSet THEN "complete" ELSE "written"
          /\ UNCHANGED sock
  /\ UNCHANGED <<state_, server, counts, tasks>>

(* writeFd fails: handleError, and the output stays where it is.           *)
writeError ==
  /\ next("write") /\ isWriting
  /\ \/ soError /\ handleError
     \/ /\ raisesSigpipe
        /\ exited' = "sigpipe"
        /\ UNCHANGED <<state_, chan, out, sock, server, counts, tasks, at>>

(* The end of handleWrite, after writeCompleteCallback_.                   *)
handleWriteEnd ==
  /\ Running /\ at \in {"complete", "written"}
  /\ at' = "events"
  /\ IF shutsAfterOutput THEN shutdownInLoop ELSE UNCHANGED finSent
  /\ UNCHANGED <<state_, chan, out, peer, soError, incoming, requests, server,
                 counts, revents_, batch, batchOwns, tasks, call, holders,
                 accepted, exited>>

messageReturn ==
  /\ Running /\ at = "message"
  /\ at' = "events"
  /\ UNCHANGED <<state_, chan, out, sock, server, counts, revents_, batch,
                 batchOwns, tasks, call, holders, accepted, exited>>

(* closeCallback_ is TcpServer::removeConnection, which gives the base     *)
(* loop removeConnectionInLoop.                                            *)
closeUnset == UNCHANGED removals                                    \* mutant
removeConnection == removals' = removals + 1

(* The end of handleClose.                                                 *)
handleCloseEnd ==
  /\ Running /\ at = "closing"
  /\ at' = "events"
  /\ removeConnection
  /\ UNCHANGED <<state_, chan, out, sock, stopped, mapped, counts, revents_,
                 batch, batchOwns, tasks, call, holders, accepted, exited>>

------------------------------------------------------------------------------
(* Functors.                                                               *)

doPendingFunctors ==
  /\ Running /\ at = "events" /\ revents_ = {}
  /\ at' = "batch"
  /\ batch' = tasks
  /\ tasks' = <<>>
  /\ UNCHANGED <<state_, chan, out, sock, server, counts, revents_, batchOwns,
                 call, holders, accepted, exited>>

doPendingFunctorsEnd ==
  /\ Running /\ at = "batch" /\ batch = <<>>
  /\ at' = "poll"
  /\ batchOwns' = FALSE
  /\ UNCHANGED <<state_, chan, out, sock, server, counts, revents_, batch,
                 tasks, call, holders, accepted, exited>>

functor(fn) ==
  /\ Running /\ at = "batch" /\ batch # <<>>
  /\ Head(batch).fn = fn
  /\ owned
  /\ batch' = Tail(batch)
  /\ batchOwns' = (batchOwns \/ fn \in Owning)
  /\ UNCHANGED <<revents_, call, holders, accepted>>

connectEstablished ==
  /\ functor("connectEstablished")
  /\ state_' = "Connected"
  /\ updateChannel(events_ \cup {"read"})
  /\ ups' = ups + 1
  /\ at' = "up"
  /\ UNCHANGED <<out, sock, server, tasks, downs>>

connectDestroy ==
  /\ functor("connectDestroy")
  /\ IF stillUp
     THEN /\ state_' = "DisConnected"
          /\ updateChannel({})
          /\ downs' = downs + 1
          /\ at' = "down"
     ELSE /\ removeChannel
          /\ UNCHANGED <<state_, downs, at>>
  /\ UNCHANGED <<out, sock, server, tasks, ups>>

connectDestroyEnd ==
  /\ Running /\ at = "down"
  /\ removeChannel
  /\ at' = "batch"
  /\ UNCHANGED <<state_, out, sock, server, counts, revents_, batch, batchOwns,
                 tasks, call, holders, accepted>>

(* The functor holds buf.c_str() of a string that its owner may have       *)
(* destroyed: what is sent is that string or whatever is found there.      *)
sendTask ==
  /\ functor("sendInLoop")
  /\ sendInLoop(Head(batch).msg) \/ sendInLoop(Junk)
  /\ UNCHANGED <<state_, server, counts, at>>

shutdownTask ==
  /\ functor("shutdownInLoop")
  /\ shutdownInLoop
  /\ UNCHANGED <<state_, chan, out, peer, soError, incoming, requests, server,
                 counts, at, tasks, exited>>

writeCompleteTask ==
  /\ functor("writeComplete")
  /\ at' = "completeTask"
  /\ UNCHANGED <<state_, chan, out, sock, server, counts, tasks, exited>>

taskCallbackReturn ==
  /\ Running /\ at \in {"up", "completeTask"}
  /\ at' = "batch"
  /\ UNCHANGED <<state_, chan, out, sock, server, counts, revents_, batch,
                 batchOwns, tasks, call, holders, accepted, exited>>

------------------------------------------------------------------------------
(* The server's base loop, and the peer.                                   *)

removeConnectionInLoop ==
  /\ Running /\ removals > 0 /\ ~stopped
  /\ removals' = removals - 1
  /\ mapped' = FALSE
  /\ queueInLoop(Plain("connectDestroy"))
  /\ UNCHANGED <<state_, chan, out, sock, stopped, counts, place, call, holders,
                 accepted, exited>>

destroyServer ==
  /\ Running /\ ServerStops /\ ~stopped
  /\ stopped' = TRUE
  /\ mapped' = FALSE
  /\ IF mapped THEN queueInLoop(Plain("connectDestroy")) ELSE UNCHANGED tasks
  /\ UNCHANGED <<state_, chan, out, sock, removals, counts, place, call,
                 holders, accepted, exited>>

peerSend ==
  /\ Running /\ peer = "open" /\ requests < MaxRequests
  /\ requests' = requests + 1
  /\ incoming' = incoming + 1
  /\ UNCHANGED <<state_, chan, out, finSent, peer, soError, server, counts,
                 place, tasks, call, holders, accepted, exited>>

peerShut ==
  /\ Running /\ peer = "open"
  /\ peer' = "shut"
  /\ UNCHANGED <<state_, chan, out, finSent, soError, incoming, requests, server,
                 counts, place, tasks, call, holders, accepted, exited>>

peerReset ==
  /\ Running /\ PeerResets /\ peer # "reset"
  /\ peer' = "reset"
  /\ soError' = TRUE
  /\ UNCHANGED <<state_, chan, out, finSent, incoming, requests, server, counts,
                 place, tasks, call, holders, accepted, exited>>

UserCall ==
  \/ shutdownHere \/ \E m \in Messages : sendHere(m)
  \/ \E c \in Callers :
       \/ \E m \in Messages : sendTest(c, m)
       \/ shutdownTest(c) \/ release(c)

CallStep == \E c \in Callers : sendQueue(c) \/ shutdownSet(c) \/ shutdownQueue(c)

Handler ==
  \/ closeEvent \/ errorEvent \/ readMessage \/ readEnd \/ readFails
  \/ writeNothing \/ writeSome \/ writeError
  \/ handleWriteEnd \/ messageReturn \/ handleCloseEnd

Functor ==
  \/ connectEstablished \/ connectDestroy \/ connectDestroyEnd \/ sendTask
  \/ shutdownTask \/ writeCompleteTask \/ taskCallbackReturn

LoopStep == \/ poll \/ Handler \/ doPendingFunctors
            \/ Functor \/ doPendingFunctorsEnd

Peer == peerSend \/ peerShut \/ peerReset

Next == \/ UserCall \/ CallStep \/ LoopStep
        \/ removeConnectionInLoop \/ destroyServer \/ Peer

Spec == Init /\ [][Next]_vars

------------------------------------------------------------------------------
(* Properties.                                                             *)

Open == ups = 1 /\ downs = 0    \* between the two calls of connectionCallback_
Output == wire \o outputBuffer_

(* The poller's bookkeeping is what the kernel has: index_ says whether the *)
(* socket is in the epoll set, and it is watched for the Channel's events. *)
(* So EPOLL_CTL_ADD and EPOLL_CTL_MOD never fail (EpollPoller.cc:74-119).  *)
Registered ==
  /\ index_ = "added" <=> epoll # Absent
  /\ index_ = "added" => epoll = events_

(* The connection waits for EPOLLOUT exactly while it has output: no output *)
(* is left with nobody to write it, and the loop does not spin on a socket *)
(* that is always writable (TcpConnection.cc:70-72, 204-210).              *)
WatchesOutput == Open => (isWriting <=> outputBuffer_ # <<>>)

(* Messages are not torn or mixed: in what the socket took and what is     *)
(* still to go, a byte follows its predecessor, and a message begins only  *)
(* where another has ended, whatever the socket takes of each write.       *)
Untorn ==
  \A i \in DOMAIN Output :
     IF Output[i][2] = 1
     THEN i > 1 => Output[i - 1][2] = MsgLen
     ELSE i > 1 /\ Output[i - 1] = <<Output[i][1], Output[i][2] - 1>>

(* FIN leaves an open connection only when there is no output left         *)
(* (TcpConnection.cc:248).                                                 *)
FinAfterOutput == finSent /\ Open => outputBuffer_ = <<>>

(* "Data that cannot be sent goes to the buffer, no data is lost"          *)
(* (TcpConnection.cc:152-155): what send() took is on the socket or in the *)
(* buffer, unless the connection broke.                                    *)
KeepsSends ==
  Open /\ peer # "reset" =>
    \A a \in accepted :
       \/ \E i \in DOMAIN Output : Output[i] = <<a[2], MsgLen>>
       \/ \E i \in DOMAIN tasks : tasks[i].msg = a[2]
       \/ \E i \in DOMAIN batch : batch[i].msg = a[2]

(* A lone reply is kept: the first message of a connection is on the       *)
(* socket or in the buffer whatever else the callbacks do, unless the      *)
(* connection broke (TcpConnection.cc:164-212).                            *)
KeepsReply == (\E a \in accepted : accepted = {a}) => KeepsSends

(* Where a connection is in its life, as its user and its poller see it,   *)
(* whether or not it was shut down.                                        *)
Stage == IF ups = 0 THEN "new"
         ELSE IF downs < ups THEN IF index_ = "new" THEN "lost" ELSE "up"
         ELSE IF downs > ups THEN "downtwice"
         ELSE IF index_ = "new" THEN "gone" ELSE "down"

Life == INSTANCE ConnectionLife
          WITH Conns <- {"this"}, life <- [c \in {"this"} |-> Stage], leaving <- FALSE

(* connectionCallback_ reports the connection up once and then down once,  *)
(* and only then is the Channel removed, once (TcpConnection.cc:97-115,    *)
(* 216-234).                                                               *)
ImplementsLife == Life!Spec

(* No step of a connection reaches a LOG_FATAL of the poller               *)
(* (EpollPoller.cc:109-112, 149).                                          *)
NeverFatal == exited # "fatal"

(* Fairness: the loop goes on, user callbacks return, a call once begun is *)
(* finished, the base loop runs its functors, and the kernel reports a     *)
(* writable socket again and again: the peer reads.                        *)
pollWritable == poll /\ ("write" \in epoll => "write" \in revents_')

Fairness ==
  /\ WF_vars(LoopStep /\ at # "poll") /\ WF_vars(pollWritable)
  /\ WF_vars(CallStep) /\ WF_vars(removeConnectionInLoop)

FairSpec == Spec /\ Fairness

(* After shutdown() the FIN is sent or the connection has ended, whatever  *)
(* was still in the buffer.                                                *)
ShutdownEnds ==
  state_ = "DisConnecting" ~>
    finSent \/ state_ = "DisConnected" \/ exited # "no"

(* A connection whose peer has ended it is removed from the poller and     *)
(* from the server, with no help from the user.                            *)
Removed ==
  peer # "open" ~> (index_ = "new" /\ ups = 1 /\ ~mapped) \/ exited # "no"
==============================================================================
