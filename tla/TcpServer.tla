------------------------------ MODULE TcpServer ------------------------------
(***************************************************************************)
(* A TcpServer: the base loop with its Acceptor, the sub loops the         *)
(* connections are spread over, and the functors by which the two sides    *)
(* open and close a connection (TcpServer.cc, Acceptor.cc).                *)
(*                                                                         *)
(* Each loop is the queue its module is proved to be, run in the batches   *)
(* of doPendingFunctors between two tests of quit_.  Of a connection only  *)
(* its opening and its end are here; TcpConnection has the rest.           *)
(***************************************************************************)
EXTENDS Naturals, Sequences, FiniteSets

CONSTANTS
  Clients,    \* the connections clients make, each once
  SubLoops,   \* the loops of the pool; with none, the base loop does all
  Base,       \* the base loop
  MaxFds,     \* connections the process has descriptors for
  Stops       \* does the base loop end and the server go?

Loops == SubLoops \cup {Base}

ASSUME ServerAssumption == /\ Base \notin SubLoops
                           /\ MaxFds \in Nat \ {0}
                           /\ Stops \in BOOLEAN

VARIABLES
  baseTid,      \* does the base loop know its thread? (EventLoop.tla)
  started_,     \* capped at 2
  listening,    \* is the Acceptor's Channel enabled for reading?
  backlog,      \* clients the kernel has connected and nobody accepted
  connections_,
  loopOf,       \* the loop of an accepted connection
  life,         \* of each connection, as in ConnectionLife
  queue, batch, \* per loop: pendingFunctors_, functors of doPendingFunctors;
                \* each a name and, but for "listen", a connection
  at, quitOf,   \* per loop: where it is, its quit_
  server        \* is the TcpServer there?

lists == <<queue, batch>>
loops == <<at, quitOf>>
vars == <<baseTid, started_, listening, backlog, connections_, loopOf, life,
          lists, loops, server>>

NoLoop == "none"
Fn(name, c) == [fn |-> name, conn |-> c]

Functors ==
  {[fn |-> "listen"]} \cup
  [fn : {"connectEstablished", "removeConnectionInLoop", "connectDestroy"},
   conn : Clients]

TypeOK ==
  /\ baseTid \in BOOLEAN /\ started_ \in 0 .. 2 /\ listening \in BOOLEAN
  /\ backlog \subseteq Clients /\ connections_ \subseteq Clients
  /\ loopOf \in [Clients -> Loops \cup {NoLoop}]
  /\ life \in [Clients -> {"away", "new", "up", "shut", "down", "gone"}]
  /\ queue \in [Loops -> Seq(Functors)] /\ batch \in [Loops -> Seq(Functors)]
  /\ at \in [Loops -> {"check", "events", "batch", "stopped"}]
  /\ quitOf \in [Loops -> BOOLEAN]
  /\ server \in {"there", "leaving", "gone"}

Init ==
  /\ baseTid \in BOOLEAN
  /\ started_ = 0 /\ listening = FALSE
  /\ backlog = {} /\ connections_ = {}
  /\ loopOf = [c \in Clients |-> NoLoop]
  /\ life = [c \in Clients |-> "away"]
  /\ queue = [l \in Loops |-> <<>>] /\ batch = [l \in Loops |-> <<>>]
  /\ at = [l \in Loops |-> "check"]
  /\ quitOf = [l \in Loops |-> FALSE]
  /\ server = "there"

------------------------------------------------------------------------------
(* Starting.                                                               *)

put(l, f) == queue' = [queue EXCEPT ![l] = Append(@, f)]

(* The thread that calls start() goes on to run the base loop.             *)
start ==
  /\ server = "there" /\ at[Base] = "check" /\ started_ < 2
  /\ started_' = started_ + 1
  /\ IF started_ > 0
     THEN UNCHANGED <<listening, queue>>
     ELSE IF baseTid
     THEN listening' = TRUE /\ UNCHANGED queue
     ELSE put(Base, [fn |-> "listen"]) /\ UNCHANGED listening
  /\ UNCHANGED <<baseTid, backlog, connections_, loopOf, life, batch, loops,
                 server>>

connect(c) ==
  /\ listening /\ server = "there"
  /\ life[c] = "away" /\ c \notin backlog
  /\ backlog' = backlog \cup {c}
  /\ UNCHANGED <<baseTid, started_, listening, connections_, loopOf, life,
                 lists, loops, server>>

------------------------------------------------------------------------------
(* Handlers: the Acceptor's in the base loop, handleClose in any.          *)

inHandlers(l) == at[l] = "events"

fdsLeak == {c \in Clients : life[c] # "away"}                        \* mutant
fds == {c \in Clients : life[c] \in {"new", "up", "shut", "down"}}

(* runInLoop called by the thread of loop k for loop l.                    *)
inline(k, l) == k = l /\ (l = Base => baseTid)

(* Which sub loop is next is EventLoopThreadPool's matter.                 *)
nextLoops == IF SubLoops = {} THEN {Base} ELSE SubLoops

newConnection(c, l) ==
  /\ connections_' = connections_ \cup {c}
  /\ loopOf' = [loopOf EXCEPT ![c] = l]
  /\ IF inline(Base, l)
     THEN life' = [life EXCEPT ![c] = "up"] /\ UNCHANGED queue
     ELSE /\ life' = [life EXCEPT ![c] = "new"]
          /\ put(l, Fn("connectEstablished", c))

(* With no descriptor left accept fails and the client stays where it is.  *)
handleRead(c) ==
  /\ inHandlers(Base) /\ listening
  /\ c \in backlog
  /\ Cardinality(fds) < MaxFds
  /\ backlog' = backlog \ {c}
  /\ \E l \in nextLoops : newConnection(c, l)
  /\ UNCHANGED <<baseTid, started_, listening, batch, loops, server>>

neverDestroys(c) ==                                                 \* mutant
  /\ connections_' = connections_ \ {c}
  /\ UNCHANGED queue

removeConnectionInLoop(c) ==
  /\ connections_' = connections_ \ {c}
  /\ put(loopOf[c], Fn("connectDestroy", c))

(* state_ becomes DisConnecting: a callback of the connection calls        *)
(* shutdown() in its loop.                                                 *)
shutdown(c) ==
  /\ life[c] = "up" /\ at[loopOf[c]] \in {"events", "batch"}
  /\ life' = [life EXCEPT ![c] = "shut"]
  /\ UNCHANGED <<baseTid, started_, listening, backlog, connections_, loopOf,
                 lists, loops, server>>

handleClose(c) ==
  LET l == loopOf[c]
  IN /\ life[c] \in {"up", "shut"} /\ inHandlers(l)
     /\ life' = [life EXCEPT ![c] = "down"]
     /\ IF inline(l, Base)
        THEN removeConnectionInLoop(c)
        ELSE /\ put(Base, Fn("removeConnectionInLoop", c))
             /\ UNCHANGED connections_
     /\ UNCHANGED <<baseTid, started_, listening, backlog, loopOf, batch,
                    loops, server>>

------------------------------------------------------------------------------
(* The loops.                                                              *)

moves(l, from, to) == at[l] = from /\ at' = [at EXCEPT ![l] = to]

loopTest(l) ==
  /\ l = Base => started_ > 0
  /\ IF quitOf[l] THEN moves(l, "check", "stopped") ELSE moves(l, "check", "events")
  /\ UNCHANGED <<baseTid, started_, listening, backlog, connections_, loopOf,
                 life, lists, quitOf, server>>

doPendingFunctors(l) ==
  /\ moves(l, "events", "batch")
  /\ batch' = [batch EXCEPT ![l] = queue[l]]
  /\ queue' = [queue EXCEPT ![l] = <<>>]
  /\ UNCHANGED <<baseTid, started_, listening, backlog, connections_, loopOf,
                 life, quitOf, server>>

functor(l, name) ==
  /\ at[l] = "batch" /\ batch[l] # <<>>
  /\ Head(batch[l]).fn = name
  /\ UNCHANGED <<baseTid, started_, backlog, loopOf, loops, server>>

pop(l) == batch' = [batch EXCEPT ![l] = Tail(@)]

listen(l) ==
  /\ functor(l, "listen")
  /\ pop(l)
  /\ listening' = TRUE
  /\ UNCHANGED <<connections_, life, queue>>

connectEstablished(l) ==
  /\ functor(l, "connectEstablished")
  /\ pop(l)
  /\ life' = [life EXCEPT ![Head(batch[l]).conn] = "up"]
  /\ UNCHANGED <<listening, connections_, queue>>

removeTask(l) ==
  /\ functor(l, "removeConnectionInLoop")
  /\ pop(l)
  /\ removeConnectionInLoop(Head(batch[l]).conn)
  /\ UNCHANGED <<listening, life>>

(* connectDestroy: the callback if state_ is Connected, then the removal,  *)
(* which is a LOG_FATAL if the Channel is gone already.  A connection in   *)
(* DisConnecting is removed without the callback.                          *)
destroysQuietly(c) ==                                               \* mutant
  IF life[c] \in {"up", "shut", "down"} THEN "gone" ELSE "fatal"
destroyed(c) ==
  CASE life[c] = "up" -> "down"
    [] life[c] \in {"shut", "down"} -> "gone"
    [] OTHER -> "fatal"

connectDestroy(l) ==
  /\ functor(l, "connectDestroy")
  /\ LET c == Head(batch[l]).conn
     IN /\ life' = [life EXCEPT ![c] = destroyed(c)]
        /\ IF life[c] = "up" THEN UNCHANGED batch ELSE pop(l)
  /\ UNCHANGED <<listening, connections_, queue>>

doPendingFunctorsEnd(l) ==
  /\ batch[l] = <<>>
  /\ moves(l, "batch", "check")
  /\ UNCHANGED <<baseTid, started_, listening, backlog, connections_, loopOf,
                 life, lists, quitOf, server>>

------------------------------------------------------------------------------
(* The end: the base loop returns, ~TcpServer gives every connection a     *)
(* connectDestroy, and ~EventLoopThreadPool quits and joins the sub loops  *)
(* one after the other.                                                    *)

quitLoop(l) ==
  /\ ~quitOf[l]
  /\ quitOf' = [quitOf EXCEPT ![l] = TRUE]
  /\ UNCHANGED <<baseTid, started_, listening, backlog, connections_, loopOf,
                 life, lists, at>>

quitBase == /\ Stops /\ started_ > 0
            /\ quitLoop(Base)
            /\ UNCHANGED server

destroyServer ==
  /\ server = "there" /\ at[Base] = "stopped"
  /\ server' = "leaving"
  /\ UNCHANGED <<baseTid, started_, listening, backlog, connections_, loopOf,
                 life, lists, loops>>

destroyConnection(c) ==
  /\ server = "leaving" /\ c \in connections_
  /\ IF inline(Base, loopOf[c])
     THEN /\ life' = [life EXCEPT ![c] = destroyed(c)]
          /\ connections_' = IF life[c] = "up" THEN connections_
                                             ELSE connections_ \ {c}
          /\ UNCHANGED queue
     ELSE /\ removeConnectionInLoop(c)
          /\ UNCHANGED life
  /\ UNCHANGED <<baseTid, started_, listening, backlog, loopOf, batch, loops,
                 server>>

quitSubLoop(l) ==
  /\ server = "leaving" /\ connections_ = {}
  /\ \A k \in SubLoops : quitOf[k] => at[k] = "stopped"
  /\ quitLoop(l)
  /\ UNCHANGED server

serverGone ==
  /\ server = "leaving" /\ connections_ = {}
  /\ \A k \in SubLoops : at[k] = "stopped"
  /\ server' = "gone"
  /\ listening' = FALSE
  /\ UNCHANGED <<baseTid, started_, backlog, connections_, loopOf, life, lists,
                 loops>>

Handler == \E c \in Clients : handleRead(c) \/ handleClose(c) \/ shutdown(c)

LoopStep(l) ==
  \/ loopTest(l) \/ doPendingFunctors(l) \/ doPendingFunctorsEnd(l)
  \/ listen(l) \/ connectEstablished(l) \/ removeTask(l) \/ connectDestroy(l)

Leave == \/ destroyServer \/ serverGone
         \/ \E c \in Clients : destroyConnection(c)
         \/ \E l \in SubLoops : quitSubLoop(l)

Next == \/ start \/ quitBase \/ Handler \/ Leave
        \/ \E c \in Clients : connect(c)
        \/ \E l \in Loops : LoopStep(l)

Spec == Init /\ [][Next]_vars

(* Loops go on; epoll is level triggered, so what can be handled is        *)
(* reported in every iteration until it is; and peers close in the end.    *)
Fairness == /\ \A l \in Loops : WF_vars(LoopStep(l))
            /\ SF_vars(\E c \in Clients : handleRead(c))
            /\ \A c \in Clients : SF_vars(handleClose(c))

FairSpec == Spec /\ Fairness

------------------------------------------------------------------------------
(* Properties.                                                             *)

(* Whatever the order in which the two loops run their functors, the user  *)
(* sees each connection come up, go down and be removed once and in this   *)
(* order, but that one that was shut down may be removed unreported once   *)
(* ~TcpServer has begun, and removeChannel is never called for a Channel   *)
(* that is gone (TcpServer.cc:88-116, TcpConnection.cc:216-234,            *)
(* EpollPoller.cc:109).                                                    *)
stage(c) == IF life[c] = "away" THEN "new" ELSE life[c]
stages == [c \in Clients |-> stage(c)]

Life == INSTANCE ConnectionLife WITH
          Conns <- Clients, life <- stages, leaving <- server # "there"

ImplementsLife == Life!Spec

(* The server forgets no connection and frees none twice: while it is      *)
(* there, a connection that is not gone is in connections_ or has one      *)
(* connectDestroy on its way, in its own loop (TcpServer.cc:77, 96-104).   *)
DestroysOf(c) ==
  LET todo == batch[loopOf[c]] \o queue[loopOf[c]]
  IN Cardinality({i \in DOMAIN todo : todo[i] = Fn("connectDestroy", c)})

Tracked ==
  \A c \in Clients :
    life[c] \in {"new", "up", "shut", "down"} =>
      DestroysOf(c) = IF c \in connections_ THEN 0 ELSE 1

(* A connection that went down is removed from the server and the poller,  *)
(* which frees its descriptor, as long as nobody quits the loops.          *)
ClosedIsRemoved ==
  \A c \in Clients : life[c] = "down" ~> life[c] = "gone" \/ quitOf[Base]

(* A client that connects is accepted, however few descriptors there are,  *)
(* as long as others close and the base loop is not quit.                  *)
EveryClientAccepted ==
  \A c \in Clients : c \in backlog ~> c \notin backlog \/ quitOf[Base]
==============================================================================
