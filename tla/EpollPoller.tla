------------------------------ MODULE EpollPoller ------------------------------
(***************************************************************************)
(* The poller of one loop with several channels: EpollPoller, Poller,      *)
(* Channel, the epoll set of the kernel behind them, and the loop's        *)
(* iteration as far as it decides when a Channel* is used.                 *)
(*                                                                         *)
(* A channel belongs to a connection: it is made with the descriptor of an *)
(* accepted socket, established, closed, removed, and destroyed with the   *)
(* descriptor, which a later connection then gets.  What a callback does   *)
(* to the poller is what TcpConnection's callbacks do.                     *)
(*                                                                         *)
(* Another thread that holds a connection may send and shut down: what its *)
(* functors do to the poller runs with the loop's own.  Its shutdown() may *)
(* test state_ before the connection ends and set it afterwards; from then *)
(* on the connection is late.                                              *)
(***************************************************************************)
EXTENDS Naturals, FiniteSets

CONSTANTS
  Channels,           \* numbered like the connections, nextConnId_
  Fds, NoFd, NoChannel,
  Outside,            \* the channels of connections another thread holds
  InitEventListSize

ASSUME PollerAssumption ==
  /\ Channels \subseteq Nat /\ Fds \subseteq Nat /\ IsFiniteSet(Fds)
  /\ Outside \subseteq Channels
  /\ NoFd \notin Fds /\ NoChannel \notin Channels
  /\ InitEventListSize \in Nat \ {0}

VARIABLES
  life,      \* of a channel's connection
  late,      \* what came of another thread's shutdown() after its end
  fd,        \* Channel::fd_
  events_,   \* Channel::events_
  index_,    \* Channel::index_
  revents_,  \* the bits of Channel::revents_ not handled yet
  channels,  \* Poller::channels
  size,      \* of EpollPoller::events_
  active,    \* activeChannels still to be handled
  current,   \* the one whose handleEvent runs
  at,        \* where the loop is
  epoll,     \* the kernel's set: per descriptor, the pointer and the events
  readable,  \* the descriptors with input
  fatal      \* LOG_FATAL

object == <<life, late, fd, events_, index_>>
table == <<channels, epoll, fatal>>
loop == <<revents_, size, active, current, at>>
vars == <<object, table, loop, readable>>

Bits == {"in", "out"}                   \* EPOLLIN | EPOLLPRI, EPOLLOUT
Reports == Bits \cup {"hup"}            \* EPOLLHUP without EPOLLIN
Lives == {"unborn", "new", "up", "closed", "removed", "gone"}
(* state_ is set again, handleClose has run again, and connectDestroy.     *)
Lateness == {"never", "set", "closed", "removed"}
Entry == [ptr : Channels, events : SUBSET Bits]
NoEntry == [ptr |-> NoChannel, events |-> {}]

(* A channel has a descriptor from its construction on, two live channels  *)
(* never the same one, and is watched for something only by a connection   *)
(* that is up, or late.                                                    *)
Alive(c) == life[c] \notin {"unborn", "gone"}
InTime(c) == late[c] = "never"

TypeOK ==
  /\ life \in [Channels -> Lives]
  /\ late \in [Channels -> Lateness]
  /\ fd \in [Channels -> Fds \cup {NoFd}]
  /\ \A c \in Channels : Alive(c) => fd[c] # NoFd
  /\ \A c, d \in Channels : Alive(c) /\ Alive(d) /\ fd[c] = fd[d] => c = d
  /\ events_ \in [Channels -> SUBSET Bits]
  /\ \A c \in Channels : events_[c] # {} => life[c] = "up" \/ ~InTime(c)
  /\ index_ \in [Channels -> {"NEW", "ADDED", "DELETED"}]
  /\ revents_ \in [Channels -> SUBSET Reports]
  /\ channels \in [Fds -> Channels \cup {NoChannel}]
  /\ size \in Nat \ {0}
  /\ active \in SUBSET Channels /\ current \in Channels \cup {NoChannel}
  /\ at # "handle" => active = {} /\ current = NoChannel
  /\ at \in {"poll", "handle", "functors"}
  /\ epoll \in [Fds -> Entry \cup {NoEntry}]
  /\ readable \in SUBSET Fds
  /\ fatal \in BOOLEAN

Init ==
  /\ life = [c \in Channels |-> "unborn"]
  /\ late = [c \in Channels |-> "never"]
  /\ fd = [c \in Channels |-> NoFd]
  /\ events_ = [c \in Channels |-> {}]
  /\ index_ = [c \in Channels |-> "NEW"]
  /\ revents_ = [c \in Channels |-> {}]
  /\ channels = [f \in Fds |-> NoChannel]
  /\ size = InitEventListSize
  /\ active = {} /\ current = NoChannel
  /\ at = "poll"
  /\ epoll = [f \in Fds |-> NoEntry]
  /\ readable = {}
  /\ fatal = FALSE

------------------------------------------------------------------------------
(* EpollPoller.  A channel c whose events_ become ev.                      *)

InSet(f) == epoll[f] # NoEntry
Used(f) == \E c \in Channels : Alive(c) /\ fd[c] = f

(* epoll_ctl refuses to add what is there, to change or to delete what is  *)
(* not; a refused delete is only logged.                                   *)
update(operation, c, ev) ==
  LET f == fd[c]
      refused == InSet(f) = (operation = "ADD")
      entry == IF operation = "DEL" THEN NoEntry ELSE [ptr |-> c, events |-> ev]
  IN /\ epoll' = IF refused THEN epoll ELSE [epoll EXCEPT ![f] = entry]
     /\ fatal' = (fatal \/ (refused /\ operation # "DEL"))

updateChannel(c, ev) ==
  IF index_[c] \in {"NEW", "DELETED"}
  THEN /\ channels' = IF index_[c] = "NEW" THEN [channels EXCEPT ![fd[c]] = c]
                                           ELSE channels
       /\ index_' = [index_ EXCEPT ![c] = "ADDED"]
       /\ update("ADD", c, ev)
  ELSE /\ UNCHANGED channels
       /\ index_' = [index_ EXCEPT ![c] = IF ev = {} THEN "DELETED" ELSE @]
       /\ update(IF ev = {} THEN "DEL" ELSE "MOD", c, ev)

(* Channel::update after a change of events_.                              *)
set(c, ev) ==
  /\ events_' = [events_ EXCEPT ![c] = ev]
  /\ updateChannel(c, ev)

enablesNothing(c) == set(c, events_[c])                             \* mutant
enableReading(c) == set(c, events_[c] \cup {"in"})
enableWrite(c) == set(c, events_[c] \cup {"out"})
disableWrite(c) == set(c, events_[c] \ {"out"})
disableAll(c) == set(c, {})

keepsTable(c) == UNCHANGED channels                                 \* mutant
erase(c) == channels' = [channels EXCEPT ![fd[c]] = NoChannel]

(* Of a connection that is up, disableAll() comes first: either way the    *)
(* entry is deleted once.                                                  *)
removeChannel(c) ==
  /\ events_' = [events_ EXCEPT ![c] = {}]
  /\ erase(c)
  /\ index_' = [index_ EXCEPT ![c] = "NEW"]
  /\ IF index_[c] = "ADDED" THEN update("DEL", c, {})
     ELSE /\ UNCHANGED epoll
          /\ fatal' = (fatal \/ index_[c] = "NEW")

------------------------------------------------------------------------------
(* poll() and what the loop does with the active channels.                 *)

grown(n) == IF n = size THEN (size * 3) \div 2 ELSE size

Watching(bit) == {f \in Fds : bit \in epoll[f].events}

(* The entries F are reported, each with the bits that are ready.          *)
fillActiveChannel(F, ready) ==
  /\ active' = {epoll[f].ptr : f \in F}
  /\ revents_' = [c \in Channels |->
       {bit \in Reports : \E f \in F \cap ready[bit] : epoll[f].ptr = c}]

(* Of what is ready, at most size entries; nothing when the time is over   *)
(* or the eventfd is readable.  A socket becomes writable and unwritable   *)
(* at any time; one that is not watched for input may have hung up.        *)
poll(F) ==
  /\ at = "poll"
  /\ \E writable \in SUBSET Watching("out"),
        hungUp \in SUBSET (Watching("out") \ Watching("in")) :
       LET ready == [bit \in Reports |->
                       CASE bit = "in" -> readable \cap Watching("in")
                         [] bit = "out" -> writable
                         [] bit = "hup" -> hungUp]
           Reported == ready["in"] \cup writable \cup hungUp
       IN /\ F \subseteq Reported
          /\ \/ F = {}
             \/ Cardinality(F) = size
             \/ F = Reported /\ Cardinality(F) < size
          /\ fillActiveChannel(F, ready)
  /\ size' = grown(Cardinality(F))
  /\ at' = "handle"
  /\ UNCHANGED <<object, table, current, readable>>

handleEvent(c) ==
  /\ at = "handle" /\ current = NoChannel
  /\ c \in active
  /\ current' = c /\ active' = active \ {c}
  /\ UNCHANGED <<object, table, revents_, size, at, readable>>

(* handleEvent returns after the last bit.                                 *)
handled(bit) ==
  /\ revents_' = [revents_ EXCEPT ![current] = @ \ {bit}]
  /\ current' = IF revents_[current] = {bit} THEN NoChannel ELSE current

(* The message callback may send on any connection of the loop that is up; *)
(* what the socket does not take has EPOLLOUT watched.                     *)
handleRead ==
  /\ current # NoChannel /\ "in" \in revents_[current]
  /\ handled("in")
  /\ readable' = readable \ {fd[current]}
  /\ \/ UNCHANGED <<events_, index_, table>>
     \/ \E d \in Channels :
          life[d] = "up" /\ "out" \notin events_[d] /\ enableWrite(d)
  /\ UNCHANGED <<life, late, fd, size, active, at>>

(* End of file, or EPOLLHUP of a connection that is late.  connectDestroy  *)
(* is queued, a second time then.                                          *)
handleClose ==
  /\ current # NoChannel
  /\ \E bit \in {"hup", "in"} : bit \in revents_[current] /\ handled(bit)
  /\ IF InTime(current)
     THEN life' = [life EXCEPT ![current] = "closed"] /\ UNCHANGED late
     ELSE late' = [late EXCEPT ![current] = "closed"] /\ UNCHANGED life
  /\ disableAll(current)
  /\ UNCHANGED <<fd, size, active, at, readable>>

(* All output is written, or not; a connection that is not watched for     *)
(* output any more only logs.                                              *)
handleWrite ==
  /\ current # NoChannel /\ revents_[current] = {"out"}
  /\ handled("out")
  /\ \/ UNCHANGED <<events_, index_, table>>
     \/ /\ "out" \in events_[current]
        /\ disableWrite(current)
  /\ UNCHANGED <<life, late, fd, size, active, at, readable>>

(* The loop goes on to doPendingFunctors, and from there to the next poll. *)
goesOn ==
  /\ \/ at = "handle" /\ active = {} /\ current = NoChannel /\ at' = "functors"
     \/ at = "functors" /\ at' = "poll"
  /\ UNCHANGED <<object, table, revents_, size, active, current, readable>>

------------------------------------------------------------------------------
(* Connections.                                                            *)

(* accept() gives the lowest descriptor that is free.                      *)
newConnection(c, f) ==
  /\ \A d \in Channels : life[d] = "unborn" <=> d >= c
  /\ \A g \in Fds : g < f => Used(g)
  /\ ~Used(f)
  /\ life' = [life EXCEPT ![c] = "new"]
  /\ fd' = [fd EXCEPT ![c] = f]
  /\ UNCHANGED <<late, events_, index_, table, loop, readable>>

(* A functor, or the handler of the acceptor's channel of the same loop.   *)
connectEstablished(c) ==
  /\ at \in {"handle", "functors"} /\ current = NoChannel
  /\ life[c] = "new"
  /\ life' = [life EXCEPT ![c] = "up"]
  /\ enableReading(c)
  /\ UNCHANGED <<late, fd, loop, readable>>

anyTime(c) == life[c] \in {"up", "closed"}                          \* mutant
inFunctor(c) == at = "functors" /\ life[c] \in {"up", "closed"}

(* After a handleClose, or because the server goes.                        *)
connectDestroy(c) ==
  /\ inFunctor(c)
  /\ life' = [life EXCEPT ![c] = "removed"]
  /\ removeChannel(c)
  /\ UNCHANGED <<late, fd, loop, readable>>

(* The one that a second handleClose has queued.                           *)
connectDestroyAgain(c) ==
  /\ at = "functors" /\ life[c] = "removed" /\ late[c] = "closed"
  /\ late' = [late EXCEPT ![c] = "removed"]
  /\ removeChannel(c)
  /\ UNCHANGED <<life, fd, loop, readable>>

(* The functor of another thread's send(): sendInLoop tests only for       *)
(* DisConnected, so that it writes for a late connection too.              *)
sendInLoop(c) ==
  /\ at = "functors" /\ c \in Outside
  /\ life[c] = "up" \/ (Alive(c) /\ late[c] = "set")
  /\ "out" \notin events_[c] /\ enableWrite(c)
  /\ UNCHANGED <<life, late, fd, loop, readable>>

(* Another thread found state_ Connected, and sets it to DisConnecting     *)
(* after handleClose or connectDestroy has set it to DisConnected.         *)
shutdown(c) ==
  /\ c \in Outside /\ life[c] \in {"closed", "removed"} /\ InTime(c)
  /\ late' = [late EXCEPT ![c] = "set"]
  /\ UNCHANGED <<life, fd, events_, index_, table, loop, readable>>

(* The last owner lets go; the kernel forgets a descriptor that is closed. *)
(* The functor of connectDestroy is an owner, and whoever has shut down    *)
(* late is taken for one while the loop handles the channel.               *)
destroyed(c) ==
  /\ life[c] = "removed" /\ late[c] # "closed"
  /\ InTime(c) \/ c \notin active \cup {current}
  /\ life' = [life EXCEPT ![c] = "gone"]
  /\ epoll' = [epoll EXCEPT ![fd[c]] = NoEntry]
  /\ readable' = readable \ {fd[c]}
  /\ UNCHANGED <<late, fd, events_, index_, channels, fatal, loop>>

(* Bytes or a FIN; input that nobody read ends with the descriptor.        *)
arrives(f) ==
  /\ Used(f)
  /\ readable' = readable \cup {f}
  /\ UNCHANGED <<object, table, loop>>

Handler == handleRead \/ handleClose \/ handleWrite

Next ==
  /\ ~fatal
  /\ \/ \E F \in SUBSET Fds : poll(F)
     \/ \E c \in Channels : \/ handleEvent(c) \/ connectEstablished(c)
                            \/ connectDestroy(c) \/ connectDestroyAgain(c)
                            \/ sendInLoop(c) \/ shutdown(c) \/ destroyed(c)
                            \/ \E f \in Fds : newConnection(c, f)
     \/ Handler \/ goesOn
     \/ \E f \in Fds : arrives(f)

Spec == Init /\ [][Next]_vars

(* The loop goes on; the kernel reports a descriptor that stays ready in   *)
(* its turn, also where not all that are ready fit.                        *)
Fairness ==
  /\ WF_vars(~fatal /\ (Handler \/ goesOn))
  /\ \A c \in Channels : WF_vars(~fatal /\ handleEvent(c))
  /\ \A f \in Fds : SF_vars(~fatal /\ \E F \in SUBSET Fds : f \in F /\ poll(F))

FairSpec == Spec /\ Fairness

------------------------------------------------------------------------------
(* Properties.                                                             *)

(* The three records of a registration agree, through reuse of descriptors *)
(* and every order of opening and closing: the table has the channels that *)
(* are not NEW, the kernel those that are ADDED, each with its own pointer *)
(* and the events it wants (EpollPoller.cc:74-119).  A late connection,    *)
(* which may leave itself in the table, spoils no other's records.         *)
TableAgrees ==
  /\ \A c \in Channels : InTime(c) /\ index_[c] # "NEW" => Alive(c)
  /\ \A f \in Fds, c \in Channels : InTime(c) =>
       (channels[f] = c <=> index_[c] # "NEW" /\ fd[c] = f)
  /\ \A f \in Fds, c \in Channels : InTime(c) =>
       (epoll[f] = [ptr |-> c, events |-> events_[c]]
          <=> index_[c] = "ADDED" /\ fd[c] = f)
  /\ \A f \in Fds : InSet(f) => epoll[f].ptr = channels[f]

(* No handler is called through a pointer to a channel that was destroyed, *)
(* though the list of active channels is filled before the first handler   *)
(* runs (EventLoop.cc:71-84, EpollPoller.cc:121-129).                      *)
ActiveAlive ==
  \A c \in (active \cup {current}) \ {NoChannel} : InTime(c) => Alive(c)

(* No epoll_ctl of the poller is refused and no channel is removed twice:  *)
(* LOG_FATAL is never reached (EpollPoller.cc:109-112, 147-150).           *)
NeverFatal == ~fatal

(* The array of events grows with what is ready, not with time             *)
(* (EpollPoller.cc:50-54).                                                 *)
SizeBounded ==
  size = InitEventListSize \/ 2 * size <= 3 * Cardinality(Fds)

(* Input of a connection that is up is read, or the connection closes,     *)
(* also while more descriptors are ready than fit (EpollPoller.cc:40-54):  *)
(* unless a late connection is removed twice, which ends the process.      *)
EveryInputRead ==
  \A c \in Channels :
    life[c] = "up" /\ fd[c] \in readable ~>
      life[c] # "up" \/ fd[c] \notin readable \/ fatal
==============================================================================
