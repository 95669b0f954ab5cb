--------------------------- MODULE EpollPollerProofs ---------------------------
(***************************************************************************)
(* Proofs about EpollPoller, for any number of channels and descriptors:   *)
(* the records of a registration agree, no epoll_ctl is refused, and no    *)
(* handler runs on a channel that is gone.                                 *)
(***************************************************************************)
EXTENDS EpollPoller, FiniteSetTheorems, TLAPS

RegTypes ==
  /\ life \in [Channels -> Lives]
  /\ fd \in [Channels -> Fds \cup {NoFd}]
  /\ \A c \in Channels : Alive(c) => fd[c] \in Fds
  /\ \A c, d \in Channels : Alive(c) /\ Alive(d) /\ fd[c] = fd[d] => c = d
  /\ events_ \in [Channels -> SUBSET Bits]
  /\ index_ \in [Channels -> {"NEW", "ADDED", "DELETED"}]
  /\ channels \in [Fds -> Channels \cup {NoChannel}]
  /\ epoll \in [Fds -> Entry \cup {NoEntry}]

(* TableAgrees read from the channel, as long as it lives, and from the    *)
(* descriptor: this much holds of late connections too.                    *)
Table ==
  /\ \A c \in Channels : Alive(c) /\ index_[c] # "NEW" => channels[fd[c]] = c
  /\ \A f \in Fds : channels[f] # NoChannel =>
       index_[channels[f]] # "NEW" /\ fd[channels[f]] = f

Registered(c) == Alive(c) /\ index_[c] = "ADDED"

Kernel ==
  /\ \A c \in Channels : Registered(c) =>
       epoll[fd[c]] = [ptr |-> c, events |-> events_[c]]
  /\ \A f \in Fds : InSet(f) =>
       /\ epoll[f].ptr \in Channels
       /\ Registered(epoll[f].ptr) /\ fd[epoll[f].ptr] = f

Reg == RegTypes /\ Table /\ Kernel

(* index_ follows the connection, unless it is late: a channel is ADDED    *)
(* while its connection is up, and then always watched for input; DELETED  *)
(* from handleClose to connectDestroy.                                     *)
IndexFollowsLife ==
  \A c \in Channels : InTime(c) =>
    /\ (index_[c] = "ADDED") <=> (life[c] = "up")
    /\ (index_[c] = "DELETED") <=> (life[c] = "closed")
    /\ life[c] = "up" => "in" \in events_[c]
    /\ life[c] # "up" => events_[c] = {}

(* Only a connection that has ended, and that another thread holds, is     *)
(* late, which is never watched for input; and only such a one is removed  *)
(* twice.                                                                  *)
Ends ==
  /\ late \in [Channels -> Lateness]
  /\ \A c \in Channels : ~InTime(c) =>
       /\ c \in Outside /\ life[c] \in {"closed", "removed", "gone"}
       /\ "in" \notin events_[c]
  /\ fatal \in BOOLEAN
  /\ fatal => \E c \in Channels : ~InTime(c)

(* The active channels are up, or late; the current one was when it was    *)
(* reported, and is until its input, of which handleClose is one way, was  *)
(* handled.                                                                *)
Usable(c) == life[c] = "up" \/ (Alive(c) /\ ~InTime(c))
Heard(c) == /\ "in" \in revents_[c] => life[c] = "up"
            /\ "hup" \in revents_[c] => ~InTime(c)

Handled ==
  /\ revents_ \in [Channels -> SUBSET Reports]
  /\ at \in {"poll", "handle", "functors"}
  /\ at # "handle" => active = {} /\ current = NoChannel
  /\ active \in SUBSET Channels /\ current \in Channels \cup {NoChannel}
  /\ current \notin active
  /\ \A c \in active : Usable(c) /\ Heard(c)
  /\ current # NoChannel =>
       (Usable(current) \/ life[current] = "closed") /\ Heard(current)

Rest == size \in Nat \ {0} /\ readable \in SUBSET Fds

PollerInv == Reg /\ IndexFollowsLife /\ Ends /\ Handled /\ Rest

(* An entry names one channel.                                             *)
LEMMA EntryIsOne ==
  ASSUME NEW c \in Channels, NEW d \in Channels, NEW ev, NEW e
  PROVE  /\ [ptr |-> c, events |-> ev] # NoEntry
         /\ [ptr |-> c, events |-> ev] = [ptr |-> d, events |-> e] => c = d
<1>1. [ptr |-> c, events |-> ev].ptr = c /\ [ptr |-> d, events |-> e].ptr = d
  OBVIOUS
<1>2. NoEntry.ptr = NoChannel /\ c # NoChannel
  BY PollerAssumption DEF NoEntry
<1> QED
  BY <1>1, <1>2

(* The descriptor of a live channel is its own, and the kernel has it      *)
(* exactly when the channel is ADDED.                                      *)
LEMMA OwnEntry ==
  ASSUME Reg, NEW c \in Channels, Alive(c)
  PROVE  /\ fd[c] \in Fds
         /\ (index_[c] = "ADDED") <=> InSet(fd[c])
         /\ \A d \in Channels : Alive(d) /\ d # c => fd[d] # fd[c]
<1>1. fd[c] \in Fds /\ \A d \in Channels : Alive(d) /\ d # c => fd[d] # fd[c]
  BY DEF Reg, RegTypes
<1>2. index_[c] = "ADDED" => InSet(fd[c])
  <2>1. [ptr |-> c, events |-> events_[c]] # NoEntry
    BY EntryIsOne
  <2> QED
    BY <2>1 DEF Reg, Kernel, InSet, Registered
<1>3. InSet(fd[c]) => index_[c] = "ADDED"
  BY <1>1 DEF Reg, Kernel, Registered
<1> QED
  BY <1>1, <1>2, <1>3

(* The two readings of the table give the property.                        *)
LEMMA RegGives == Reg /\ IndexFollowsLife => TableAgrees
<1> USE PollerAssumption
<1> SUFFICES ASSUME Reg, IndexFollowsLife PROVE TableAgrees
  OBVIOUS
<1>1. ASSUME NEW c \in Channels, InTime(c), index_[c] # "NEW"
      PROVE  Alive(c) /\ fd[c] \in Fds
  BY <1>1 DEF Reg, RegTypes, IndexFollowsLife, Alive
<1>2. ASSUME NEW f \in Fds, NEW c \in Channels, InTime(c)
      PROVE  (channels[f] = c) <=> (index_[c] # "NEW" /\ fd[c] = f)
  BY <1>1, <1>2 DEF Reg, Table
<1>3. ASSUME NEW f \in Fds, NEW c \in Channels, epoll[f] = [ptr |-> c, events |-> events_[c]]
      PROVE  index_[c] = "ADDED" /\ fd[c] = f
  <2>1. InSet(f) /\ epoll[f].ptr = c
    BY <1>3, EntryIsOne DEF InSet
  <2> QED
    BY <2>1 DEF Reg, Kernel, Registered
<1>4. ASSUME NEW c \in Channels, InTime(c), index_[c] = "ADDED"
      PROVE  epoll[fd[c]] = [ptr |-> c, events |-> events_[c]]
  BY <1>1, <1>4 DEF Reg, Kernel, Registered
<1>5. ASSUME NEW f \in Fds, InSet(f) PROVE epoll[f].ptr = channels[f]
  <2> DEFINE c == epoll[f].ptr
  <2>1. c \in Channels /\ Alive(c) /\ index_[c] = "ADDED" /\ fd[c] = f
    BY <1>5 DEF Reg, Kernel, Registered
  <2>2. channels[fd[c]] = c
    BY <2>1 DEF Reg, Table
  <2> QED
    BY <2>1, <2>2
<1> QED
  BY <1>1, <1>2, <1>3, <1>4, <1>5 DEF TableAgrees

(* The invariant implies what the run checks.                              *)
LEMMA InvGives == PollerInv => TypeOK /\ TableAgrees /\ ActiveAlive
<1> USE PollerAssumption
<1> SUFFICES ASSUME PollerInv PROVE TypeOK /\ TableAgrees /\ ActiveAlive
  OBVIOUS
<1>1. TableAgrees
  BY RegGives DEF PollerInv
<1>2. ActiveAlive
  BY DEF PollerInv, Handled, Usable, ActiveAlive, Alive
<1>3. \A c \in Channels : Alive(c) => fd[c] # NoFd
  BY DEF PollerInv, Reg, RegTypes
<1>4. \A c \in Channels : events_[c] # {} => life[c] = "up" \/ ~InTime(c)
  BY DEF PollerInv, IndexFollowsLife
<1>5. TypeOK
  BY <1>3, <1>4 DEF PollerInv, Reg, RegTypes, Ends, Handled, Rest, TypeOK
<1> QED
  BY <1>1, <1>2, <1>5

------------------------------------------------------------------------------
(* What the operations on the poller do to the records.                    *)

(* What epoll_ctl does not refuse.                                         *)
LEMMA Accepted ==
  ASSUME fatal \in BOOLEAN, NEW c \in Channels, NEW ev
  PROVE  LET with == [ptr |-> c, events |-> ev]
         IN /\ update("ADD", c, ev) /\ ~InSet(fd[c]) =>
                 epoll' = [epoll EXCEPT ![fd[c]] = with] /\ fatal' = fatal
            /\ update("MOD", c, ev) /\ InSet(fd[c]) =>
                 epoll' = [epoll EXCEPT ![fd[c]] = with] /\ fatal' = fatal
            /\ update("DEL", c, ev) /\ InSet(fd[c]) =>
                 epoll' = [epoll EXCEPT ![fd[c]] = NoEntry] /\ fatal' = fatal
<1> DEFINE with == [ptr |-> c, events |-> ev]
<1>1. ASSUME update("ADD", c, ev), ~InSet(fd[c])
      PROVE  epoll' = [epoll EXCEPT ![fd[c]] = with] /\ fatal' = fatal
  BY <1>1 DEF update
<1>2. ASSUME update("MOD", c, ev), InSet(fd[c])
      PROVE  epoll' = [epoll EXCEPT ![fd[c]] = with] /\ fatal' = fatal
  BY <1>2 DEF update
<1>3. ASSUME update("DEL", c, ev), InSet(fd[c])
      PROVE  epoll' = [epoll EXCEPT ![fd[c]] = NoEntry] /\ fatal' = fatal
  BY <1>3 DEF update
<1> QED
  BY <1>1, <1>2, <1>3

(* A channel that lives, and goes on living, changes its events: whatever  *)
(* was registered of it, its records agree again.                          *)
LEMMA RegSet ==
  ASSUME Reg, fatal \in BOOLEAN, NEW c \in Channels, Alive(c),
         NEW ev \in SUBSET Bits, set(c, ev),
         fd' = fd, life' \in [Channels -> Lives],
         \A d \in Channels : Alive(d)' <=> Alive(d)
  PROVE  /\ Reg'
         /\ fatal' = fatal
         /\ events_' = [events_ EXCEPT ![c] = ev]
         /\ index_' = [index_ EXCEPT ![c] =
              IF index_[c] = "ADDED" /\ ev = {} THEN "DELETED" ELSE "ADDED"]
<1> USE PollerAssumption
<1> DEFINE with == [ptr |-> c, events |-> ev]
           down == index_[c] = "ADDED" /\ ev = {}
<1>1. /\ fd[c] \in Fds
      /\ (index_[c] = "ADDED") <=> InSet(fd[c])
      /\ \A d \in Channels : Alive(d) /\ d # c => fd[d] # fd[c]
  BY OwnEntry
<1>2. events_' = [events_ EXCEPT ![c] = ev]
  BY DEF set
<1>3. index_' = [index_ EXCEPT ![c] = IF down THEN "DELETED" ELSE "ADDED"]
  BY DEF set, updateChannel, Reg, RegTypes
<1>4. channels' = IF index_[c] = "NEW" THEN [channels EXCEPT ![fd[c]] = c] ELSE channels
  BY DEF set, updateChannel
<1>5. epoll' = [epoll EXCEPT ![fd[c]] = IF down THEN NoEntry ELSE with] /\ fatal' = fatal
  <2>1. CASE index_[c] \in {"NEW", "DELETED"}
    <3>1. update("ADD", c, ev) /\ ~InSet(fd[c])
      BY <2>1, <1>1 DEF set, updateChannel
    <3> QED
      BY <2>1, <3>1, Accepted
  <2>2. CASE index_[c] = "ADDED" /\ ev = {}
    <3>1. set(c, {})
      BY <2>2
    <3>2. update("DEL", c, {})
      BY <2>2, <3>1 DEF set, updateChannel
    <3> QED
      BY <1>1, <2>2, <3>2, Accepted
  <2>3. CASE index_[c] = "ADDED" /\ ev # {}
    <3>1. PICK e \in ev : TRUE
      BY <2>3
    <3>2. update("MOD", c, ev)
      BY <2>3, <3>1 DEF set, updateChannel
    <3> QED
      BY <1>1, <2>3, <3>2, Accepted
  <2> QED
    BY <2>1, <2>2, <2>3 DEF Reg, RegTypes
<1>6. with \in Entry /\ with # NoEntry /\ with.ptr = c
  BY EntryIsOne DEF Entry
<1>7. RegTypes'
  <2>1. epoll' \in [Fds -> Entry \cup {NoEntry}]
    BY <1>1, <1>5, <1>6 DEF Reg, RegTypes
  <2>2. channels' \in [Fds -> Channels \cup {NoChannel}]
    BY <1>1, <1>4 DEF Reg, RegTypes
  <2> QED
    BY <2>1, <2>2, <1>2, <1>3 DEF Reg, RegTypes
<1>8. Table'
  <2>1. ASSUME NEW d \in Channels, Alive(d), index_'[d] # "NEW"
        PROVE  channels'[fd[d]] = d
    <3>1. CASE d = c
      BY <1>1, <1>4, <2>1, <3>1 DEF Reg, RegTypes, Table
    <3>2. CASE d # c
      BY <1>1, <1>3, <1>4, <2>1, <3>2 DEF Reg, RegTypes, Table
    <3> QED
      BY <3>1, <3>2
  <2>2. ASSUME NEW f \in Fds, channels'[f] # NoChannel
        PROVE  index_'[channels'[f]] # "NEW" /\ fd[channels'[f]] = f
    <3>1. CASE channels'[f] = c
      BY <1>1, <1>3, <1>4, <2>2, <3>1 DEF Reg, RegTypes, Table
    <3>2. CASE channels'[f] # c
      <4>1. channels'[f] = channels[f] /\ channels[f] \in Channels
        BY <1>1, <1>4, <2>2, <3>2 DEF Reg, RegTypes
      <4> QED
        BY <4>1, <1>3, <2>2, <3>2 DEF Reg, RegTypes, Table
    <3> QED
      BY <3>1, <3>2
  <2> QED
    BY <2>1, <2>2 DEF Table
<1>9. Kernel'
  <2>1. ASSUME NEW d \in Channels, Registered(d)'
        PROVE  epoll'[fd[d]] = [ptr |-> d, events |-> events_'[d]]
    <3>1. CASE d = c
      BY <1>1, <1>2, <1>3, <1>5, <2>1, <3>1 DEF Reg, RegTypes, Registered
    <3>2. CASE d # c
      <4>1. Registered(d) /\ fd[d] \in Fds /\ fd[d] # fd[c] /\ events_'[d] = events_[d]
        BY <1>1, <1>2, <1>3, <2>1, <3>2 DEF Reg, RegTypes, Registered
      <4> QED
        BY <4>1, <1>1, <1>5 DEF Reg, RegTypes, Kernel
    <3> QED
      BY <3>1, <3>2
  <2>2. ASSUME NEW f \in Fds, InSet(f)'
        PROVE  (/\ epoll[f].ptr \in Channels
                /\ Registered(epoll[f].ptr) /\ fd[epoll[f].ptr] = f)'
    <3>1. CASE f = fd[c]
      <4>1. epoll'[f] = with /\ ~down
        BY <1>1, <1>5, <2>2, <3>1 DEF Reg, RegTypes, InSet
      <4> QED
        BY <4>1, <1>3, <1>6, <3>1 DEF Reg, RegTypes, Registered, Alive
    <3>2. CASE f # fd[c]
      <4>1. epoll'[f] = epoll[f] /\ InSet(f)
        BY <1>1, <1>5, <2>2, <3>2 DEF Reg, RegTypes, InSet
      <4>2. /\ epoll[f].ptr \in Channels /\ epoll[f].ptr # c
            /\ Registered(epoll[f].ptr) /\ fd[epoll[f].ptr] = f
        BY <4>1, <3>2 DEF Reg, Kernel
      <4>3. Registered(epoll[f].ptr)'
        BY <4>1, <4>2, <1>3 DEF Reg, RegTypes, Registered, Alive
      <4> QED
        BY <4>1, <4>2, <4>3 DEF Registered, Alive
    <3> QED
      BY <3>1, <3>2
  <2> QED
    BY <2>1, <2>2 DEF Kernel, Registered, Alive
<1> QED
  BY <1>2, <1>3, <1>5, <1>7, <1>8, <1>9 DEF Reg

(* A channel that lives, and goes on living, is removed: its records go,   *)
(* which is fatal if there are none.                                       *)
LEMMA RegRemove ==
  ASSUME Reg, fatal \in BOOLEAN, NEW c \in Channels, Alive(c), removeChannel(c),
         fd' = fd, life' \in [Channels -> Lives],
         \A d \in Channels : Alive(d)' <=> Alive(d)
  PROVE  /\ Reg'
         /\ fatal' = (fatal \/ index_[c] = "NEW")
         /\ events_' = [events_ EXCEPT ![c] = {}]
         /\ index_' = [index_ EXCEPT ![c] = "NEW"]
<1> USE PollerAssumption
<1>1. /\ fd[c] \in Fds
      /\ (index_[c] = "ADDED") <=> InSet(fd[c])
      /\ \A d \in Channels : Alive(d) /\ d # c => fd[d] # fd[c]
  BY OwnEntry
<1>2. /\ channels' = [channels EXCEPT ![fd[c]] = NoChannel]
      /\ index_' = [index_ EXCEPT ![c] = "NEW"]
      /\ events_' = [events_ EXCEPT ![c] = {}]
  BY DEF removeChannel, erase
<1>3. /\ epoll' = [epoll EXCEPT ![fd[c]] = NoEntry]
      /\ fatal' = (fatal \/ index_[c] = "NEW")
  <2>1. CASE index_[c] = "ADDED"
    <3>1. update("DEL", c, {})
      BY <2>1 DEF removeChannel
    <3>2. epoll' = [epoll EXCEPT ![fd[c]] = NoEntry] /\ fatal' = fatal
      BY <1>1, <2>1, <3>1, Accepted
    <3> QED
      BY <2>1, <3>2
  <2>2. CASE index_[c] # "ADDED"
    <3>1. epoll[fd[c]] = NoEntry
      BY <1>1, <2>2 DEF InSet
    <3>2. epoll' = epoll /\ fatal' = (fatal \/ index_[c] = "NEW")
      BY <2>2 DEF removeChannel
    <3> QED
      BY <1>1, <3>1, <3>2 DEF Reg, RegTypes
  <2> QED
    BY <2>1, <2>2
<1>4. RegTypes'
  BY <1>1, <1>2, <1>3 DEF Reg, RegTypes
<1>5. ASSUME NEW d \in Channels, Alive(d), index_'[d] # "NEW"
      PROVE  d # c /\ index_'[d] = index_[d] /\ fd[d] # fd[c] /\ fd[d] \in Fds
  BY <1>1, <1>2, <1>5 DEF Reg, RegTypes
<1>6. Table'
  <2>1. \A d \in Channels : Alive(d) /\ index_'[d] # "NEW" => channels'[fd[d]] = d
    BY <1>1, <1>2, <1>5 DEF Reg, RegTypes, Table
  <2>2. ASSUME NEW f \in Fds, channels'[f] # NoChannel
        PROVE  index_'[channels'[f]] # "NEW" /\ fd[channels'[f]] = f
    <3>1. f # fd[c] /\ channels'[f] = channels[f] /\ channels[f] \in Channels
      BY <1>1, <1>2, <2>2 DEF Reg, RegTypes
    <3>2. fd[channels[f]] = f /\ index_[channels[f]] # "NEW"
      BY <2>2, <3>1 DEF Reg, Table
    <3> QED
      BY <1>2, <3>1, <3>2 DEF Reg, RegTypes
  <2> QED
    BY <2>1, <2>2 DEF Table
<1>7. Kernel'
  <2>1. ASSUME NEW d \in Channels, Registered(d)'
        PROVE  epoll'[fd[d]] = [ptr |-> d, events |-> events_'[d]]
    <3>1. Alive(d) /\ index_'[d] = "ADDED"
      BY <2>1 DEF Registered
    <3>2. d # c /\ Registered(d) /\ fd[d] # fd[c] /\ fd[d] \in Fds
      BY <3>1, <1>5 DEF Registered
    <3> QED
      BY <3>2, <1>1, <1>2, <1>3 DEF Reg, RegTypes, Kernel
  <2>2. ASSUME NEW f \in Fds, InSet(f)'
        PROVE  (/\ epoll[f].ptr \in Channels
                /\ Registered(epoll[f].ptr) /\ fd[epoll[f].ptr] = f)'
    <3>1. f # fd[c] /\ epoll'[f] = epoll[f] /\ InSet(f)
      BY <1>1, <1>3, <2>2 DEF Reg, RegTypes, InSet
    <3>2. /\ epoll[f].ptr \in Channels /\ epoll[f].ptr # c
          /\ Registered(epoll[f].ptr) /\ fd[epoll[f].ptr] = f
      BY <3>1 DEF Reg, Kernel
    <3> QED
      BY <3>1, <3>2, <1>2 DEF Reg, RegTypes, Registered, Alive
  <2> QED
    BY <2>1, <2>2 DEF Kernel, Registered, Alive
<1> QED
  BY <1>2, <1>3, <1>4, <1>6, <1>7 DEF Reg

(* The destructor: the kernel forgets the descriptor, which no other live  *)
(* channel has.                                                            *)
LEMMA RegGone ==
  ASSUME Reg, NEW c \in Channels, destroyed(c)
  PROVE  Reg'
<1> USE PollerAssumption
<1>1. Alive(c)
  BY DEF destroyed, Alive
<1>2. fd[c] \in Fds /\ \A d \in Channels : Alive(d) /\ d # c => fd[d] # fd[c]
  BY <1>1, OwnEntry
<1>3. /\ UNCHANGED <<fd, events_, index_, channels>>
      /\ epoll' = [epoll EXCEPT ![fd[c]] = NoEntry]
      /\ life' = [life EXCEPT ![c] = "gone"]
  BY DEF destroyed
<1>4. \A d \in Channels : Alive(d)' <=> Alive(d) /\ d # c
  BY <1>3 DEF Alive, Reg, RegTypes
<1>5. RegTypes'
  BY <1>2, <1>3, <1>4 DEF Reg, RegTypes, Lives
<1>6. Table'
  BY <1>3, <1>4 DEF Reg, Table
<1>7. Kernel'
  <2>1. ASSUME NEW d \in Channels, Registered(d)'
        PROVE  epoll'[fd[d]] = [ptr |-> d, events |-> events_[d]]
    <3>1. Registered(d) /\ fd[d] # fd[c] /\ fd[d] \in Fds
      BY <1>2, <1>3, <1>4, <2>1 DEF Registered, Reg, RegTypes
    <3> QED
      BY <3>1, <1>2, <1>3 DEF Reg, RegTypes, Kernel
  <2>2. ASSUME NEW f \in Fds, InSet(f)'
        PROVE  (/\ epoll[f].ptr \in Channels
                /\ Registered(epoll[f].ptr) /\ fd[epoll[f].ptr] = f)'
    <3>1. f # fd[c] /\ epoll'[f] = epoll[f] /\ InSet(f)
      BY <1>2, <1>3, <2>2 DEF Reg, RegTypes, InSet
    <3>2. /\ epoll[f].ptr \in Channels /\ epoll[f].ptr # c
          /\ Registered(epoll[f].ptr) /\ fd[epoll[f].ptr] = f
      BY <3>1 DEF Reg, Kernel
    <3> QED
      BY <3>1, <3>2, <1>3 DEF Reg, RegTypes, Registered, Alive
  <2> QED
    BY <1>3, <2>1, <2>2 DEF Kernel, Registered, Alive
<1> QED
  BY <1>5, <1>6, <1>7 DEF Reg

(* A new connection gets a descriptor that no live channel has, and that   *)
(* the kernel does not know any more.                                      *)
LEMMA RegBorn ==
  ASSUME Reg, NEW c \in Channels, NEW f \in Fds, newConnection(c, f),
         index_[c] = "NEW"
  PROVE  Reg'
<1> USE PollerAssumption
<1>1. /\ life[c] = "unborn"
      /\ life' = [life EXCEPT ![c] = "new"]
      /\ fd' = [fd EXCEPT ![c] = f]
      /\ UNCHANGED <<events_, index_, channels, epoll>>
  BY DEF newConnection, table
<1>2. \A d \in Channels : Alive(d) => fd[d] # f
  BY DEF newConnection, Used
<1>3. \A d \in Channels : Alive(d)' => d = c \/ Alive(d)
  BY <1>1 DEF Alive, Reg, RegTypes
<1>4. RegTypes'
  <2>1. \A d \in Channels : Alive(d)' => fd'[d] \in Fds
    BY <1>1, <1>3 DEF Reg, RegTypes
  <2>2. \A d, e \in Channels : Alive(d)' /\ Alive(e)' /\ fd'[d] = fd'[e] => d = e
    BY <1>1, <1>2, <1>3 DEF Reg, RegTypes
  <2> QED
    BY <2>1, <2>2, <1>1 DEF Reg, RegTypes, Lives
<1>5. ASSUME NEW d \in Channels, index_[d] # "NEW"
      PROVE  d # c /\ fd'[d] = fd[d] /\ life'[d] = life[d]
  BY <1>1, <1>5 DEF Reg, RegTypes
<1>6. Table'
  BY <1>1, <1>5 DEF Reg, RegTypes, Table, Alive
<1>7. Kernel'
  <2>1. \A d \in Channels : Registered(d)' => Registered(d) /\ fd'[d] = fd[d]
    BY <1>1, <1>5 DEF Registered, Alive
  <2>2. ASSUME NEW g \in Fds, InSet(g)'
        PROVE  (/\ epoll[g].ptr \in Channels
                /\ Registered(epoll[g].ptr) /\ fd[epoll[g].ptr] = g)'
    <3>1. /\ epoll[g].ptr \in Channels
          /\ Registered(epoll[g].ptr) /\ fd[epoll[g].ptr] = g
      BY <1>1, <2>2 DEF Reg, Kernel, InSet
    <3> QED
      BY <3>1, <1>1, <1>5 DEF Registered, Alive
  <2> QED
    BY <1>1, <2>1, <2>2 DEF Reg, Kernel, Registered, Alive
<1> QED
  BY <1>4, <1>6, <1>7 DEF Reg

------------------------------------------------------------------------------
(* The invariant.                                                          *)

(* Nothing is registered at first.                                         *)
LEMMA InvInit == Init => PollerInv
<1> USE PollerAssumption
<1> SUFFICES ASSUME Init PROVE PollerInv
  OBVIOUS
<1>1. RegTypes
  BY DEF Init, RegTypes, Alive, Lives
<1>2. IndexFollowsLife /\ Table /\ Kernel
  BY DEF Init, IndexFollowsLife, Table, Kernel, InSet, Registered, Alive
<1>3. Ends
  BY DEF Init, Ends, InTime, Lateness
<1>4. Handled /\ Rest
  BY DEF Init, Handled, Rest
<1> QED
  BY <1>1, <1>2, <1>3, <1>4 DEF PollerInv, Reg

(* What a poll takes for ready: every entry it reports has a bit, and is   *)
(* watched for it, but for EPOLLHUP.                                       *)
LEMMA PollReports ==
  ASSUME PollerInv, NEW F \in SUBSET Fds, poll(F)
  PROVE  \E ready \in [Reports -> SUBSET Fds] :
           /\ ready["in"] \subseteq Watching("in")
           /\ ready["hup"] \subseteq Watching("out") \ Watching("in")
           /\ F \subseteq Watching("in") \cup Watching("out")
           /\ \A f \in F : \E bit \in Reports : f \in ready[bit]
           /\ fillActiveChannel(F, ready)
<1>1. PICK writable \in SUBSET Watching("out"),
           hungUp \in SUBSET (Watching("out") \ Watching("in")) :
        LET ready == [bit \in Reports |->
                        CASE bit = "in" -> readable \cap Watching("in")
                          [] bit = "out" -> writable
                          [] bit = "hup" -> hungUp]
        IN /\ F \subseteq ready["in"] \cup writable \cup hungUp
           /\ fillActiveChannel(F, ready)
  BY DEF poll
<1> DEFINE ready == [bit \in Reports |->
                       CASE bit = "in" -> readable \cap Watching("in")
                         [] bit = "out" -> writable
                         [] bit = "hup" -> hungUp]
<1>2. /\ ready["in"] = readable \cap Watching("in")
      /\ ready["out"] = writable /\ ready["hup"] = hungUp
  BY DEF Reports, Bits
<1>3. F \subseteq ready["in"] \cup writable \cup hungUp /\ fillActiveChannel(F, ready)
  BY <1>1
<1>4. ready \in [Reports -> SUBSET Fds]
  BY DEF Reports, Bits, Watching
<1> HIDE DEF ready
<1>5. \A f \in F : \E bit \in Reports : f \in ready[bit]
  BY <1>2, <1>3 DEF Reports, Bits
<1> QED
  BY <1>2, <1>3, <1>4, <1>5

(* What is reported is in the kernel's set, and so up or late; input is    *)
(* reported for connections that are up, EPOLLHUP alone for late ones.     *)
LEMMA PollStep ==
  ASSUME PollerInv, NEW F \in SUBSET Fds, poll(F)
  PROVE  PollerInv'
<1> USE PollerAssumption
<1>1. /\ UNCHANGED <<life, late, fd, events_, index_, channels, epoll, fatal>>
      /\ UNCHANGED <<current, readable>>
  BY DEF poll, object, table
<1>2. Reg'
  BY <1>1 DEF PollerInv, Reg, RegTypes, Table, Kernel, Registered, Alive, InSet
<1>3. IndexFollowsLife' /\ Ends'
  BY <1>1 DEF PollerInv, IndexFollowsLife, Ends, InTime
<1>4. ASSUME NEW f \in Fds, NEW bit, bit \in epoll[f].events
      PROVE  LET c == epoll[f].ptr
             IN /\ c \in Channels /\ Usable(c) /\ bit \in events_[c]
                /\ epoll[f].events = events_[c]
  <2> DEFINE c == epoll[f].ptr
  <2>1. InSet(f)
    BY <1>4 DEF InSet, NoEntry
  <2>2. c \in Channels /\ Alive(c) /\ index_[c] = "ADDED" /\ fd[c] = f
    BY <2>1 DEF PollerInv, Reg, Kernel, Registered
  <2>3. epoll[f] = [ptr |-> c, events |-> events_[c]]
    BY <2>2 DEF PollerInv, Reg, Kernel, Registered
  <2>4. epoll[f].events = events_[c]
    BY <2>3
  <2> QED
    BY <1>4, <2>2, <2>4 DEF PollerInv, IndexFollowsLife, Usable
<1>5. PICK ready \in [Reports -> SUBSET Fds] :
        /\ ready["in"] \subseteq Watching("in")
        /\ ready["hup"] \subseteq Watching("out") \ Watching("in")
        /\ F \subseteq Watching("in") \cup Watching("out")
        /\ fillActiveChannel(F, ready)
  BY PollReports
<1>6. /\ active' = {epoll[f].ptr : f \in F}
      /\ revents_' = [c \in Channels |->
           {bit \in Reports : \E f \in F \cap ready[bit] : epoll[f].ptr = c}]
  BY <1>5 DEF fillActiveChannel
<1>7. ASSUME NEW c \in active' PROVE c \in Channels /\ Usable(c) /\ Heard(c)'
  <2>1. PICK f \in F : epoll[f].ptr = c
    BY <1>6, <1>7
  <2>2. c \in Channels /\ Usable(c)
    BY <1>4, <1>5, <2>1 DEF Watching
  <2>3. ASSUME "in" \in revents_'[c] PROVE life[c] = "up"
    <3>1. PICK g \in F \cap ready["in"] : epoll[g].ptr = c
      BY <1>6, <2>2, <2>3
    <3>2. "in" \in events_[c]
      BY <1>4, <1>5, <3>1 DEF Watching
    <3>3. InTime(c)
      BY <2>2, <3>2 DEF PollerInv, Ends
    <3> QED
      BY <2>2, <3>2, <3>3 DEF PollerInv, IndexFollowsLife
  <2>4. ASSUME "hup" \in revents_'[c] PROVE ~InTime(c)
    <3>1. PICK g \in F \cap ready["hup"] : epoll[g].ptr = c
      BY <1>6, <2>2, <2>4
    <3>2. "out" \in epoll[g].events /\ "in" \notin epoll[g].events
      BY <1>5, <3>1 DEF Watching
    <3>3. "in" \notin events_[c]
      BY <1>4, <3>1, <3>2
    <3> QED
      BY <2>2, <3>3 DEF PollerInv, IndexFollowsLife, Usable
  <2> QED
    BY <1>1, <2>2, <2>3, <2>4 DEF Heard, InTime
<1>8. revents_' \in [Channels -> SUBSET Reports]
  BY <1>6
<1>9. at' = "handle" /\ current' = NoChannel /\ active' \in SUBSET Channels
  BY <1>7 DEF poll, PollerInv, Handled
<1>10. Handled'
  BY <1>1, <1>7, <1>8, <1>9 DEF Handled, Usable, Alive, InTime
<1>11. size' \in Nat \ {0}
  BY DEF poll, grown, PollerInv, Rest
<1> QED
  BY <1>1, <1>2, <1>3, <1>10, <1>11 DEF PollerInv, Rest

(* Of a connection that is up, or late, the events change as sendInLoop    *)
(* and handleWrite change them.                                            *)
LEMMA EventsStep ==
  ASSUME PollerInv, NEW c \in Channels, Usable(c),
         NEW ev \in SUBSET Bits, "in" \in ev <=> "in" \in events_[c],
         set(c, ev), UNCHANGED <<life, late, fd>>
  PROVE  Reg' /\ IndexFollowsLife' /\ Ends'
<1> USE PollerAssumption
<1>1. Alive(c) /\ fatal \in BOOLEAN /\ life' \in [Channels -> Lives]
  BY DEF Usable, Alive, PollerInv, Reg, RegTypes, Ends
<1>2. \A d \in Channels : Alive(d)' <=> Alive(d)
  BY DEF Alive
<1>3. /\ Reg' /\ fatal' = fatal
      /\ events_' = [events_ EXCEPT ![c] = ev]
      /\ index_' = [index_ EXCEPT ![c] =
           IF index_[c] = "ADDED" /\ ev = {} THEN "DELETED" ELSE "ADDED"]
  BY <1>1, <1>2, RegSet DEF PollerInv
<1>4. IndexFollowsLife'
  <2>1. InTime(c) => life[c] = "up" /\ "in" \in ev
    BY DEF Usable, PollerInv, IndexFollowsLife
  <2>2. ASSUME NEW d \in Channels, InTime(d)'
        PROVE  InTime(d) /\ life'[d] = life[d]
    BY <2>2 DEF InTime
  <2>3. ASSUME NEW d \in Channels, InTime(d), d # c
        PROVE  index_'[d] = index_[d] /\ events_'[d] = events_[d]
    BY <1>3, <2>3 DEF PollerInv, Reg, RegTypes
  <2>4. InTime(c) => index_'[c] = "ADDED" /\ events_'[c] = ev
    BY <1>3, <2>1 DEF PollerInv, Reg, RegTypes
  <2> QED
    BY <2>1, <2>2, <2>3, <2>4 DEF PollerInv, IndexFollowsLife
<1>5. Ends'
  BY <1>3 DEF PollerInv, Ends, InTime, Reg, RegTypes
<1> QED
  BY <1>3, <1>4, <1>5

(* handleClose of a connection that is up, or a second one of a late one.  *)
LEMMA CloseStep ==
  ASSUME PollerInv, NEW c \in Channels, Usable(c), disableAll(c), fd' = fd,
         IF InTime(c) THEN life' = [life EXCEPT ![c] = "closed"] /\ UNCHANGED late
                      ELSE late' = [late EXCEPT ![c] = "closed"] /\ UNCHANGED life
  PROVE  Reg' /\ IndexFollowsLife' /\ Ends'
<1> USE PollerAssumption
<1>1. Alive(c) /\ fatal \in BOOLEAN /\ life' \in [Channels -> Lives]
  BY DEF Usable, Alive, PollerInv, Reg, RegTypes, Ends, Lives
<1>2. \A d \in Channels : Alive(d)' <=> Alive(d)
  BY <1>1 DEF Alive, PollerInv, Reg, RegTypes
<1>3. \A d \in Channels : InTime(d)' <=> InTime(d)
  BY DEF InTime, PollerInv, Ends
<1>4. set(c, {})
  BY DEF disableAll
<1>5. /\ Reg' /\ fatal' = fatal
      /\ events_' = [events_ EXCEPT ![c] = {}]
      /\ index_' = [index_ EXCEPT ![c] =
           IF index_[c] = "ADDED" /\ {} = {} THEN "DELETED" ELSE "ADDED"]
  BY <1>1, <1>2, <1>4, RegSet DEF PollerInv
<1>6. InTime(c) => index_[c] = "ADDED"
  BY DEF Usable, PollerInv, IndexFollowsLife
<1>7. IndexFollowsLife'
  <2>1. ASSUME NEW d \in Channels, InTime(d), d # c
        PROVE  /\ index_'[d] = index_[d] /\ events_'[d] = events_[d]
               /\ life'[d] = life[d]
    BY <1>5, <2>1 DEF PollerInv, Reg, RegTypes
  <2>2. InTime(c) => index_'[c] = "DELETED" /\ events_'[c] = {} /\ life'[c] = "closed"
    BY <1>5, <1>6 DEF PollerInv, Reg, RegTypes
  <2> QED
    BY <1>3, <2>1, <2>2 DEF PollerInv, IndexFollowsLife
<1>8. Ends'
  <2>1. late' \in [Channels -> Lateness]
    BY DEF PollerInv, Ends, Lateness
  <2>2. ASSUME NEW d \in Channels, ~InTime(d)
        PROVE  life'[d] = life[d] /\ "in" \notin events_'[d]
    BY <1>5, <2>2 DEF PollerInv, Ends, Reg, RegTypes
  <2> QED
    BY <1>3, <1>5, <2>1, <2>2 DEF PollerInv, Ends
<1> QED
  BY <1>5, <1>7, <1>8

(* connectDestroy of a connection that is up or closed, or once more of a  *)
(* late one, and then it may be fatal.                                     *)
LEMMA RemoveStep ==
  ASSUME PollerInv, NEW c \in Channels, removeChannel(c), fd' = fd,
         \/ /\ life[c] \in {"up", "closed"}
            /\ life' = [life EXCEPT ![c] = "removed"] /\ late' = late
         \/ /\ Alive(c) /\ ~InTime(c)
            /\ late' = [late EXCEPT ![c] = "removed"] /\ life' = life
  PROVE  Reg' /\ IndexFollowsLife' /\ Ends'
<1> USE PollerAssumption
<1>1. Alive(c) /\ fatal \in BOOLEAN /\ life' \in [Channels -> Lives]
  BY DEF Alive, PollerInv, Reg, RegTypes, Ends, Lives
<1>2. \A d \in Channels : Alive(d)' <=> Alive(d)
  BY <1>1 DEF Alive, PollerInv, Reg, RegTypes
<1>3. \A d \in Channels : InTime(d)' <=> InTime(d)
  BY DEF InTime, PollerInv, Ends
<1>4. /\ Reg'
      /\ fatal' = (fatal \/ index_[c] = "NEW")
      /\ events_' = [events_ EXCEPT ![c] = {}]
      /\ index_' = [index_ EXCEPT ![c] = "NEW"]
  BY <1>1, <1>2, RegRemove DEF PollerInv
<1>5. IndexFollowsLife'
  <2>1. ASSUME NEW d \in Channels, InTime(d), d # c
        PROVE  /\ index_'[d] = index_[d] /\ events_'[d] = events_[d]
               /\ life'[d] = life[d]
    BY <1>4, <2>1 DEF PollerInv, Reg, RegTypes
  <2>2. InTime(c) => index_'[c] = "NEW" /\ events_'[c] = {} /\ life'[c] = "removed"
    BY <1>4 DEF PollerInv, Reg, RegTypes
  <2> QED
    BY <1>3, <2>1, <2>2 DEF PollerInv, IndexFollowsLife
<1>6. Ends'
  <2>1. late' \in [Channels -> Lateness]
    BY DEF PollerInv, Ends, Lateness
  <2>2. ASSUME NEW d \in Channels, ~InTime(d)
        PROVE  /\ life'[d] \in {"closed", "removed", "gone"}
               /\ "in" \notin events_'[d]
    BY <1>4, <2>2 DEF PollerInv, Ends, Reg, RegTypes
  <2>3. fatal' => \E d \in Channels : ~InTime(d)
    <3>1. InTime(c) => index_[c] # "NEW"
      BY DEF PollerInv, IndexFollowsLife
    <3> QED
      BY <1>4, <3>1 DEF PollerInv, Ends
  <2>4. fatal' \in BOOLEAN
    BY <1>4 DEF PollerInv, Ends
  <2> QED
    BY <1>3, <2>1, <2>2, <2>3, <2>4 DEF PollerInv, Ends
<1> QED
  BY <1>4, <1>5, <1>6

(* The handlers of the current channel, which is up before its input or    *)
(* its end was handled, or late.                                           *)
LEMMA HandlerStep == PollerInv /\ Handler => PollerInv'
<1> USE PollerAssumption
<1> SUFFICES ASSUME PollerInv, Handler PROVE PollerInv'
  OBVIOUS
<1>1. /\ current \in Channels /\ at = "handle" /\ current \notin active
      /\ Usable(current) \/ life[current] = "closed"
      /\ Heard(current)
      /\ UNCHANGED <<fd, size, active, at>>
      /\ readable' \in SUBSET Fds
  BY DEF Handler, handleRead, handleClose, handleWrite, PollerInv, Handled, Rest
<1>2. ASSUME NEW bit, handled(bit)
      PROVE  /\ revents_' \in [Channels -> SUBSET Reports]
             /\ current' \in {current, NoChannel}
             /\ bit \notin revents_'[current]
             /\ \A b : b \in revents_'[current] => b \in revents_[current]
             /\ \A c \in Channels : c # current => revents_'[c] = revents_[c]
  BY <1>1, <1>2 DEF handled, PollerInv, Handled
<1>3. ASSUME NEW bit, handled(bit), UNCHANGED <<life, late>> PROVE Handled'
  <2>1. \A c \in active : c # current /\ c \in Channels
    BY <1>1 DEF PollerInv, Handled
  <2>2. \A c \in active : Usable(c)' /\ Heard(c)'
    BY <1>2, <1>3, <2>1 DEF PollerInv, Handled, Usable, Heard, Alive, InTime
  <2>3. current' # NoChannel => current' = current
    BY <1>2, <1>3
  <2>4. current' # NoChannel => (Usable(current) \/ life[current] = "closed")' /\ Heard(current)'
    BY <1>1, <1>2, <1>3, <2>3 DEF Usable, Heard, Alive, InTime
  <2> QED
    BY <1>1, <1>2, <1>3, <2>2, <2>4 DEF PollerInv, Handled
<1>4. ASSUME UNCHANGED <<life, late, events_, index_, table>>
      PROVE  Reg' /\ IndexFollowsLife' /\ Ends'
  BY <1>1, <1>4 DEF table, PollerInv, Reg, RegTypes, IndexFollowsLife, Ends,
     Table, Kernel, Registered, Alive, InTime, InSet
<1>5. CASE handleRead
  <2>1. UNCHANGED <<life, late>> /\ Handled'
    BY <1>3, <1>5 DEF handleRead
  <2>2. ASSUME NEW d \in Channels, life[d] = "up", enableWrite(d)
        PROVE  Reg' /\ IndexFollowsLife' /\ Ends'
    <3> DEFINE ev == events_[d] \cup {"out"}
    <3>1. ev \in SUBSET Bits /\ ("in" \in ev <=> "in" \in events_[d])
      BY DEF PollerInv, Reg, RegTypes, Bits
    <3>2. set(d, ev) /\ Usable(d)
      BY <2>2 DEF enableWrite, Usable
    <3> QED
      BY <1>1, <2>1, <3>1, <3>2, EventsStep
  <2> QED
    BY <1>1, <1>4, <1>5, <2>1, <2>2 DEF handleRead, PollerInv, Rest
<1>6. CASE handleWrite
  <2>1. UNCHANGED <<life, late>> /\ Handled'
    BY <1>3, <1>6 DEF handleWrite
  <2>2. ASSUME "out" \in events_[current], disableWrite(current)
        PROVE  Reg' /\ IndexFollowsLife' /\ Ends'
    <3> DEFINE ev == events_[current] \ {"out"}
    <3>1. ev \in SUBSET Bits /\ ("in" \in ev <=> "in" \in events_[current])
      BY <1>1 DEF PollerInv, Reg, RegTypes, Bits
    <3>2. Usable(current)
      <4>1. life[current] # "up" => ~InTime(current)
        BY <1>1, <2>2 DEF PollerInv, IndexFollowsLife
      <4> QED
        BY <1>1, <4>1 DEF Usable, Alive
    <3>3. set(current, ev)
      BY <2>2 DEF disableWrite
    <3> QED
      BY <1>1, <2>1, <3>1, <3>2, <3>3, EventsStep
  <2> QED
    BY <1>1, <1>4, <1>6, <2>1, <2>2 DEF handleWrite, PollerInv, Rest
<1>7. CASE handleClose
  <2>1. PICK bit \in {"hup", "in"} : bit \in revents_[current] /\ handled(bit)
    BY <1>7 DEF handleClose
  <2>2. Usable(current) /\ (InTime(current) => life[current] = "up" /\ bit = "in")
    BY <1>1, <2>1 DEF Usable, Heard, Alive
  <2>3. Reg' /\ IndexFollowsLife' /\ Ends'
    BY <1>1, <1>7, <2>2, CloseStep DEF handleClose
  <2>4. \A c \in active : c # current /\ c \in Channels
    BY <1>1 DEF PollerInv, Handled
  <2>5. \A c \in Channels : c # current => life'[c] = life[c] /\ late'[c] = late[c]
    BY <1>7 DEF handleClose, PollerInv, Reg, RegTypes, Ends
  <2>6. \A c \in active : Usable(c)' /\ Heard(c)'
    BY <1>2, <2>1, <2>4, <2>5 DEF PollerInv, Handled, Usable, Heard, Alive, InTime
  <2>7. (Usable(current) \/ life[current] = "closed") /\ Alive(current)
    BY <2>2 DEF Usable, Alive
  <2>8. current' # NoChannel => (Usable(current) \/ life[current] = "closed")' /\ Heard(current)'
    <3>1. current' # NoChannel => current' = current
      BY <1>2, <2>1
    <3>2. CASE InTime(current)
      <4>1. life'[current] = "closed" /\ late'[current] = "never"
        BY <1>1, <1>7, <3>2 DEF handleClose, InTime, PollerInv, Reg, RegTypes
      <4>2. "in" \notin revents_'[current] /\ "hup" \notin revents_'[current]
        BY <1>1, <1>2, <2>1, <2>2, <3>2 DEF Heard
      <4> QED
        BY <3>1, <4>1, <4>2 DEF Heard
    <3>3. CASE ~InTime(current)
      <4>1. life'[current] = life[current] /\ late'[current] = "closed"
        BY <1>1, <1>7, <3>3 DEF handleClose, PollerInv, Ends
      <4>2. life[current] # "up"
        BY <1>1, <3>3 DEF PollerInv, Ends
      <4>3. "in" \notin revents_'[current]
        BY <1>1, <1>2, <2>1, <4>2 DEF Heard
      <4> QED
        BY <2>7, <3>1, <4>1, <4>3 DEF Heard, Usable, Alive, InTime
    <3> QED
      BY <3>2, <3>3
  <2>9. Handled'
    BY <1>1, <1>2, <2>1, <2>6, <2>8 DEF PollerInv, Handled
  <2> QED
    BY <1>1, <1>7, <2>3, <2>9 DEF handleClose, PollerInv, Rest
<1> QED
  BY <1>5, <1>6, <1>7 DEF Handler

(* One step per action: the records by the lemma of its operation, the     *)
(* active channels by the lives that change.                               *)
LEMMA InvStep == PollerInv /\ [Next]_vars => PollerInv'
<1> USE PollerAssumption
<1> SUFFICES ASSUME PollerInv, [Next]_vars PROVE PollerInv'
  OBVIOUS
<1>1. ASSUME UNCHANGED <<object, table>> PROVE Reg' /\ IndexFollowsLife' /\ Ends'
  BY <1>1 DEF object, table, PollerInv, Reg, RegTypes, IndexFollowsLife, Ends, Table,
     Kernel, Registered, Alive, InTime, InSet
<1>2. ASSUME UNCHANGED <<active, current, revents_, at>>,
             \A c \in Channels :
               /\ Usable(c) => Usable(c)' \/ (c \notin active /\ c # current)
               /\ life[c] = "closed" => c # current \/ life'[c] = "closed"
               /\ life[c] = "up" => life'[c] = "up" \/ (c \notin active /\ c # current)
               /\ ~InTime(c) => ~InTime(c)'
      PROVE  Handled'
  <2>1. \A c \in active : c \in Channels /\ Usable(c) /\ Heard(c)
    BY DEF PollerInv, Handled
  <2>2. ASSUME NEW c \in active PROVE Usable(c)' /\ Heard(c)'
    <3>1. Usable(c)'
      BY <1>2, <2>1
    <3>2. Heard(c)'
      BY <1>2, <2>1 DEF Heard
    <3> QED
      BY <3>1, <3>2
  <2>3. current # NoChannel =>
          (Usable(current) \/ life[current] = "closed")' /\ Heard(current)'
    <3> SUFFICES ASSUME current # NoChannel
                 PROVE  (Usable(current) \/ life[current] = "closed")' /\ Heard(current)'
      OBVIOUS
    <3>1. current \in Channels /\ Heard(current)
      BY DEF PollerInv, Handled
    <3>2. Usable(current) \/ life[current] = "closed"
      BY DEF PollerInv, Handled
    <3> QED
      BY <1>2, <3>1, <3>2 DEF Heard, Usable, Alive, InTime
  <2> QED
    BY <1>2, <2>2, <2>3 DEF PollerInv, Handled
<1>3. ASSUME NEW F \in SUBSET Fds, poll(F) PROVE PollerInv'
  BY <1>3, PollStep
<1>4. ASSUME NEW c \in Channels, handleEvent(c) PROVE PollerInv'
  <2>1. Handled'
    BY <1>4 DEF handleEvent, object, PollerInv, Handled, Usable, Heard, Alive, InTime
  <2> QED
    BY <1>1, <1>4, <2>1 DEF handleEvent, PollerInv, Rest
<1>5. ASSUME NEW c \in Channels, connectEstablished(c) PROVE PollerInv'
  <2>1. InTime(c) /\ Alive(c) /\ index_[c] = "NEW" /\ events_[c] = {} /\ fatal \in BOOLEAN
    BY <1>5 DEF connectEstablished, Alive, PollerInv, Ends, IndexFollowsLife, Reg, RegTypes
  <2>2. /\ set(c, {"in"}) /\ {"in"} \in SUBSET Bits
        /\ life' = [life EXCEPT ![c] = "up"] /\ UNCHANGED <<late, fd>>
    <3>1. events_[c] \cup {"in"} = {"in"}
      BY <2>1
    <3> QED
      BY <1>5, <3>1 DEF connectEstablished, enableReading, Bits
  <2>3. \A d \in Channels : Alive(d)' <=> Alive(d)
    BY <2>1, <2>2 DEF Alive, PollerInv, Reg, RegTypes
  <2>4. life' \in [Channels -> Lives]
    BY <2>2 DEF Lives, PollerInv, Reg, RegTypes
  <2>5. /\ Reg' /\ fatal' = fatal
        /\ events_' = [events_ EXCEPT ![c] = {"in"}]
        /\ index_' = [index_ EXCEPT ![c] = "ADDED"]
    BY <2>1, <2>2, <2>3, <2>4, RegSet DEF PollerInv
  <2>6. IndexFollowsLife'
    <3>1. index_'[c] = "ADDED" /\ events_'[c] = {"in"} /\ life'[c] = "up"
      BY <2>2, <2>5 DEF PollerInv, Reg, RegTypes
    <3>2. ASSUME NEW d \in Channels, d # c
          PROVE  /\ index_'[d] = index_[d] /\ events_'[d] = events_[d]
                 /\ life'[d] = life[d] /\ (InTime(d)' <=> InTime(d))
      BY <2>2, <2>5, <3>2 DEF PollerInv, Reg, RegTypes, InTime
    <3> QED
      BY <3>1, <3>2 DEF PollerInv, IndexFollowsLife
  <2>7. Ends'
    BY <2>1, <2>2, <2>5 DEF PollerInv, Ends, InTime, Reg, RegTypes
  <2>8. Handled'
    BY <1>2, <1>5, <2>1, <2>2 DEF connectEstablished, loop, Usable, Alive, InTime,
       PollerInv, Reg, RegTypes
  <2> QED
    BY <1>5, <2>5, <2>6, <2>7, <2>8 DEF connectEstablished, loop, PollerInv, Rest
<1>6. ASSUME NEW c \in Channels, connectDestroy(c) PROVE PollerInv'
  <2>1. Reg' /\ IndexFollowsLife' /\ Ends'
    BY <1>6, RemoveStep DEF connectDestroy, inFunctor
  <2>2. Handled'
    BY <1>6 DEF connectDestroy, inFunctor, loop, PollerInv, Handled
  <2> QED
    BY <1>6, <2>1, <2>2 DEF connectDestroy, loop, PollerInv, Rest
<1>7. ASSUME NEW c \in Channels, connectDestroyAgain(c) PROVE PollerInv'
  <2>1. Reg' /\ IndexFollowsLife' /\ Ends'
    BY <1>7, RemoveStep DEF connectDestroyAgain, Alive, InTime
  <2>2. Handled'
    BY <1>7 DEF connectDestroyAgain, loop, PollerInv, Handled
  <2> QED
    BY <1>7, <2>1, <2>2 DEF connectDestroyAgain, loop, PollerInv, Rest
<1>8. ASSUME NEW c \in Channels, sendInLoop(c) PROVE PollerInv'
  <2> DEFINE ev == events_[c] \cup {"out"}
  <2>1. Usable(c) /\ set(c, ev) /\ UNCHANGED <<life, late, fd>>
    BY <1>8 DEF sendInLoop, enableWrite, Usable, InTime
  <2>2. ev \in SUBSET Bits /\ ("in" \in ev <=> "in" \in events_[c])
    BY DEF PollerInv, Reg, RegTypes, Bits
  <2>3. Reg' /\ IndexFollowsLife' /\ Ends'
    BY <2>1, <2>2, EventsStep
  <2>4. Handled'
    BY <1>8 DEF sendInLoop, loop, PollerInv, Handled
  <2> QED
    BY <1>8, <2>3, <2>4 DEF sendInLoop, loop, PollerInv, Rest
<1>9. ASSUME NEW c \in Channels, shutdown(c) PROVE PollerInv'
  <2>1. /\ c \in Outside /\ life[c] \in {"closed", "removed"} /\ InTime(c)
        /\ late' = [late EXCEPT ![c] = "set"]
        /\ UNCHANGED <<life, fd, events_, index_, channels, epoll, fatal>>
    BY <1>9 DEF shutdown, table
  <2>2. Reg'
    BY <2>1 DEF PollerInv, Reg, RegTypes, Table, Kernel, Registered, Alive, InSet
  <2>3. \A d \in Channels : InTime(d)' <=> InTime(d) /\ d # c
    BY <2>1 DEF InTime, PollerInv, Ends
  <2>4. IndexFollowsLife'
    BY <2>1, <2>3 DEF PollerInv, IndexFollowsLife
  <2>5. Ends'
    <3>1. late' \in [Channels -> Lateness]
      BY <2>1 DEF PollerInv, Ends, Lateness
    <3>2. "in" \notin events_[c]
      BY <2>1 DEF PollerInv, IndexFollowsLife
    <3> QED
      BY <2>1, <2>3, <3>1, <3>2 DEF PollerInv, Ends
  <2>6. Handled'
    BY <1>2, <1>9, <2>1, <2>3 DEF shutdown, loop, Usable, Alive
  <2> QED
    BY <1>9, <2>2, <2>4, <2>5, <2>6 DEF shutdown, loop, PollerInv, Rest
<1>10. ASSUME NEW c \in Channels, destroyed(c) PROVE PollerInv'
  <2>1. Reg'
    BY <1>10, RegGone DEF PollerInv
  <2>2. /\ life[c] = "removed" /\ life' = [life EXCEPT ![c] = "gone"]
        /\ InTime(c) \/ c \notin active \cup {current}
        /\ UNCHANGED <<late, fd, events_, index_, fatal, loop>>
    BY <1>10 DEF destroyed
  <2>3. IndexFollowsLife' /\ Ends'
    BY <2>2 DEF PollerInv, IndexFollowsLife, Ends, InTime, Reg, RegTypes
  <2>4. c \notin active /\ c # current
    BY <2>2 DEF PollerInv, Handled, Usable
  <2>5. Handled'
    BY <1>2, <2>2, <2>4 DEF loop, Usable, Alive, InTime, PollerInv, Reg, RegTypes
  <2>6. readable' \in SUBSET Fds
    BY <1>10 DEF destroyed, PollerInv, Rest
  <2> QED
    BY <2>1, <2>2, <2>3, <2>5, <2>6 DEF loop, PollerInv, Rest
<1>11. ASSUME NEW c \in Channels, NEW f \in Fds, newConnection(c, f) PROVE PollerInv'
  <2>1. /\ life[c] = "unborn" /\ life' = [life EXCEPT ![c] = "new"]
        /\ UNCHANGED <<late, events_, index_, fatal, loop>>
    BY <1>11 DEF newConnection, table
  <2>2. InTime(c) /\ index_[c] = "NEW"
    BY <2>1 DEF PollerInv, Ends, IndexFollowsLife, Reg, RegTypes
  <2>3. Reg'
    BY <1>11, <2>2, RegBorn DEF PollerInv
  <2>4. IndexFollowsLife' /\ Ends'
    BY <2>1, <2>2 DEF PollerInv, IndexFollowsLife, Ends, InTime, Reg, RegTypes
  <2>5. Handled'
    BY <1>2, <2>1, <2>2 DEF loop, Usable, Alive, InTime, PollerInv, Reg, RegTypes
  <2> QED
    BY <1>11, <2>1, <2>3, <2>4, <2>5 DEF newConnection, loop, PollerInv, Rest
<1>12. ASSUME goesOn PROVE PollerInv'
  <2>1. Handled'
    BY <1>12 DEF goesOn, object, PollerInv, Handled
  <2> QED
    BY <1>1, <1>12, <2>1 DEF goesOn, PollerInv, Rest
<1>13. ASSUME NEW f \in Fds, arrives(f) PROVE PollerInv'
  <2>1. Handled'
    BY <1>13, <1>2 DEF arrives, object, loop, Usable, Alive, InTime
  <2> QED
    BY <1>1, <1>13, <2>1 DEF arrives, loop, PollerInv, Rest
<1>14. CASE UNCHANGED vars
  <2>1. Handled'
    BY <1>14, <1>2 DEF vars, object, loop, Usable, Alive, InTime
  <2> QED
    BY <1>1, <1>14, <2>1 DEF vars, loop, PollerInv, Rest
<1> QED
  BY <1>3, <1>4, <1>5, <1>6, <1>7, <1>8, <1>9, <1>10, <1>11, <1>12, <1>13, <1>14,
     HandlerStep DEF Next

(* The invariant of the poller.                                            *)
THEOREM Invariant == Spec => []PollerInv
<1>1. Init => PollerInv
  BY InvInit
<1>2. PollerInv /\ [Next]_vars => PollerInv'
  BY InvStep
<1> QED
  BY <1>1, <1>2, PTL DEF Spec

(* The types, and which connections have a descriptor and are watched.     *)
THEOREM TypeCorrect == Spec => []TypeOK
<1>1. PollerInv => TypeOK
  BY InvGives
<1> QED
  BY <1>1, Invariant, PTL

(* The channel's index_, the poller's table and the kernel's set agree for *)
(* any number of connections and every reuse of descriptors.               *)
THEOREM RecordsAgree == Spec => []TableAgrees
<1>1. PollerInv => TableAgrees
  BY InvGives
<1> QED
  BY <1>1, Invariant, PTL

(* No handler runs on a channel that was destroyed.                        *)
THEOREM HandlersOnLive == Spec => []ActiveAlive
<1>1. PollerInv => ActiveAlive
  BY InvGives
<1> QED
  BY <1>1, Invariant, PTL

(* No epoll_ctl of the poller is refused and no channel is removed twice,  *)
(* where only the loop's own thread uses its connections.                  *)
THEOREM NoFatal ==
  ASSUME Outside = {}
  PROVE  Spec => []NeverFatal
<1>1. PollerInv => NeverFatal
  BY DEF PollerInv, Ends, NeverFatal
<1> QED
  BY <1>1, Invariant, PTL

(* With other threads too no epoll_ctl is refused, and the only channel    *)
(* that may be removed twice is one whose connection another thread shut   *)
(* down late.                                                              *)
THEOREM FatalIsLate == Spec => [](fatal => \E c \in Outside : late[c] # "never")
<1>1. PollerInv => (fatal => \E c \in Outside : late[c] # "never")
  BY DEF PollerInv, Ends, InTime
<1> QED
  BY <1>1, Invariant, PTL

(* The array of events is as it was, or at most half as large again as     *)
(* the number of descriptors: it grows only when it was full.              *)
THEOREM BoundedSize == Spec => []SizeBounded
<1> USE PollerAssumption
<1>1. Init => SizeBounded
  BY DEF Init, SizeBounded
<1>2. ASSUME PollerInv, SizeBounded, [Next]_vars PROVE SizeBounded'
  <2>1. CASE UNCHANGED size
    BY <1>2, <2>1 DEF SizeBounded
  <2>2. ASSUME NEW F \in SUBSET Fds, poll(F)
        PROVE  SizeBounded'
    <3>1. /\ Cardinality(F) \in Nat /\ Cardinality(Fds) \in Nat
          /\ Cardinality(F) <= Cardinality(Fds)
      BY FS_Subset, FS_CardinalityType
    <3>2. size \in Nat /\ size' = grown(Cardinality(F))
      BY <1>2, <2>2 DEF PollerInv, Rest, poll
    <3>3. CASE Cardinality(F) = size
      <4>1. size' = (size * 3) \div 2
        BY <3>2, <3>3 DEF grown
      <4>2. 2 * size' <= 3 * size
        BY <3>2, <4>1
      <4> QED
        BY <3>1, <3>2, <3>3, <4>1, <4>2 DEF SizeBounded
    <3>4. CASE Cardinality(F) # size
      BY <1>2, <3>2, <3>4 DEF grown, SizeBounded
    <3> QED
      BY <3>3, <3>4
  <2>3. Handler => UNCHANGED size
    BY DEF Handler, handleRead, handleClose, handleWrite
  <2> QED
    BY <1>2, <2>1, <2>2, <2>3 DEF Next, vars, loop, handleEvent, connectEstablished,
       connectDestroy, connectDestroyAgain, sendInLoop, shutdown, destroyed,
       newConnection, goesOn, arrives
<1> QED
  BY <1>1, <1>2, Invariant, PTL DEF Spec

------------------------------------------------------------------------------
(* The safety half of EveryInputRead.                                      *)

(* A channel that is to be handled has a bit to handle.                    *)
HasWork == /\ \A c \in active : revents_[c] # {}
           /\ current # NoChannel => revents_[current] # {}

(* The kernel reports input of a connection that is up, for its own        *)
(* channel, and no handleEvent is called, or goes on, for nothing, where   *)
(* the iteration would wait (EpollPoller.cc:74-106, 121-129,               *)
(* Channel.cc:58-93).                                                      *)
InputHeard ==
  /\ \A c \in Channels : life[c] = "up" =>
       epoll[fd[c]].ptr = c /\ "in" \in epoll[fd[c]].events
  /\ HasWork

LEMMA PollGivesWork ==
  ASSUME PollerInv, NEW F \in SUBSET Fds, poll(F)
  PROVE  HasWork'
<1> USE PollerAssumption
<1>1. current' = NoChannel
  BY DEF poll, PollerInv, Handled
<1>2. ASSUME NEW f \in F, epoll[f].ptr \in Channels PROVE revents_'[epoll[f].ptr] # {}
  <2>1. PICK ready \in [Reports -> SUBSET Fds] :
          /\ \A g \in F : \E bit \in Reports : g \in ready[bit]
          /\ fillActiveChannel(F, ready)
    BY PollReports
  <2>2. PICK bit \in Reports : f \in ready[bit]
    BY <2>1
  <2>3. bit \in revents_'[epoll[f].ptr]
    BY <1>2, <2>1, <2>2 DEF fillActiveChannel
  <2> QED
    BY <2>3
<1>3. active' = {epoll[f].ptr : f \in F} /\ active' \in SUBSET Channels
  BY PollStep DEF poll, fillActiveChannel, PollerInv, Handled
<1> QED
  BY <1>1, <1>2, <1>3 DEF HasWork

LEMMA WorkKept == PollerInv /\ HasWork /\ [Next]_vars => HasWork'
<1> SUFFICES ASSUME PollerInv, HasWork, [Next]_vars PROVE HasWork'
  OBVIOUS
<1> USE PollerAssumption
<1>1. ASSUME UNCHANGED <<active, current, revents_>> PROVE HasWork'
  BY <1>1 DEF HasWork
<1>2. ASSUME NEW c \in Channels, handleEvent(c) PROVE HasWork'
  BY <1>2 DEF handleEvent, HasWork, PollerInv, Handled
<1>3. ASSUME NEW bit, handled(bit), UNCHANGED active, current # NoChannel PROVE HasWork'
  <2>1. current \in Channels /\ current \notin active /\ revents_ \in [Channels -> SUBSET Reports]
    BY <1>3 DEF PollerInv, Handled
  <2>2. \A c \in active : c \in Channels /\ revents_'[c] = revents_[c]
    BY <1>3, <2>1 DEF handled, PollerInv, Handled
  <2>3. current' # NoChannel => current' = current /\ revents_[current] # {bit}
    BY <1>3 DEF handled
  <2>4. revents_'[current] = revents_[current] \ {bit}
    BY <1>3, <2>1 DEF handled
  <2>5. current' # NoChannel => revents_'[current] # {}
    BY <1>3, <2>3, <2>4 DEF HasWork
  <2> QED
    BY <1>3, <2>2, <2>3, <2>5 DEF HasWork
<1>4. CASE Handler
  BY <1>3, <1>4 DEF Handler, handleRead, handleClose, handleWrite
<1> QED
  BY <1>1, <1>2, <1>4, PollGivesWork DEF Next, vars, loop, connectEstablished,
     connectDestroy, connectDestroyAgain, sendInLoop, shutdown, destroyed,
     newConnection, goesOn, arrives

(* What is left of EveryInputRead is that the loop goes on, and that the   *)
(* kernel reports a descriptor that stays ready in its turn.               *)
THEOREM NoInputUnheard == Spec => []InputHeard
<1>1. Init => HasWork
  BY DEF Init, HasWork
<1>2. PollerInv /\ HasWork => InputHeard
  <2> SUFFICES ASSUME PollerInv, HasWork, NEW c \in Channels, life[c] = "up"
               PROVE  epoll[fd[c]].ptr = c /\ "in" \in epoll[fd[c]].events
    BY DEF InputHeard
  <2>1. InTime(c) /\ Alive(c)
    BY DEF PollerInv, Ends, Alive
  <2>2. index_[c] = "ADDED" /\ "in" \in events_[c]
    BY <2>1 DEF PollerInv, IndexFollowsLife
  <2>3. epoll[fd[c]] = [ptr |-> c, events |-> events_[c]]
    BY <2>1, <2>2 DEF PollerInv, Reg, Kernel, Registered
  <2> QED
    BY <2>2, <2>3
<1> QED
  BY <1>1, <1>2, WorkKept, Invariant, PTL DEF Spec
==============================================================================
