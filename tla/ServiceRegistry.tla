---------------------------- MODULE ServiceRegistry ----------------------------
(***************************************************************************)
(* Providers that register their methods in ZooKeeper, and callers that    *)
(* look them up: ZKClient (zookeeperutil.cc), RpcProvider::Run, and the    *)
(* first part of JhrpcChannel::CallMethod.                                 *)
(*                                                                         *)
(* A provider is one process; a restart is another process on the same     *)
(* host.  Every client of ZooKeeper has the thread that calls the API and  *)
(* the library's thread that keeps the session and calls global_watcher.   *)
(* One service stands for all: services share no path.                     *)
(***************************************************************************)
EXTENDS Naturals, FiniteSets

CONSTANTS
  Providers, Callers,
  Placements,   \* where providers may be: for each its rpcserverip and port
  Serves,       \* of a provider: the methods of its ServiceTypeMap
  Methods,
  Service,      \* the path of the service, parent of those of the methods
  NoNode,
  MaxConnects   \* of a client: bound on how often its session is connected

Clients == Providers \cup Callers
Paths == Methods \cup {Service}

ASSUME RegistryAssumption ==
  /\ Providers \cap Callers = {}
  /\ Service \notin Methods
  /\ NoNode \notin Providers
  /\ Serves \in [Providers -> SUBSET Methods]
  /\ \A h \in Placements : DOMAIN h = Providers
  /\ MaxConnects \in [Clients -> Nat \ {0}]

VARIABLES
  Host,      \* the placement of this behaviour, from the configuration files
  at,        \* where the thread that calls the API is
  session,   \* what ZooKeeper knows of the client's session
  connects,  \* how often it was connected
  context,   \* of the handle: none, start()'s semaphore, or where that was
  sem,       \* value of that semaphore
  todo,      \* of a provider: the paths it has still to create
  found,     \* history: what createNode came to for each path
  node,      \* per path, the client that created the node
  asked, answer,  \* of a caller: the method, whose address getData gave
  target     \* the provider it was connected to

start == <<at, session, connects, context, sem>>
lookups == <<asked, answer, target>>
world == <<Host, node>>
vars == <<start, todo, found, world, lookups>>

Starting == {"off", "bound", "init", "wait"}
ProviderPlaces == {"exists", "create", "listening"}
CallerPlaces == {"get", "connect", "returned"}

TypeOK ==
  /\ Host \in Placements
  /\ at \in [Clients -> Starting \cup ProviderPlaces \cup CallerPlaces
                        \cup {"ended"}]
  /\ session \in [Clients -> {"none", "connecting", "connected", "over"}]
  /\ connects \in [Clients -> Nat] /\ sem \in [Clients -> Nat]
  /\ \A p \in Clients : sem[p] <= connects[p] /\ connects[p] <= MaxConnects[p]
  /\ context \in [Clients -> {"null", "sem", "gone"}]
  /\ todo \in [Providers -> SUBSET Paths]
  /\ found \in [Providers -> [Paths -> {"no", "created", "kept", "error"}]]
  /\ node \in [Paths -> Providers \cup {NoNode}]
  /\ asked \in [Callers -> Methods \cup {NoNode}]
  /\ answer \in [Callers -> Providers \cup {NoNode}]
  /\ target \in [Callers -> Providers \cup {NoNode}]

Init ==
  /\ Host \in Placements
  /\ at = [p \in Clients |-> "off"]
  /\ session = [p \in Clients |-> "none"]
  /\ connects = [p \in Clients |-> 0]
  /\ context = [p \in Clients |-> "null"]
  /\ sem = [p \in Clients |-> 0]
  /\ todo = [p \in Providers |-> Serves[p] \cup {Service}]
  /\ found = [p \in Providers |-> [q \in Paths |-> "no"]]
  /\ node = [q \in Paths |-> NoNode]
  /\ asked = [c \in Callers |-> NoNode]
  /\ answer = [c \in Callers |-> NoNode]
  /\ target = [c \in Callers |-> NoNode]

------------------------------------------------------------------------------
(* ZKClient::start and global_watcher.                                     *)

go(p, from, to) == at[p] = from /\ at' = [at EXCEPT ![p] = to]
Alive(p) == at[p] \notin {"off", "ended", "returned"}
ends(p) == at' = [at EXCEPT ![p] = "ended"]

(* The TcpServer of Run() binds before anything is registered; a port that *)
(* is taken, or not free again yet, is a LOG_FATAL.                        *)
bindAnyway(p) ==                                                    \* mutant
  /\ at[p] = "off"
  /\ at' = [at EXCEPT ![p] = "bound"]
  /\ UNCHANGED <<session, connects, context, sem, todo, found, world, lookups>>

bind(p) ==
  /\ at[p] = "off"
  /\ \/ /\ \A q \in Providers : Host[q] = Host[p] => ~Alive(q)
        /\ at' = [at EXCEPT ![p] = "bound"]
     \/ ends(p)
  /\ UNCHANGED <<session, connects, context, sem, todo, found, world, lookups>>

zookeeper_init(p) ==
  /\ at[p] = IF p \in Providers THEN "bound" ELSE "off"
  /\ \/ /\ at' = [at EXCEPT ![p] = "init"]
        /\ session' = [session EXCEPT ![p] = "connecting"]
     \/ ends(p) /\ UNCHANGED session
  /\ UNCHANGED <<connects, context, sem, todo, found, world, lookups>>

zoo_set_context(p) ==
  /\ go(p, "init", "wait")
  /\ context' = [context EXCEPT ![p] = "sem"]
  /\ UNCHANGED <<session, connects, sem, todo, found, world, lookups>>

(* The semaphore is a local of start().                                    *)
sem_wait(p) ==
  /\ sem[p] > 0
  /\ go(p, "wait", IF p \in Providers THEN "exists" ELSE "get")
  /\ sem' = [sem EXCEPT ![p] = @ - 1]
  /\ context' = [context EXCEPT ![p] = "gone"]
  /\ UNCHANGED <<session, connects, todo, found, world, lookups>>

(* A post through no context is a crash; one through a context that is a   *)
(* dead stack frame overwrites what is there now.                          *)
post(p) ==
  \/ /\ context[p] = "sem"
     /\ sem' = [sem EXCEPT ![p] = @ + 1]
     /\ UNCHANGED at
  \/ /\ context[p] # "sem"
     /\ ends(p)
     /\ UNCHANGED sem
  \/ /\ context[p] = "gone"
     /\ UNCHANGED <<at, sem>>

postsReconnects(p, state) ==                                        \* mutant
  IF state = "connected" /\ connects[p] > 0 THEN post(p)
                                            ELSE UNCHANGED <<at, sem>>

(* Called by the library's thread with every change of the session.        *)
global_watcher(p, state) ==
  IF state = "connected" THEN post(p) ELSE UNCHANGED <<at, sem>>

connected(p) ==
  /\ Alive(p)
  /\ session[p] = "connecting" /\ connects[p] < MaxConnects[p]
  /\ session' = [session EXCEPT ![p] = "connected"]
  /\ connects' = [connects EXCEPT ![p] = @ + 1]
  /\ global_watcher(p, "connected")
  /\ UNCHANGED <<context, todo, found, world, lookups>>

(* The last connection of the bound stays.                                 *)
disconnected(p) ==
  /\ Alive(p)
  /\ session[p] = "connected" /\ connects[p] < MaxConnects[p]
  /\ session' = [session EXCEPT ![p] = "connecting"]
  /\ global_watcher(p, "connecting")
  /\ UNCHANGED <<connects, context, todo, found, world, lookups>>

------------------------------------------------------------------------------
(* ZooKeeper.                                                              *)

Ephemeral(q) == q # Service
keepsMethods(p) == UNCHANGED node                                   \* mutant
removed(p) ==
  node' = [q \in Paths |-> IF node[q] = p /\ Ephemeral(q) THEN NoNode
                                                          ELSE node[q]]

(* No heartbeat for the session's timeout: its client is dead or cannot be *)
(* reached.                                                                *)
expire(p) ==
  /\ \/ /\ at[p] = "ended" /\ session[p] \in {"connecting", "connected"}
        /\ UNCHANGED <<at, sem>>
     \/ /\ Alive(p) /\ session[p] = "connecting" /\ connects[p] > 0
        /\ global_watcher(p, "expired")
  /\ session' = [session EXCEPT ![p] = "over"]
  /\ removed(p)
  /\ UNCHANGED <<Host, connects, context, todo, found, lookups>>

(* A request is answered, or fails because the connection is lost.         *)
answers(p) == session[p] = "connected"
fails(p) == session[p] # "connected"

------------------------------------------------------------------------------
(* RpcProvider::Run.                                                       *)

(* The service before its methods, the methods in the order of a hash map. *)
nextPaths(p) == IF Service \in todo[p] THEN {Service} ELSE todo[p]

tick(p, q, what) ==
  /\ todo' = [todo EXCEPT ![p] = @ \ {q}]
  /\ found' = [found EXCEPT ![p][q] = what]

(* createNode, first half: only ZNONODE leads to a zoo_create.             *)
zoo_exists(p, q) ==
  /\ at[p] = "exists" /\ q \in nextPaths(p)
  /\ IF answers(p) /\ node[q] = NoNode
     THEN /\ at' = [at EXCEPT ![p] = "create"]
          /\ UNCHANGED <<todo, found>>
     ELSE /\ tick(p, q, IF answers(p) THEN "kept" ELSE "error")
          /\ UNCHANGED at
  /\ UNCHANGED <<session, connects, context, sem, world, lookups>>

ParentThere(q) == Ephemeral(q) => node[Service] # NoNode

(* Second half.  A method whose service has no node is refused.            *)
zoo_create(p, q) ==
  /\ at[p] = "create" /\ q \in nextPaths(p)
  /\ answers(p) /\ node[q] = NoNode /\ ParentThere(q)
  /\ node' = [node EXCEPT ![q] = p]
  /\ at' = [at EXCEPT ![p] = "exists"]
  /\ tick(p, q, "created")
  /\ UNCHANGED <<Host, session, connects, context, sem, lookups>>

goesOn(p, q) ==                                                     \* mutant
  /\ at[p] = "create" /\ q \in nextPaths(p)
  /\ at' = [at EXCEPT ![p] = "exists"]
  /\ todo' = [todo EXCEPT ![p] = @ \ {q}]
  /\ UNCHANGED <<session, connects, context, sem, found, world, lookups>>

(* exit(): the session is left to expire.  A create whose answer was lost  *)
(* may have been done.                                                     *)
createFails(p, q) ==
  /\ at[p] = "create" /\ q \in nextPaths(p)
  /\ \/ /\ answers(p) /\ (node[q] # NoNode \/ ~ParentThere(q))
        /\ UNCHANGED node
     \/ /\ fails(p)
        /\ UNCHANGED node
     \/ /\ session[p] = "connecting" /\ node[q] = NoNode /\ ParentThere(q)
        /\ node' = [node EXCEPT ![q] = p]
  /\ ends(p)
  /\ UNCHANGED <<Host, session, connects, context, sem, todo, found, lookups>>

(* server.start() and loop().                                              *)
listen(p) ==
  /\ todo[p] = {}
  /\ go(p, "exists", "listening")
  /\ UNCHANGED <<session, connects, context, sem, todo, found, world, lookups>>

crash(p) ==
  /\ Alive(p)
  /\ ends(p)
  /\ UNCHANGED <<session, connects, context, sem, todo, found, world, lookups>>

------------------------------------------------------------------------------
(* JhrpcChannel::CallMethod up to connect().                               *)

close(c) == session' = [session EXCEPT ![c] = "over"]

(* The destructor of the ZKClient closes the session when CallMethod       *)
(* returns, here and below.                                                *)
getData(c, m) ==
  /\ at[c] = "get"
  /\ asked' = [asked EXCEPT ![c] = m]
  /\ IF answers(c) /\ node[m] # NoNode
     THEN /\ answer' = [answer EXCEPT ![c] = node[m]]
          /\ at' = [at EXCEPT ![c] = "connect"]
          /\ UNCHANGED session
     ELSE /\ at' = [at EXCEPT ![c] = "returned"]
          /\ close(c)
          /\ UNCHANGED answer
  /\ UNCHANGED <<connects, context, sem, todo, found, world, target>>

connect(c) ==
  /\ go(c, "connect", "returned")
  /\ LET there == {q \in Providers : /\ at[q] = "listening"
                                     /\ Host[q] = Host[answer[c]]}
     IN IF there = {} THEN UNCHANGED target
        ELSE \E q \in there : target' = [target EXCEPT ![c] = q]
  /\ close(c)
  /\ UNCHANGED <<connects, context, sem, todo, found, world, asked, answer>>

------------------------------------------------------------------------------
Start(p) == zookeeper_init(p) \/ zoo_set_context(p) \/ sem_wait(p)

Network(p) == connected(p) \/ disconnected(p) \/ expire(p)

Run(p) ==
  \/ bind(p) \/ listen(p)
  \/ \E q \in Paths : zoo_exists(p, q) \/ zoo_create(p, q) \/ createFails(p, q)

CallMethod(c) == connect(c) \/ \E m \in Methods : getData(c, m)

Next == \/ \E p \in Clients : Start(p) \/ Network(p)
        \/ \E p \in Providers : Run(p) \/ crash(p)
        \/ \E c \in Callers : CallMethod(c)

Spec == Init /\ [][Next]_vars

(* Threads go on; a server that can be reached is connected to, and the    *)
(* session of a client that is gone expires.                               *)
Fairness ==
  /\ \A p \in Clients : WF_vars(Start(p)) /\ WF_vars(connected(p))
  /\ \A p \in Providers : /\ WF_vars(Run(p) /\ at[p] # "off")
                          /\ WF_vars(at[p] = "ended" /\ expire(p))
  /\ \A c \in Callers : WF_vars(CallMethod(c))

FairSpec == Spec /\ Fairness

------------------------------------------------------------------------------
(* Properties.                                                             *)

(* However sessions are lost and processes restarted, what callers read is *)
(* a directory: a provider enters methods only while it has a session, in  *)
(* nobody's place, and all its entries go when the session does            *)
(* (rpcprovider.cc:59-72, zookeeperutil.cc:74-96).                         *)
Listing == INSTANCE Directory
             WITH listed <- [m \in Methods |-> node[m]],
                  left <- {p \in Providers : session[p] = "over"}

ImplementsDirectory == Listing!Spec

(* No zoo_create of a method fails for want of the service's node, which   *)
(* is permanent and comes first, unless createNode took an error for a     *)
(* node that is there (rpcprovider.cc:59-63, zookeeperutil.cc:78-80).      *)
ParentFirst ==
  \A p \in Providers :
    at[p] = "create" /\ nextPaths(p) # {Service} =>
      node[Service] # NoNode \/ found[p][Service] = "error"

(* A provider that listens is listed for each of its methods as long as    *)
(* its session lives, unless createNode found a node there or got an error *)
(* for an answer, and went on all the same (zookeeperutil.cc:78-80).       *)
ListedOrWarned ==
  \A p \in Providers : \A m \in Serves[p] :
    /\ at[p] = "listening" /\ session[p] # "over" /\ node[m] # p
    => found[p][m] \in {"kept", "error"}

(* A caller is connected to a provider of the method it asked for, or to a *)
(* process that took the place of one that ended (jhRpcChannel.cc:70-113). *)
ConnectedServes ==
  \A c \in Callers :
    target[c] # NoNode => \/ asked[c] \in Serves[target[c]]
                          \/ at[answer[c]] = "ended"

(* start() returns, or the post of the watcher ended the process: no order *)
(* of the two threads leaves it in sem_wait (zookeeperutil.cc:35-72).      *)
StartReturns ==
  \A p \in Clients : at[p] \in {"init", "wait"} ~> at[p] \notin {"init", "wait"}
==============================================================================
