------------------------- MODULE ServiceRegistryProofs -------------------------
(***************************************************************************)
(* Proofs about ServiceRegistry, for any providers, callers, services,     *)
(* placements and any number of reconnections: what callers read refines   *)
(* the directory; a method's node never lacks its parent; a provider that  *)
(* listens is listed or went on after a warning; a caller is connected to  *)
(* a provider of its method.                                               *)
(***************************************************************************)
EXTENDS ServiceRegistry, TLAPS

(* A session is begun after the port is bound, and providers and callers   *)
(* keep to their places.                                                   *)
Places ==
  /\ \A p \in Clients : at[p] \in {"off", "bound"} => session[p] = "none"
  /\ \A p \in Providers : at[p] \notin CallerPlaces

(* What createNode came to agrees with the nodes there are.                *)
Created ==
  /\ \A p \in Providers : todo[p] \subseteq Serves[p] \cup {Service}
  /\ \A p \in Providers, q \in Paths :
       q \in Serves[p] \cup {Service} =>
         (found[p][q] = "no" <=> q \in todo[p])
  /\ \A p \in Providers :
       found[p][Service] \in {"created", "kept"} => node[Service] # NoNode
  /\ \A p \in Providers : \A m \in Serves[p] :
       found[p][m] = "created" => node[m] = p \/ session[p] = "over"
  /\ \A p \in Providers : at[p] = "listening" => todo[p] = {}

(* Where a caller has not asked yet.                                       *)
Early == Starting \cup {"get"}

(* Nobody binds a port that is in use, and only methods a provider serves  *)
(* are found under its name.                                               *)
Placed ==
  /\ \A p, q \in Providers : Alive(p) /\ Alive(q) /\ Host[p] = Host[q] => p = q
  /\ \A m \in Methods : node[m] # NoNode =>
       m \in Serves[node[m]] /\ at[node[m]] # "off"
  /\ \A c \in Callers :
       /\ at[c] \in Early => answer[c] = NoNode
       /\ at[c] = "connect" \/ target[c] # NoNode => answer[c] # NoNode
       /\ answer[c] # NoNode =>
            asked[c] \in Serves[answer[c]] /\ at[answer[c]] # "off"

RegistryInv == TypeOK /\ Places /\ Created /\ Placed /\ ConnectedServes

(* At first nothing is bound, registered or asked.                        *)
LEMMA RegistryInit == Init => RegistryInv
<1> SUFFICES ASSUME Init PROVE RegistryInv
  OBVIOUS
<1> USE RegistryAssumption
<1>1. TypeOK
  BY DEF Init, TypeOK, Starting, Paths, Clients
<1>2. Places /\ Placed /\ ConnectedServes
  BY DEF Init, Places, Placed, ConnectedServes, CallerPlaces, Alive, Paths, Clients,
     Early, Starting
<1>3. Created
  BY DEF Init, Created, Paths, Clients
<1> QED
  BY <1>1, <1>2, <1>3 DEF RegistryInv

(* What a change of at, session and the counts leaves as it was.           *)
LEMMA Keeps ==
  ASSUME RegistryInv, NEW p \in Clients, TypeOK',
         UNCHANGED <<todo, found, node, Host, asked, answer, target>>,
         \A q \in Clients : q # p => at'[q] = at[q] /\ session'[q] = session[q],
         at'[p] \in {"off", "bound"} => session'[p] = "none",
         p \in Providers => at'[p] \notin CallerPlaces,
         at'[p] = "listening" => at[p] = "listening",
         at'[p] = "connect" => at[p] = "connect",
         at'[p] = "off" => at[p] = "off",
         at'[p] \in Early => at[p] \in Early,
         at[p] = "ended" => at'[p] = "ended",
         session[p] = "over" => session'[p] = "over",
         p \in Providers /\ Alive(p)' => Alive(p)
  PROVE  RegistryInv'
<1> USE RegistryAssumption
<1>1. Places'
  BY DEF RegistryInv, Places, Clients
<1>2. Created'
  BY DEF RegistryInv, Created, Clients
<1>3. \A q \in Providers : Alive(q)' => Alive(q)
  BY DEF Alive, Clients
<1>4. Placed'
  <2>1. \A q \in Clients : at'[q] = "off" => at[q] = "off"
    OBVIOUS
  <2>2. \A m \in Methods : node[m] # NoNode => node[m] \in Clients
    BY DEF RegistryInv, TypeOK, Paths, Clients
  <2>3. \A c \in Callers : answer[c] # NoNode => answer[c] \in Clients
    BY DEF RegistryInv, TypeOK, Clients
  <2>4. \A c \in Callers : /\ at'[c] = "connect" => at[c] = "connect"
                           /\ at'[c] \in Early => at[c] \in Early
    BY DEF Clients
  <2> QED
    BY <1>3, <2>1, <2>2, <2>3, <2>4 DEF RegistryInv, Placed, Clients
<1>5. ConnectedServes'
  <2>1. \A q \in Clients : at[q] = "ended" => at'[q] = "ended"
    OBVIOUS
  <2> QED
    BY <2>1 DEF RegistryInv, ConnectedServes, Placed, TypeOK, Clients
<1> QED
  BY <1>1, <1>2, <1>4, <1>5 DEF RegistryInv

------------------------------------------------------------------------------
(* One lemma per group of actions.                                         *)

(* The steps of start() and of the session that touch no node.             *)
LEMMA StartKeeps ==
  ASSUME RegistryInv, NEW p \in Clients,
         Start(p) \/ connected(p) \/ disconnected(p) \/ (p \in Providers /\ crash(p))
  PROVE  RegistryInv'
<1> USE RegistryAssumption
<1>1. UNCHANGED <<todo, found, node, Host, asked, answer, target>>
  BY DEF Start, zookeeper_init, zoo_set_context, sem_wait, connected, disconnected,
     crash, world, lookups
<1>2. \A q \in Clients : q # p => at'[q] = at[q] /\ session'[q] = session[q]
  BY DEF Start, zookeeper_init, zoo_set_context, sem_wait, connected, disconnected,
     crash, go, ends, global_watcher, post, RegistryInv, TypeOK
<1>3. p \in Providers \/ p \in Callers
  BY DEF Clients
<1>4. TypeOK'
  <2>1. CASE zookeeper_init(p)
    <3>1. /\ UNCHANGED <<connects, context, sem, todo, found, world, lookups>>
          /\ \/ at' = [at EXCEPT ![p] = "init"]
             \/ at' = [at EXCEPT ![p] = "ended"]
          /\ \/ session' = [session EXCEPT ![p] = "connecting"]
             \/ session' = session
      BY <2>1 DEF zookeeper_init, ends
    <3>2. /\ at' \in [Clients -> Starting \cup ProviderPlaces \cup CallerPlaces
                                          \cup {"ended"}]
          /\ session' \in [Clients -> {"none", "connecting", "connected", "over"}]
      BY <3>1 DEF RegistryInv, TypeOK, Starting
    <3> QED
      BY <3>1, <3>2 DEF world, lookups, RegistryInv, TypeOK
  <2>2. CASE zoo_set_context(p)
    BY <2>2 DEF zoo_set_context, go, world, lookups, RegistryInv, TypeOK, Starting
  <2>3. CASE sem_wait(p)
    BY <2>3 DEF sem_wait, go, world, lookups, RegistryInv, TypeOK, Starting,
       ProviderPlaces, CallerPlaces, Early, Starting
  <2>4. CASE connected(p)
    <3>1. /\ session' = [session EXCEPT ![p] = "connected"]
          /\ connects' = [connects EXCEPT ![p] = connects[p] + 1]
          /\ connects[p] < MaxConnects[p]
          /\ at' = at \/ at' = [at EXCEPT ![p] = "ended"]
          /\ sem' = sem \/ sem' = [sem EXCEPT ![p] = sem[p] + 1]
          /\ UNCHANGED <<context, todo, found, world, lookups>>
      BY <2>4 DEF connected, global_watcher, post, ends
    <3>2. at' \in [Clients -> Starting \cup ProviderPlaces \cup CallerPlaces
                            \cup {"ended"}]
      BY <3>1 DEF RegistryInv, TypeOK
    <3>3. /\ sem' \in [Clients -> Nat] /\ connects' \in [Clients -> Nat]
          /\ \A q \in Clients : sem'[q] <= connects'[q] /\ connects'[q] <= MaxConnects[q]
      BY <3>1 DEF RegistryInv, TypeOK
    <3> QED
      BY <3>1, <3>2, <3>3 DEF world, lookups, RegistryInv, TypeOK
  <2>5. CASE disconnected(p)
    BY <2>5 DEF disconnected, global_watcher, world, lookups, RegistryInv, TypeOK
  <2>6. CASE crash(p)
    BY <2>6 DEF crash, ends, world, lookups, RegistryInv, TypeOK
  <2> QED
    BY <2>1, <2>2, <2>3, <2>4, <2>5, <2>6 DEF Start
<1>5. /\ at'[p] \in {"off", "bound"} => session'[p] = "none"
      /\ p \in Providers => at'[p] \notin CallerPlaces
      /\ at'[p] = "listening" => at[p] = "listening"
      /\ at'[p] = "connect" => at[p] = "connect"
      /\ at'[p] = "off" => at[p] = "off"
      /\ at'[p] \in Early => at[p] \in Early
      /\ at[p] = "ended" => at'[p] = "ended"
      /\ session[p] = "over" => session'[p] = "over"
  <2>1. CASE zookeeper_init(p)
    BY <2>1, <1>3 DEF zookeeper_init, ends, RegistryInv, TypeOK, Places, CallerPlaces,
       Early, Starting
  <2>2. CASE zoo_set_context(p)
    BY <2>2 DEF zoo_set_context, go, RegistryInv, TypeOK, Places, CallerPlaces, Early, Starting
  <2>3. CASE sem_wait(p)
    BY <2>3 DEF sem_wait, go, RegistryInv, TypeOK, Places, CallerPlaces, Early, Starting
  <2>4. CASE connected(p) \/ disconnected(p)
    BY <2>4 DEF connected, disconnected, global_watcher, post, ends, RegistryInv,
       TypeOK, Places, CallerPlaces, Early, Starting
  <2>5. CASE p \in Providers /\ crash(p)
    BY <2>5 DEF crash, ends, Alive, RegistryInv, TypeOK, Places, CallerPlaces, Early, Starting
  <2> QED
    BY <2>1, <2>2, <2>3, <2>4, <2>5 DEF Start
<1>6. p \in Providers /\ Alive(p)' => Alive(p)
  <2>1. CASE zookeeper_init(p)
    BY <2>1 DEF zookeeper_init, ends, Alive, RegistryInv, TypeOK
  <2>2. CASE zoo_set_context(p) \/ sem_wait(p)
    BY <2>2 DEF zoo_set_context, sem_wait, go, Alive, RegistryInv, TypeOK
  <2>3. CASE connected(p) \/ disconnected(p) \/ crash(p)
    BY <2>3 DEF connected, disconnected, crash
  <2> QED
    BY <2>1, <2>2, <2>3 DEF Start
<1> QED
  BY <1>1, <1>2, <1>4, <1>5, <1>6, Keeps

(* Run() binds the port: no other provider that is alive has it.           *)
LEMMA BindKeeps ==
  ASSUME RegistryInv, NEW p \in Providers, bind(p)
  PROVE  RegistryInv'
<1> USE RegistryAssumption
<1>1. /\ p \in Clients /\ at[p] = "off"
      /\ UNCHANGED <<session, connects, context, sem, todo, found, world, lookups>>
  BY DEF bind, Clients
<1>2. TypeOK'
  <2>1. at' = [at EXCEPT ![p] = "bound"] \/ at' = [at EXCEPT ![p] = "ended"]
    BY DEF bind, ends
  <2>2. at' \in [Clients -> Starting \cup ProviderPlaces \cup CallerPlaces
                          \cup {"ended"}]
    BY <1>1, <2>1 DEF RegistryInv, TypeOK, Starting
  <2> QED
    BY <1>1, <2>2 DEF world, lookups, RegistryInv, TypeOK
<1>3. CASE ends(p)
  <2>1. UNCHANGED <<todo, found, node, Host, asked, answer, target, session>>
    BY <1>1 DEF world, lookups
  <2>2. at'[p] = "ended" /\ \A q \in Clients : q # p => at'[q] = at[q]
    BY <1>1, <1>3 DEF ends, RegistryInv, TypeOK
  <2> QED
    BY <1>1, <1>2, <2>1, <2>2, Keeps DEF Alive, CallerPlaces, Early, Starting
<1>4. CASE /\ \A q \in Providers : Host[q] = Host[p] => ~Alive(q)
           /\ at' = [at EXCEPT ![p] = "bound"]
  <2>1. Places' /\ Created'
    BY <1>1, <1>4 DEF RegistryInv, TypeOK, Places, Created, CallerPlaces, Clients,
       world, lookups
  <2>2. \A q \in Clients : q # p => at'[q] = at[q]
    BY <1>4 DEF RegistryInv, TypeOK
  <2>3. /\ at'[p] = "bound" /\ UNCHANGED <<Host, node, asked, answer, target>>
    BY <1>1, <1>4 DEF RegistryInv, TypeOK, world, lookups
  <2>4. \A q \in Providers : Alive(q)' => q = p \/ Alive(q)
    BY <2>2 DEF Alive, Clients
  <2>5. \A q, r \in Providers :
          Alive(q)' /\ Alive(r)' /\ Host[q] = Host[r] => q = r
    BY <1>4, <2>4 DEF RegistryInv, Placed
  <2>6. \A q \in Providers : at[q] # "off" => at'[q] # "off"
    BY <2>2, <2>3 DEF Clients
  <2>7. /\ \A m \in Methods : node[m] \in Providers \cup {NoNode}
        /\ \A c \in Callers : answer[c] \in Providers \cup {NoNode} /\ c # p
    BY DEF RegistryInv, TypeOK, Paths
  <2>8. Placed'
    BY <2>2, <2>3, <2>5, <2>6, <2>7 DEF RegistryInv, Placed, Clients
  <2>9. ConnectedServes'
    BY <1>1, <2>2, <2>3, <2>7 DEF RegistryInv, ConnectedServes, Placed, Clients
  <2> QED
    BY <1>2, <2>1, <2>8, <2>9 DEF RegistryInv
<1> QED
  BY <1>3, <1>4 DEF bind

(* zoo_exists: a path is done with, or the provider goes on to create it.  *)
LEMMA ExistsKeeps ==
  ASSUME RegistryInv, NEW p \in Providers, NEW q \in Paths, zoo_exists(p, q)
  PROVE  RegistryInv'
<1> USE RegistryAssumption
<1>1. /\ p \in Clients /\ at[p] = "exists" /\ q \in todo[p]
      /\ UNCHANGED <<session, connects, context, sem, world, lookups>>
      /\ at' = at \/ at' = [at EXCEPT ![p] = "create"]
  BY DEF zoo_exists, Clients, nextPaths
<1> DEFINE what == IF answers(p) THEN "kept" ELSE "error"
<1>2. CASE UNCHANGED <<todo, found>> /\ at' = [at EXCEPT ![p] = "create"]
  <2>1. TypeOK'
    BY <1>1, <1>2 DEF RegistryInv, TypeOK, ProviderPlaces, world, lookups
  <2> QED
    <3>1. UNCHANGED <<todo, found, node, Host, asked, answer, target, session>>
      BY <1>1, <1>2 DEF world, lookups
    <3>2. at'[p] = "create" /\ \A r \in Clients : r # p => at'[r] = at[r]
      BY <1>1, <1>2 DEF RegistryInv, TypeOK
    <3> QED
      BY <1>1, <2>1, <3>1, <3>2, Keeps DEF CallerPlaces, Alive, Early, Starting
<1>3. CASE tick(p, q, what) /\ UNCHANGED at /\ ~(answers(p) /\ node[q] = NoNode)
  <2>1. /\ todo' = [todo EXCEPT ![p] = @ \ {q}]
        /\ found' = [found EXCEPT ![p][q] = what]
        /\ what \in {"kept", "error"} /\ (what = "kept" => node[q] # NoNode)
    BY <1>3 DEF tick
  <2> HIDE DEF what
  <2>2. /\ todo' \in [Providers -> SUBSET Paths]
        /\ found' \in [Providers -> [Paths -> {"no", "created", "kept", "error"}]]
    BY <2>1 DEF RegistryInv, TypeOK
  <2>3. TypeOK'
    BY <1>1, <1>3, <2>2 DEF RegistryInv, TypeOK, world, lookups
  <2>4. Places' /\ Placed' /\ ConnectedServes'
    BY <1>1, <1>3 DEF RegistryInv, Places, Placed, ConnectedServes, Alive, world, lookups
  <2>5. /\ \A r \in Providers, x \in Paths :
             found'[r][x] = IF r = p /\ x = q THEN what ELSE found[r][x]
        /\ \A r \in Providers, x \in Paths :
             x \in todo'[r] <=> x \in todo[r] /\ ~(r = p /\ x = q)
        /\ \A r \in Providers : todo'[r] \subseteq todo[r]
    BY <2>1 DEF RegistryInv, TypeOK
  <2>6. \A r \in Providers : Serves[r] \subseteq Paths /\ Service \in Paths
    BY DEF Paths
  <2>7. Created'
    BY <1>1, <1>3, <2>1, <2>5, <2>6 DEF RegistryInv, Created, world
  <2> QED
    BY <2>3, <2>4, <2>7 DEF RegistryInv
<1> QED
  BY <1>2, <1>3 DEF zoo_exists

(* Run() is done with every path, and listens.                             *)
LEMMA ListenKeeps ==
  ASSUME RegistryInv, NEW p \in Providers, listen(p)
  PROVE  RegistryInv'
<1> USE RegistryAssumption
<1>1. /\ p \in Clients /\ at[p] = "exists" /\ todo[p] = {}
      /\ at' = [at EXCEPT ![p] = "listening"]
      /\ UNCHANGED <<session, connects, context, sem, todo, found, world, lookups>>
  BY DEF listen, go, Clients
<1>2. TypeOK'
  BY <1>1 DEF RegistryInv, TypeOK, ProviderPlaces, world, lookups
<1>3. Places' /\ Created'
  BY <1>1 DEF RegistryInv, TypeOK, Places, Created, CallerPlaces, Clients, world
<1>4. \A q \in Clients : /\ Alive(q)' => Alive(q)
                         /\ at'[q] = "off" <=> at[q] = "off"
                         /\ at'[q] = "ended" <=> at[q] = "ended"
                         /\ at'[q] = "connect" <=> at[q] = "connect"
                         /\ at'[q] \in Early => at[q] \in Early
  BY <1>1 DEF Alive, RegistryInv, TypeOK, Early, Starting
<1>5. UNCHANGED <<Host, node, asked, answer, target>>
  BY <1>1 DEF world, lookups
<1>6. /\ \A m \in Methods : node[m] \in Providers \cup {NoNode}
      /\ \A c \in Callers : answer[c] \in Providers \cup {NoNode}
  BY DEF RegistryInv, TypeOK, Paths
<1>7. Placed' /\ ConnectedServes'
  BY <1>4, <1>5, <1>6 DEF RegistryInv, Placed, ConnectedServes, Clients
<1> QED
  BY <1>2, <1>3, <1>7 DEF RegistryInv

(* A node is created under the provider's name, or the create fails, and   *)
(* may have been done all the same.                                        *)
LEMMA CreateKeeps ==
  ASSUME RegistryInv, NEW p \in Providers, NEW q \in Paths,
         zoo_create(p, q) \/ createFails(p, q)
  PROVE  RegistryInv'
<1> USE RegistryAssumption
<1>1. /\ p \in Clients /\ at[p] = "create" /\ q \in todo[p]
      /\ UNCHANGED <<Host, session, connects, context, sem, lookups>>
      /\ node' = node \/ (node[q] = NoNode /\ node' = [node EXCEPT ![q] = p])
  BY DEF zoo_create, createFails, Clients, nextPaths
<1>2. /\ at' = [at EXCEPT ![p] = "exists"] \/ at' = [at EXCEPT ![p] = "ended"]
      /\ at'[p] \in {"exists", "ended"} /\ \A r \in Clients : r # p => at'[r] = at[r]
  BY <1>1 DEF zoo_create, createFails, ends, RegistryInv, TypeOK
<1>3. \/ UNCHANGED <<todo, found>>
      \/ /\ todo' = [todo EXCEPT ![p] = @ \ {q}]
         /\ found' = [found EXCEPT ![p][q] = "created"]
         /\ node' = [node EXCEPT ![q] = p]
  BY DEF zoo_create, createFails, tick
<1>4. TypeOK'
  <2>1. /\ todo' \in [Providers -> SUBSET Paths]
        /\ found' \in [Providers -> [Paths -> {"no", "created", "kept", "error"}]]
    <3>1. /\ todo \in [Providers -> SUBSET Paths]
          /\ found \in [Providers -> [Paths -> {"no", "created", "kept", "error"}]]
      BY DEF RegistryInv, TypeOK
    <3>2. found[p] \in [Paths -> {"no", "created", "kept", "error"}]
      BY <3>1
    <3>3. [found[p] EXCEPT ![q] = "created"]
            \in [Paths -> {"no", "created", "kept", "error"}]
      BY <3>2
    <3>4. /\ [todo EXCEPT ![p] = todo[p] \ {q}] \in [Providers -> SUBSET Paths]
          /\ [found EXCEPT ![p] = [found[p] EXCEPT ![q] = "created"]]
               \in [Providers -> [Paths -> {"no", "created", "kept", "error"}]]
      BY <3>1, <3>3
    <3>5. CASE UNCHANGED <<todo, found>>
      BY <3>1, <3>5
    <3>6. CASE /\ todo' = [todo EXCEPT ![p] = todo[p] \ {q}]
               /\ found' = [found EXCEPT ![p] = [found[p] EXCEPT ![q] = "created"]]
      BY <3>4, <3>6
    <3> QED
      BY <1>3, <3>5, <3>6
  <2>2. node' \in [Paths -> Providers \cup {NoNode}]
    BY <1>1 DEF RegistryInv, TypeOK
  <2>3. at' \in [Clients -> Starting \cup ProviderPlaces \cup CallerPlaces
                          \cup {"ended"}]
    BY <1>2 DEF RegistryInv, TypeOK, ProviderPlaces
  <2> QED
    BY <1>1, <2>1, <2>2, <2>3 DEF RegistryInv, TypeOK, lookups
<1>5. Places'
  BY <1>1, <1>2 DEF RegistryInv, Places, CallerPlaces, Clients
<1>6. \A x \in Paths : node'[x] = node[x] \/ (x = q /\ node[q] = NoNode /\ node'[q] = p)
  BY <1>1 DEF RegistryInv, TypeOK
<1>7. Created'
  <2>1. \A r \in Providers, x \in Paths :
          /\ \/ found'[r][x] = found[r][x] /\ (x \in todo'[r] <=> x \in todo[r])
             \/ r = p /\ x = q /\ found'[r][x] = "created" /\ x \notin todo'[r]
                /\ node'[x] = p
    BY <1>3 DEF RegistryInv, TypeOK
  <2>2. \A r \in Providers : todo'[r] \subseteq todo[r]
    BY <1>3 DEF RegistryInv, TypeOK
  <2>3. \A r \in Providers : Serves[r] \subseteq Methods /\ Serves[r] \subseteq Paths
    BY DEF Paths
  <2>4. Service \in Paths /\ p # NoNode
    BY DEF Paths
  <2>5. \A r \in Providers : at'[r] = "listening" => at[r] = "listening"
    BY <1>2 DEF Clients
  <2>6. /\ \A r \in Providers : todo'[r] \subseteq Serves[r] \cup {Service}
        /\ \A r \in Providers : at'[r] = "listening" => todo'[r] = {}
    BY <2>2, <2>5 DEF RegistryInv, Created
  <2>7. \A r \in Providers, x \in Paths :
          x \in Serves[r] \cup {Service} => (found'[r][x] = "no" <=> x \in todo'[r])
    BY <2>1 DEF RegistryInv, Created
  <2>8. \A r \in Providers :
          found'[r][Service] \in {"created", "kept"} => node'[Service] # NoNode
    BY <2>1, <2>4, <1>6 DEF RegistryInv, Created
  <2>9. \A r \in Providers : \A m \in Serves[r] :
          found'[r][m] = "created" => node'[m] = r \/ session'[r] = "over"
    BY <2>1, <2>3, <1>1, <1>6 DEF RegistryInv, Created
  <2> QED
    BY <2>6, <2>7, <2>8, <2>9 DEF Created
<1>8. Placed' /\ ConnectedServes'
  <2>1. UNCHANGED <<Host, asked, answer, target>>
    BY <1>1 DEF lookups
  <2>2. \A r \in Clients : /\ Alive(r)' => Alive(r)
                           /\ at'[r] = "off" => at[r] = "off"
                           /\ at[r] = "ended" => at'[r] = "ended"
                           /\ at'[r] = "connect" => at[r] = "connect"
                           /\ at'[r] \in Early => at[r] \in Early
    BY <1>1, <1>2 DEF Alive, Early, Starting
  <2>3. /\ \A m \in Methods : m \in Paths /\ node[m] \in Providers \cup {NoNode}
        /\ \A c \in Callers : answer[c] \in Providers \cup {NoNode}
    BY DEF RegistryInv, TypeOK, Paths
  <2>4. q \in Methods => q \in Serves[p]
    BY <1>1 DEF RegistryInv, Created
  <2>5. at'[p] # "off"
    BY <1>2
  <2>6. \A m \in Methods : node'[m] # NoNode =>
          m \in Serves[node'[m]] /\ at'[node'[m]] # "off"
    BY <1>6, <2>2, <2>3, <2>4, <2>5 DEF RegistryInv, Placed, Clients
  <2> QED
    BY <2>1, <2>2, <2>3, <2>6 DEF RegistryInv, Placed, ConnectedServes, Clients
<1> QED
  BY <1>4, <1>5, <1>7, <1>8 DEF RegistryInv

(* ZooKeeper ends a session: its ephemeral nodes go.                       *)
LEMMA ExpireKeeps ==
  ASSUME RegistryInv, NEW p \in Clients, expire(p)
  PROVE  RegistryInv'
<1> USE RegistryAssumption
<1>1. /\ at[p] \notin {"off", "bound"}
      /\ session' = [session EXCEPT ![p] = "over"]
      /\ removed(p)
      /\ UNCHANGED <<at, sem, Host, connects, context, todo, found, lookups>>
  BY DEF expire, global_watcher, RegistryInv, Places
<1>2. \A x \in Paths :
        node'[x] = IF node[x] = p /\ x # Service THEN NoNode ELSE node[x]
  BY <1>1 DEF removed, Ephemeral
<1>3. TypeOK'
  <2>1. node' \in [Paths -> Providers \cup {NoNode}]
    BY <1>1 DEF removed, RegistryInv, TypeOK
  <2>2. session' \in [Clients -> {"none", "connecting", "connected", "over"}]
    BY <1>1 DEF RegistryInv, TypeOK
  <2> QED
    BY <1>1, <2>1, <2>2 DEF RegistryInv, TypeOK, lookups
<1>4. \A r \in Clients : session'[r] = IF r = p THEN "over" ELSE session[r]
  BY <1>1 DEF RegistryInv, TypeOK
<1>5. Places'
  BY <1>1, <1>4 DEF RegistryInv, Places, Clients
<1>6. Created'
  <2>1. \A r \in Providers : Serves[r] \subseteq Methods /\ Service \notin Serves[r]
    OBVIOUS
  <2>2. \A r \in Providers :
          found'[r][Service] \in {"created", "kept"} => node'[Service] # NoNode
    BY <1>1, <1>2 DEF RegistryInv, Created, Paths
  <2>3. \A r \in Providers : \A m \in Serves[r] :
          found'[r][m] = "created" => node'[m] = r \/ session'[r] = "over"
    BY <1>1, <1>2, <1>4, <2>1 DEF RegistryInv, Created, Paths, Clients
  <2> QED
    BY <1>1, <2>2, <2>3 DEF RegistryInv, Created
<1>7. Placed' /\ ConnectedServes'
  BY <1>1, <1>2 DEF RegistryInv, Placed, ConnectedServes, Alive, lookups, Paths
<1> QED
  BY <1>3, <1>5, <1>6, <1>7 DEF RegistryInv

(* The caller takes the address it finds, and connects to whoever listens  *)
(* there.                                                                  *)
LEMMA CallKeeps ==
  ASSUME RegistryInv, NEW c \in Callers, CallMethod(c)
  PROVE  RegistryInv'
<1> USE RegistryAssumption
<1>1. /\ c \in Clients /\ c \notin Providers
      /\ at[c] \in {"get", "connect"}
      /\ \/ at' = [at EXCEPT ![c] = "connect"]
         \/ at' = [at EXCEPT ![c] = "returned"]
      /\ session' = session \/ session' = [session EXCEPT ![c] = "over"]
      /\ UNCHANGED <<connects, context, sem, todo, found, world>>
  BY DEF CallMethod, getData, connect, close, go, Clients
<1>2. /\ at'[c] \in {"connect", "returned"}
      /\ \A r \in Clients : r # c => at'[r] = at[r] /\ session'[r] = session[r]
      /\ at' \in [Clients -> Starting \cup ProviderPlaces \cup CallerPlaces
                             \cup {"ended"}]
      /\ session' \in [Clients -> {"none", "connecting", "connected", "over"}]
  BY <1>1 DEF RegistryInv, TypeOK, CallerPlaces
<1>3. /\ asked' \in [Callers -> Methods \cup {NoNode}]
      /\ answer' \in [Callers -> Providers \cup {NoNode}]
      /\ target' \in [Callers -> Providers \cup {NoNode}]
  <2>1. ASSUME NEW m \in Methods, getData(c, m)
        PROVE  /\ asked' \in [Callers -> Methods \cup {NoNode}]
               /\ answer' \in [Callers -> Providers \cup {NoNode}]
               /\ target' = target
    BY <2>1 DEF getData, RegistryInv, TypeOK, Paths
  <2>2. CASE connect(c)
    BY <2>2 DEF connect, RegistryInv, TypeOK
  <2> QED
    BY <2>1, <2>2 DEF CallMethod, RegistryInv, TypeOK
<1>4. TypeOK'
  BY <1>1, <1>2, <1>3 DEF RegistryInv, TypeOK, world
<1>5. Places' /\ Created'
  BY <1>1, <1>2 DEF RegistryInv, Places, Created, Clients, world
<1>6. \A r \in Providers : (Alive(r)' <=> Alive(r)) /\ at'[r] = at[r]
  BY <1>1, <1>2 DEF Alive, Clients
<1>7. /\ \A m \in Methods : node[m] \in Providers \cup {NoNode}
      /\ \A b \in Callers : answer[b] \in Providers \cup {NoNode}
      /\ UNCHANGED <<Host, node>>
  BY <1>1 DEF RegistryInv, TypeOK, Paths, world
<1>8. ASSUME NEW m \in Methods, getData(c, m)
      PROVE  Placed' /\ ConnectedServes'
  <2>1. answer[c] = NoNode /\ target[c] = NoNode /\ UNCHANGED target
    BY <1>8 DEF getData, RegistryInv, Placed, Early
  <2>2. /\ asked'[c] = m
        /\ \/ at'[c] = "connect" /\ node[m] # NoNode /\ answer'[c] = node[m]
           \/ at'[c] = "returned" /\ answer'[c] = NoNode
        /\ \A b \in Callers : b # c => asked'[b] = asked[b] /\ answer'[b] = answer[b]
    BY <1>1, <1>8, <2>1 DEF getData, RegistryInv, TypeOK
  <2>3. \A b \in Callers : b # c => at'[b] = at[b]
    BY <1>2 DEF Clients
  <2>4. Placed'
    BY <1>6, <1>7, <2>1, <2>2, <2>3 DEF RegistryInv, Placed, Early, Starting
  <2>5. ConnectedServes'
    BY <1>6, <1>7, <2>1, <2>2, <2>3 DEF RegistryInv, ConnectedServes, Placed
  <2> QED
    BY <2>4, <2>5
<1>9. ASSUME connect(c)
      PROVE  Placed' /\ ConnectedServes'
  <2>1. /\ at[c] = "connect" /\ at'[c] = "returned" /\ UNCHANGED <<asked, answer>>
        /\ \A b \in Callers : b # c => at'[b] = at[b]
    BY <1>1, <1>2, <1>9 DEF connect, go, RegistryInv, TypeOK, Clients
  <2>2. \A b \in Callers : b # c => target'[b] = target[b]
    BY <1>9 DEF connect, RegistryInv, TypeOK
  <2>3. answer[c] # NoNode /\ answer[c] \in Providers
        /\ asked[c] \in Serves[answer[c]] /\ at[answer[c]] # "off"
    BY <1>7, <2>1 DEF RegistryInv, Placed
  <2>4. \/ target'[c] = target[c]
        \/ \E q \in Providers : /\ at[q] = "listening" /\ Host[q] = Host[answer[c]]
                                /\ target'[c] = q
    BY <1>9 DEF connect, RegistryInv, TypeOK
  <2>5. ASSUME NEW q \in Providers, at[q] = "listening", Host[q] = Host[answer[c]]
        PROVE  asked[c] \in Serves[q] \/ at[answer[c]] = "ended"
    <3>1. CASE Alive(answer[c])
      BY <2>3, <2>5, <3>1 DEF RegistryInv, Placed, Alive
    <3>2. CASE ~Alive(answer[c])
      BY <2>3, <3>2 DEF RegistryInv, Places, Alive, CallerPlaces
    <3> QED
      BY <3>1, <3>2
  <2>6. Placed'
    BY <1>6, <1>7, <2>1, <2>2, <2>3 DEF RegistryInv, Placed, Early, Starting
  <2>7. ConnectedServes'
    BY <1>6, <1>7, <2>1, <2>2, <2>3, <2>4, <2>5 DEF RegistryInv, ConnectedServes, Placed
  <2> QED
    BY <2>6, <2>7
<1>10. Placed' /\ ConnectedServes'
  BY <1>8, <1>9 DEF CallMethod
<1> QED
  BY <1>4, <1>5, <1>10 DEF RegistryInv

(* Every step keeps the invariant.                                         *)
LEMMA RegistryStep == RegistryInv /\ [Next]_vars => RegistryInv'
<1>1. RegistryInv /\ UNCHANGED vars => RegistryInv'
  BY DEF vars, start, world, lookups, RegistryInv, TypeOK, Places, Created, Placed,
     ConnectedServes, Alive
<1>2. Providers \subseteq Clients
  BY DEF Clients
<1> QED
  BY <1>1, <1>2, StartKeeps, BindKeeps, ExistsKeeps, ListenKeeps, CreateKeeps,
     ExpireKeeps, CallKeeps DEF Next, Network, Run

(* The invariant of the registry.                                          *)
THEOREM RegistryInvariant == Spec => []RegistryInv
BY RegistryInit, RegistryStep, PTL DEF Spec

(* A semaphore is posted at most once per connection, and every client,    *)
(* node and answer is one of those there are.                              *)
THEOREM RegistryTypeCorrect == Spec => []TypeOK
<1>1. RegistryInv => TypeOK
  BY DEF RegistryInv
<1> QED
  BY <1>1, RegistryInvariant, PTL

(* A method's node is created under a service that has one.                *)
THEOREM ParentIsFirst == Spec => []ParentFirst
<1>1. RegistryInv => ParentFirst
  BY RegistryAssumption DEF RegistryInv, TypeOK, Created, ParentFirst, nextPaths, Paths
<1> QED
  BY <1>1, RegistryInvariant, PTL

(* A provider that listens is listed, or was warned.                       *)
THEOREM ListensListed == Spec => []ListedOrWarned
<1>1. RegistryInv => ListedOrWarned
  <2> SUFFICES ASSUME RegistryInv, NEW p \in Providers, NEW m \in Serves[p],
                      at[p] = "listening", session[p] # "over", node[m] # p
               PROVE  found[p][m] \in {"kept", "error"}
    BY DEF ListedOrWarned
  <2>1. m \in Paths
    BY RegistryAssumption DEF Paths
  <2>2. found[p][m] \in {"no", "created", "kept", "error"}
    BY <2>1 DEF RegistryInv, TypeOK
  <2>3. todo[p] = {}
    BY DEF RegistryInv, Created
  <2> QED
    BY <2>1, <2>2, <2>3 DEF RegistryInv, Created
<1> QED
  BY <1>1, RegistryInvariant, PTL

(* A caller reaches a provider of its method, or one in the place of it.   *)
THEOREM ReachesProvider == Spec => []ConnectedServes
<1>1. RegistryInv => ConnectedServes
  BY DEF RegistryInv
<1> QED
  BY <1>1, RegistryInvariant, PTL
------------------------------------------------------------------------------
(* The safety half of StartReturns.                                        *)

(* The watcher has no semaphore before zoo_set_context; while start() waits *)
(* every connection has posted to it, and the first is still to come if    *)
(* there was none.                                                         *)
Awaited(p) ==
  /\ at[p] \in {"off", "bound", "init"} =>
       context[p] = "null" /\ connects[p] = 0 /\ sem[p] = 0
  /\ at[p] = "init" => session[p] = "connecting"
  /\ at[p] = "wait" =>
       /\ context[p] = "sem" /\ sem[p] = connects[p]
       /\ connects[p] = 0 => session[p] = "connecting"

(* start() never waits for a post that was made before it, or is never     *)
(* made: the semaphore is up, or the first connection is to come.          *)
PostNotMissed ==
  \A p \in Clients :
    at[p] = "wait" => sem[p] > 0 \/ (session[p] = "connecting" /\ connects[p] = 0)

(* A step of a client moves no other client, but what ZooKeeper and other  *)
(* processes do to it cannot end its wait.                                 *)
LEMMA AwaitedKept ==
  ASSUME TypeOK, Places, [Next]_vars, NEW p \in Clients, Awaited(p)
  PROVE  Awaited(p)'
<1> USE RegistryAssumption
<1>1. ASSUME NEW q \in Clients, Start(q) PROVE Awaited(p)'
  <2>1. CASE zookeeper_init(q)
    BY <2>1 DEF zookeeper_init, ends, Awaited, TypeOK, Clients
  <2>2. CASE zoo_set_context(q)
    BY <2>2 DEF zoo_set_context, go, Awaited, TypeOK
  <2>3. CASE sem_wait(q)
    BY <2>3 DEF sem_wait, go, Awaited, TypeOK
  <2> QED
    BY <1>1, <2>1, <2>2, <2>3 DEF Start
<1>2. ASSUME NEW q \in Clients, Network(q) PROVE Awaited(p)'
  <2>1. CASE connected(q)
    <3>1. CASE q # p
      BY <2>1, <3>1 DEF connected, global_watcher, post, ends, Awaited, TypeOK
    <3>2. CASE q = p
      <4>1. /\ session[p] = "connecting" /\ session'[p] = "connected"
            /\ connects'[p] = connects[p] + 1 /\ connects[p] \in Nat
            /\ UNCHANGED context
        BY <2>1, <3>2 DEF connected, TypeOK
      <4>2. \/ context[p] = "sem" /\ sem'[p] = sem[p] + 1 /\ UNCHANGED at
            \/ context[p] # "sem" /\ at'[p] = "ended"
            \/ context[p] = "gone" /\ UNCHANGED at
        BY <2>1, <3>2 DEF connected, global_watcher, post, ends, TypeOK
      <4>3. at[p] \notin {"off", "bound"}
        BY <4>1 DEF Places
      <4> QED
        BY <4>1, <4>2, <4>3 DEF Awaited
    <3> QED
      BY <3>1, <3>2
  <2>2. CASE disconnected(q)
    BY <2>2 DEF disconnected, global_watcher, Awaited, TypeOK
  <2>3. CASE expire(q)
    <3>1. /\ UNCHANGED <<at, sem, connects, context>>
          /\ at[q] = "ended" \/ connects[q] > 0
          /\ session' = [session EXCEPT ![q] = "over"]
      BY <2>3 DEF expire, global_watcher
    <3> QED
      BY <3>1 DEF Awaited, TypeOK
  <2> QED
    BY <1>2, <2>1, <2>2, <2>3 DEF Network
<1>3. ASSUME NEW q \in Providers, Run(q) \/ crash(q) PROVE Awaited(p)'
  <2>1. q \in Clients /\ UNCHANGED <<session, connects, context, sem>>
    BY <1>3 DEF Run, bind, listen, zoo_exists, zoo_create, createFails, crash, Clients
  <2>2. \/ at'[p] \in {at[p], "create", "exists", "listening", "ended"}
        \/ (at[p] = "off" /\ at'[p] = "bound")
    BY <1>3 DEF Run, bind, listen, zoo_exists, zoo_create, createFails, crash, go, ends,
       TypeOK, Clients
  <2> QED
    BY <2>1, <2>2 DEF Awaited
<1>4. ASSUME NEW c \in Callers, CallMethod(c) PROVE Awaited(p)'
  <2>1. /\ UNCHANGED <<connects, context, sem>>
        /\ \A q \in Clients \ {c} : at'[q] = at[q] /\ session'[q] = session[q]
        /\ at'[c] \in {"connect", "returned"}
    BY <1>4 DEF CallMethod, connect, getData, go, close, TypeOK, Clients
  <2> QED
    BY <2>1 DEF Awaited
<1>5. CASE UNCHANGED vars
  BY <1>5 DEF vars, start, Awaited
<1> QED
  BY <1>1, <1>2, <1>3, <1>4, <1>5 DEF Next

(* What is left of StartReturns is that the session is connected at all    *)
(* (zookeeperutil.cc:35-72).                                               *)
THEOREM StartMissesNoPost == Spec => []PostNotMissed
<1> DEFINE Inv == \A p \in Clients : Awaited(p)
<1>1. Init => Inv
  BY DEF Init, Awaited
<1>2. RegistryInv /\ Inv /\ [Next]_vars => Inv'
  BY AwaitedKept DEF RegistryInv
<1>3. RegistryInv /\ Inv => PostNotMissed
  BY DEF RegistryInv, TypeOK, Awaited, PostNotMissed
<1> QED
  BY <1>1, <1>2, <1>3, RegistryInvariant, PTL DEF Spec

------------------------------------------------------------------------------
(* The refinement.                                                         *)

Listed == [m \in Methods |-> node[m]]
Left == {p \in Providers : session[p] = "over"}

(* Outside expire() and a create, the directory stays as it is.            *)
LEMMA OthersStutter ==
  ASSUME RegistryInv, UNCHANGED node,
         \A p \in Providers : session'[p] = "over" <=> session[p] = "over"
  PROVE  UNCHANGED <<Listed, Left>>
BY DEF Listed, Left

(* A node created by a provider is an entry, that of a service is none.    *)
LEMMA CreateEnters ==
  ASSUME RegistryInv, NEW p \in Providers, NEW q \in Paths,
         zoo_create(p, q) \/ createFails(p, q)
  PROVE  Listing!Next \/ UNCHANGED <<Listed, Left>>
<1> USE RegistryAssumption
<1>1. CASE UNCHANGED node
  BY <1>1, OthersStutter DEF zoo_create, createFails
<1>2. CASE /\ session[p] # "over" /\ node[q] = NoNode
           /\ node' = [node EXCEPT ![q] = p] /\ UNCHANGED session
  <2>1. \A x \in Paths : node'[x] = IF x = q THEN p ELSE node[x]
    BY <1>2 DEF RegistryInv, TypeOK
  <2>2. UNCHANGED Left
    BY <1>2 DEF Left
  <2>3. CASE q = Service
    BY <2>1, <2>2, <2>3 DEF Listed, Paths
  <2>4. CASE q \in Methods
    <3>1. Listed' = [Listed EXCEPT ![q] = p]
      BY <2>1, <2>4 DEF Listed, Paths
    <3>2. p \notin Left /\ Listed[q] = NoNode
      BY <1>2, <2>4 DEF Left, Listed
    <3>3. Listing!Enter(p, q)
      BY <2>2, <3>1, <3>2 DEF Listing!Enter, Listed, Left
    <3> QED
      BY <2>4, <3>3 DEF Listing!Next
  <2> QED
    BY <2>3, <2>4 DEF Paths
<1> QED
  BY <1>1, <1>2 DEF zoo_create, createFails, answers

(* The end of a provider's session is its leaving; that of a caller's      *)
(* removes nothing.                                                        *)
LEMMA ExpireLeaves ==
  ASSUME RegistryInv, NEW p \in Clients, expire(p)
  PROVE  Listing!Next \/ UNCHANGED <<Listed, Left>>
<1> USE RegistryAssumption
<1>1. /\ session[p] # "over" /\ session' = [session EXCEPT ![p] = "over"]
      /\ removed(p)
  BY DEF expire
<1>2. \A m \in Methods : node'[m] = IF node[m] = p THEN NoNode ELSE node[m]
  BY <1>1 DEF removed, Ephemeral, Paths
<1>3. \A r \in Clients : session'[r] = IF r = p THEN "over" ELSE session[r]
  BY <1>1 DEF RegistryInv, TypeOK
<1>4. CASE p \in Providers
  <2>1. p \notin Left /\ Left' = Left \cup {p}
    BY <1>1, <1>3, <1>4 DEF Left, Clients
  <2>2. Listed' = [m \in Methods |-> IF Listed[m] = p THEN NoNode ELSE Listed[m]]
    BY <1>2 DEF Listed
  <2>3. Listing!Leave(p)
    BY <2>1, <2>2 DEF Listing!Leave, Listed, Left
  <2> QED
    BY <1>4, <2>3 DEF Listing!Next
<1>5. CASE p \notin Providers
  <2>1. \A m \in Methods : node[m] \in Providers \cup {NoNode}
    BY DEF RegistryInv, TypeOK, Paths
  <2>2. UNCHANGED Listed
    BY <1>2, <1>5, <2>1 DEF Listed
  <2>3. UNCHANGED Left
    BY <1>3, <1>5 DEF Left, Clients
  <2> QED
    BY <2>2, <2>3
<1> QED
  BY <1>4, <1>5

(* Every step of the registry is a step of the directory, or none.         *)
LEMMA StepImplementsDirectory ==
  ASSUME RegistryInv, [Next]_vars
  PROVE  Listing!Next \/ UNCHANGED <<Listed, Left>>
<1> USE RegistryAssumption
<1>1. CASE UNCHANGED vars
  BY <1>1, OthersStutter DEF vars, world, start
<1>2. ASSUME NEW p \in Clients, Start(p) \/ connected(p) \/ disconnected(p)
      PROVE  UNCHANGED <<Listed, Left>>
  <2>1. UNCHANGED node
    BY <1>2 DEF Start, zookeeper_init, zoo_set_context, sem_wait, connected,
       disconnected, world
  <2>2. \A r \in Clients : session'[r] = "over" <=> session[r] = "over"
    BY <1>2 DEF Start, zookeeper_init, zoo_set_context, sem_wait, connected,
       disconnected, RegistryInv, TypeOK, Places
  <2> QED
    BY <2>1, <2>2, OthersStutter DEF Clients
<1>3. ASSUME NEW p \in Providers,
             \/ bind(p) \/ listen(p) \/ crash(p)
             \/ \E q \in Paths : zoo_exists(p, q)
      PROVE  UNCHANGED <<Listed, Left>>
  BY <1>3, OthersStutter DEF bind, listen, crash, zoo_exists, world
<1>4. ASSUME NEW c \in Callers, CallMethod(c)
      PROVE  UNCHANGED <<Listed, Left>>
  <2>1. session' = session \/ session' = [session EXCEPT ![c] = "over"]
    BY <1>4 DEF CallMethod, getData, connect, close
  <2>2. \A p \in Providers : session'[p] = session[p]
    BY <2>1 DEF RegistryInv, TypeOK, Clients
  <2>3. UNCHANGED node
    BY <1>4 DEF CallMethod, getData, connect, world
  <2> QED
    BY <2>2, <2>3, OthersStutter
<1> QED
  BY <1>1, <1>2, <1>3, <1>4, CreateEnters, ExpireLeaves DEF Next, Network, Run

(* What callers read is a directory, whatever the sessions do.             *)
THEOREM RegistryImplementsDirectory == Spec => ImplementsDirectory
<1>1. Init => Listing!Init
  BY RegistryAssumption DEF Init, Listing!Init, Paths, Clients
<1>2. RegistryInv /\ [Next]_vars => [Listing!Next]_<<Listed, Left>>
  BY StepImplementsDirectory
<1> QED
  BY <1>1, <1>2, RegistryInvariant, PTL
     DEF Spec, ImplementsDirectory, Listing!Spec, Listed, Left
==============================================================================
