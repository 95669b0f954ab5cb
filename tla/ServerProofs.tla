----------------------------- MODULE ServerProofs ------------------------------
(***************************************************************************)
(* Proofs about the two halves of a server.                                *)
(*                                                                         *)
(* EventLoopThreadPool, for any number of threads and of connections, and  *)
(* whoever quits which loop: loop_ points to a loop that exists, start()   *)
(* hands out one loop per thread, connections are spread evenly, and no    *)
(* thread runs its loop when the pool is gone.                             *)
(*                                                                         *)
(* TcpServer, for any clients and sub loops, whether the base loop knows   *)
(* its thread and whether the server stays: each connection is opened,     *)
(* closed and removed once, in this order, by the thread of its loop.      *)
(***************************************************************************)
EXTENDS EventLoopThreadPool, TcpServer, SequenceTheorems, FiniteSetTheorems,
        TLAPS

------------------------------------------------------------------------------
(* The pool of sub loops.                                                  *)

Starting == {"start", "sem", "lock", "wait"}
Ending == {"test", "quit", "wake", "join"}

(* A thread's place says whether its loop exists and is published; it      *)
(* leaves its loop only when quit_ is set.                                 *)
ThreadHas ==
  \A i \in Ids :
    /\ alive[i] <=> thread[i] \in {"init", "reset", "running", "returned"}
    /\ loop_[i] => thread[i] \in {"reset", "running", "returned"}
    /\ thread[i] \in {"reset", "running"} => loop_[i]
    /\ thread[i] = "returned" => quit_[i]
    /\ thread[i] = "ended" => quit_[i]

Begun(i) == thread[i] \notin {"none", "begin", "init"}

(* The owner starts the threads in order, and joins them in order.         *)
InTurn ==
  /\ owner \in Starting =>
       /\ Len(loops_) = cur - 1
       /\ \A i \in Ids : i < cur => Begun(i)
       /\ \A i \in Ids : i > cur => thread[i] = "none"
       /\ owner = "start" => thread[cur] = "none"
  /\ owner \notin Starting => Len(loops_) = NumThreads /\ \A i \in Ids : Begun(i)
  /\ \A i \in 1 .. Len(loops_) : loops_[i] = i
  /\ owner \in Ending => \A i \in Ids : i < cur => thread[i] \in {"returned", "ended"}
  /\ owner = "serve" => cur = 1
  /\ owner = "done" => \A i \in Ids : thread[i] \in {"returned", "ended"}

(* The loops before next_ were given once more than those from it on.      *)
Even ==
  \A i, j \in Ids :
    /\ i <= next_ /\ j > next_ => given[i] = given[j] + 1
    /\ i <= next_ /\ j <= next_ => given[i] = given[j]
    /\ i > next_ /\ j > next_ => given[i] = given[j]

PoolInv == PoolTypeOK /\ ThreadHas /\ InTurn /\ Even

(* The invariant implies the four properties.                              *)
LEMMA PoolInvGives ==
  PoolInv => LoopsUsable /\ Balanced /\ NoneLeft /\ PointerValid
<1> SUFFICES ASSUME PoolInv
             PROVE  LoopsUsable /\ Balanced /\ NoneLeft /\ PointerValid
  OBVIOUS
<1> USE PoolAssumption
<1>1. LoopsUsable
  <2> SUFFICES ASSUME owner = "serve"
               PROVE  /\ Len(loops_) = NumThreads
                      /\ \A i \in DOMAIN loops_ :
                           loops_[i] = i /\ (loop_[i] \/ quit_[i])
    BY DEF LoopsUsable
  <2>1. Len(loops_) = NumThreads /\ DOMAIN loops_ = Ids
    BY LenProperties DEF PoolInv, PoolTypeOK, InTurn, Starting, Ids
  <2>2. \A i \in Ids : loop_[i] \/ quit_[i]
    BY DEF PoolInv, PoolTypeOK, InTurn, ThreadHas, Begun, Starting, ThreadPlaces
  <2> QED
    BY <2>1, <2>2 DEF PoolInv, InTurn, Ids
<1>2. Balanced
  <2> SUFFICES ASSUME NEW i \in Ids, NEW j \in Ids PROVE given[i] <= given[j] + 1
    BY DEF Balanced
  <2>1. given[i] \in Nat /\ given[j] \in Nat /\ i \in Nat /\ j \in Nat /\ next_ \in Nat
    BY DEF PoolInv, PoolTypeOK, Ids
  <2>2. /\ i <= next_ /\ j > next_ => given[i] = given[j] + 1
        /\ i > next_ /\ j <= next_ => given[j] = given[i] + 1
        /\ i <= next_ /\ j <= next_ => given[i] = given[j]
        /\ i > next_ /\ j > next_ => given[i] = given[j]
    BY DEF PoolInv, Even
  <2> QED
    BY <2>1, <2>2
<1>3. NoneLeft
  BY DEF PoolInv, InTurn, NoneLeft
<1>4. PointerValid
  BY DEF PoolInv, ThreadHas, PointerValid
<1> QED
  BY <1>1, <1>2, <1>3, <1>4

(* No thread is started at first.                                          *)
LEMMA PoolInvInit == PoolInit => PoolInv
<1> SUFFICES ASSUME PoolInit PROVE PoolInv
  OBVIOUS
<1> USE PoolAssumption
<1>1. PoolTypeOK
  <2>1. loops_ \in Seq(Ids) /\ Len(loops_) = 0
    BY DEF PoolInit
  <2>2. 1 \in Ids /\ 0 \in 0 .. NumThreads - 1
    BY DEF Ids
  <2> QED
    BY <2>1, <2>2 DEF PoolInit, PoolTypeOK, OwnerPlaces, ThreadPlaces
<1>2. ThreadHas /\ Even
  BY DEF PoolInit, ThreadHas, Even, Ids
<1>3. InTurn
  <2>1. Len(loops_) = 0 /\ cur = 1
    BY DEF PoolInit
  <2> QED
    BY <2>1 DEF PoolInit, InTurn, Starting, Ending, Ids
<1> QED
  BY <1>1, <1>2, <1>3 DEF PoolInv

(* start(): the owner moves on only when the thread has published its loop. *)
LEMMA StartKeeps == PoolInv /\ (Start \/ spuriousWakeup) => PoolInv'
<1> SUFFICES ASSUME PoolInv, Start \/ spuriousWakeup PROVE PoolInv'
  OBVIOUS
<1> USE PoolAssumption
<1>1. CASE threadStart
  <2>1. /\ owner = "start" /\ owner' = "sem" /\ UNCHANGED <<cur, loop, pool>>
        /\ thread' = [thread EXCEPT ![cur] = "begin"]
    BY <1>1 DEF threadStart, go
  <2>2. thread[cur] = "none" /\ cur \in Ids
    BY <2>1 DEF PoolInv, InTurn, PoolTypeOK, Starting
  <2>3. PoolTypeOK'
    BY <2>1 DEF PoolInv, PoolTypeOK, loop, pool, OwnerPlaces, ThreadPlaces
  <2>4. ThreadHas'
    BY <2>1, <2>2 DEF PoolInv, PoolTypeOK, ThreadHas, loop
  <2>5. InTurn'
    BY <2>1, <2>2 DEF PoolInv, PoolTypeOK, InTurn, Begun, Starting, Ending, pool, Ids
  <2>6. Even'
    BY <2>1 DEF PoolInv, Even, pool
  <2> QED
    BY <2>3, <2>4, <2>5, <2>6 DEF PoolInv
<1>2. CASE semWait \/ condWait \/ spuriousWakeup
  <2>1. /\ owner \in {"sem", "lock", "wait"} /\ owner' \in {"lock", "wait"}
        /\ UNCHANGED <<cur, thread, loop, pool>>
    BY <1>2 DEF semWait, condWait, spuriousWakeup, go
  <2>2. PoolTypeOK'
    BY <2>1 DEF PoolInv, PoolTypeOK, loop, pool, OwnerPlaces
  <2>3. ThreadHas' /\ Even'
    BY <2>1 DEF PoolInv, ThreadHas, Even, loop, pool
  <2>4. InTurn'
    BY <2>1 DEF PoolInv, InTurn, Begun, Starting, Ending, pool
  <2> QED
    BY <2>2, <2>3, <2>4 DEF PoolInv
<1>3. CASE startLoop
  <2>1. /\ owner = "lock" /\ loop_[cur]
        /\ loops_' = Append(loops_, cur)
        /\ UNCHANGED <<thread, loop, next_, given>>
    BY <1>3 DEF startLoop
  <2>2. /\ cur \in Ids /\ loops_ \in Seq(Ids) /\ Len(loops_) = cur - 1
        /\ \A i \in 1 .. Len(loops_) : loops_[i] = i
    BY <2>1 DEF PoolInv, PoolTypeOK, InTurn, Starting
  <2>3. /\ loops_' \in Seq(Ids) /\ Len(loops_') = cur
        /\ \A i \in 1 .. Len(loops_') : loops_'[i] = i
    <3>1. /\ loops_' \in Seq(Ids) /\ Len(loops_') = Len(loops_) + 1
          /\ \A i \in 1 .. Len(loops_) : loops_'[i] = loops_[i]
          /\ loops_'[Len(loops_) + 1] = cur
      BY <2>1, <2>2, AppendProperties
    <3> QED
      BY <3>1, <2>2 DEF Ids
  <2>4. Begun(cur)
    BY <2>1, <2>2 DEF PoolInv, ThreadHas, Begun
  <2>5. \A i \in Ids : i <= cur => Begun(i)
    BY <2>1, <2>2, <2>4 DEF PoolInv, InTurn, Starting, Ids
  <2>6. \A i \in Ids : i > cur => thread[i] = "none"
    BY <2>1 DEF PoolInv, InTurn, Starting
  <2>7. ThreadHas' /\ Even'
    BY <2>1 DEF PoolInv, ThreadHas, Even, loop
  <2>8. CASE cur < NumThreads
    <3>1. cur' = cur + 1 /\ owner' = "start" /\ cur' \in Ids
      BY <1>3, <2>2, <2>8 DEF startLoop, Ids
    <3>2. PoolTypeOK'
      BY <2>1, <2>2, <2>3, <2>8, <3>1 DEF PoolInv, PoolTypeOK, loop, OwnerPlaces, Ids
    <3>3. InTurn'
      BY <2>1, <2>2, <2>3, <2>5, <2>6, <3>1 DEF InTurn, Begun, Starting, Ending, Ids
    <3> QED
      BY <2>7, <3>2, <3>3 DEF PoolInv
  <2>9. CASE ~(cur < NumThreads)
    <3>1. cur' = 1 /\ owner' = "serve" /\ cur = NumThreads /\ 1 \in Ids
      BY <1>3, <2>2, <2>9 DEF startLoop, Ids
    <3>2. PoolTypeOK'
      BY <2>1, <2>2, <2>3, <3>1 DEF PoolInv, PoolTypeOK, loop, OwnerPlaces, Ids
    <3>3. InTurn'
      BY <2>1, <2>3, <2>5, <3>1 DEF InTurn, Begun, Starting, Ending, Ids
    <3> QED
      BY <2>7, <3>2, <3>3 DEF PoolInv
  <2> QED
    BY <2>8, <2>9
<1> QED
  BY <1>1, <1>2, <1>3 DEF Start

(* getNextLoop: the loop at next_ is one of those that were given less.    *)
LEMMA NextLoopKeeps == PoolInv /\ getNextLoop => PoolInv'
<1> SUFFICES ASSUME PoolInv, getNextLoop PROVE PoolInv'
  OBVIOUS
<1> USE PoolAssumption
<1> DEFINE n == next_ + 1
<1>1. /\ owner = "serve" /\ UNCHANGED <<owner, cur, thread, loop, loops_>>
      /\ given' = [given EXCEPT ![loops_[n]] = @ + 1]
      /\ next_' = IF n >= Len(loops_) THEN 0 ELSE n
  BY DEF getNextLoop, wrap
<1>2. /\ Len(loops_) = NumThreads /\ n \in Ids /\ loops_[n] = n /\ next_ \in Nat
      /\ NumThreads \in Nat
  BY <1>1 DEF PoolInv, PoolTypeOK, InTurn, Starting, Ids
<1>3. /\ next_' = IF n = NumThreads THEN 0 ELSE n
      /\ given' = [given EXCEPT ![n] = given[n] + 1]
  BY <1>1, <1>2 DEF Ids
<1>4. PoolTypeOK'
  <2>1. next_' \in 0 .. NumThreads - 1
    BY <1>2, <1>3 DEF Ids
  <2>2. given' \in [Ids -> Nat]
    BY <1>2, <1>3 DEF PoolInv, PoolTypeOK
  <2> QED
    BY <1>1, <2>1, <2>2 DEF PoolInv, PoolTypeOK, loop
<1>5. ThreadHas' /\ InTurn'
  BY <1>1 DEF PoolInv, ThreadHas, InTurn, Begun, loop
<1>6. /\ \A i \in Ids : given[i] \in Nat /\ i \in Nat /\ i >= 1 /\ i <= NumThreads
      /\ \A i \in Ids : given'[i] = IF i = n THEN given[n] + 1 ELSE given[i]
  BY <1>2, <1>3 DEF PoolInv, PoolTypeOK, Ids
<1>7. \A i \in Ids : i > next_ => given[i] = given[n]
  BY <1>2, <1>6 DEF PoolInv, Even
<1>8. \A i \in Ids : i <= next_ => given[i] = given[n] + 1
  BY <1>2, <1>6 DEF PoolInv, Even
<1>9. \A i \in Ids : IF i <= n THEN given'[i] = given[n] + 1 ELSE given'[i] = given[n]
  BY <1>2, <1>6, <1>7, <1>8
<1>10. Even'
  <2> SUFFICES ASSUME NEW i \in Ids, NEW j \in Ids
               PROVE  /\ i <= next_' /\ j > next_' => given'[i] = given'[j] + 1
                      /\ i <= next_' /\ j <= next_' => given'[i] = given'[j]
                      /\ i > next_' /\ j > next_' => given'[i] = given'[j]
    BY DEF Even
  <2> QED
    BY <1>2, <1>3, <1>6, <1>9
<1> QED
  BY <1>4, <1>5, <1>10 DEF PoolInv

(* The destructor passes a thread when it ended, or has cleared loop_.     *)
LEMMA DtorKeeps == PoolInv /\ (destroy \/ Dtor) => PoolInv'
<1> SUFFICES ASSUME PoolInv, destroy \/ Dtor PROVE PoolInv'
  OBVIOUS
<1> USE PoolAssumption
<1>1. /\ UNCHANGED <<thread, loop_, alive, pool>>
      /\ owner \in {"serve", "test", "quit", "wake", "join"}
      /\ quit_' = quit_ \/ quit_' = [quit_ EXCEPT ![cur] = TRUE]
      /\ wakeup' = wakeup \/ wakeup' = [wakeup EXCEPT ![cur] = alive[cur]]
  BY DEF destroy, Dtor, detach, dtorTest, quit, quitWake, join, go, loop
<1>2. \/ owner = "serve" /\ owner' = "test" /\ cur' = cur
      \/ owner \in Ending /\ owner' \in Ending /\ cur' = cur
      \/ /\ owner \in Ending /\ nextThread
         /\ ~loop_[cur] \/ thread[cur] = "ended"
  BY DEF destroy, Dtor, detach, dtorTest, quit, quitWake, join, go, Ending
<1>3. cur \in Ids /\ \A i \in Ids : Begun(i)
  BY <1>1 DEF PoolInv, PoolTypeOK, InTurn, Starting
<1>4. ~loop_[cur] \/ thread[cur] = "ended" => thread[cur] \in {"returned", "ended"}
  BY <1>3 DEF PoolInv, PoolTypeOK, ThreadHas, Begun, ThreadPlaces
<1>5. cur' \in Ids /\ owner' \in Ending \cup {"done"}
  BY <1>2, <1>3 DEF nextThread, Ids, Ending
<1>6. PoolTypeOK'
  BY <1>1, <1>3, <1>5 DEF PoolInv, PoolTypeOK, pool, OwnerPlaces, Ending
<1>7. ThreadHas' /\ Even'
  BY <1>1 DEF PoolInv, PoolTypeOK, ThreadHas, Even, pool
<1>8. InTurn'
  <2>1. /\ owner' \notin Starting /\ owner \notin Starting
        /\ Len(loops_') = NumThreads /\ \A i \in Ids : Begun(i)'
        /\ \A i \in 1 .. Len(loops_') : loops_'[i] = i
    BY <1>1, <1>3, <1>5 DEF PoolInv, InTurn, Starting, Ending, Begun, pool
  <2>2. owner' \in Ending =>
          \A i \in Ids : i < cur' => thread'[i] \in {"returned", "ended"}
    <3>1. CASE owner = "serve" /\ owner' = "test" /\ cur' = cur
      <4>1. cur = 1
        BY <3>1 DEF PoolInv, InTurn
      <4> QED
        BY <3>1, <4>1 DEF Ids
    <3>2. CASE owner \in Ending /\ cur' = cur
      BY <3>2, <1>1 DEF PoolInv, InTurn
    <3>3. CASE owner \in Ending /\ nextThread /\ thread[cur] \in {"returned", "ended"}
      BY <3>3, <1>1, <1>3 DEF PoolInv, InTurn, nextThread, Ids, Ending
    <3> QED
      BY <1>2, <1>4, <3>1, <3>2, <3>3
  <2>3. owner' = "done" => \A i \in Ids : thread'[i] \in {"returned", "ended"}
    BY <1>1, <1>2, <1>3, <1>4 DEF PoolInv, InTurn, nextThread, Ids, Ending
  <2> QED
    BY <2>1, <2>2, <2>3, <1>5 DEF InTurn, Ending
<1> QED
  BY <1>6, <1>7, <1>8 DEF PoolInv

(* A sub thread: the loop is published and cleared while it exists, and    *)
(* quit_ is set to FALSE only before the loop runs.                        *)
LEMMA ThreadKeeps ==
  ASSUME PoolInv, NEW i \in Ids, ThreadStep(i) \/ loopExit(i) \/ otherQuits(i)
  PROVE  PoolInv'
<1> USE PoolAssumption
<1>1. /\ UNCHANGED <<cur, pool>>
      /\ owner' = owner \/ (owner = "wait" /\ owner' = "lock")
  BY DEF ThreadStep, threadFunc, publish, loopReset, clear, threadEnd, loopExit,
     otherQuits, loop
<1>2. Even'
  BY <1>1 DEF PoolInv, Even, pool
<1>3. PoolTypeOK'
  <2>1. owner' \in OwnerPlaces
    BY <1>1 DEF PoolInv, PoolTypeOK, OwnerPlaces
  <2>2. /\ thread' \in [Ids -> ThreadPlaces]
        /\ loop_' \in [Ids -> BOOLEAN] /\ alive' \in [Ids -> BOOLEAN]
        /\ quit_' \in [Ids -> BOOLEAN] /\ wakeup' \in [Ids -> BOOLEAN]
    BY DEF ThreadStep, threadFunc, publish, loopReset, clear, threadEnd, loopExit,
       otherQuits, loop, step, PoolInv, PoolTypeOK, ThreadPlaces
  <2> QED
    BY <1>1, <2>1, <2>2 DEF PoolInv, PoolTypeOK, pool
<1>4. ThreadHas'
  <2>1. CASE threadFunc(i) \/ publish(i)
    BY <2>1 DEF threadFunc, publish, step, PoolInv, PoolTypeOK, ThreadHas
  <2>2. CASE loopReset(i) \/ loopExit(i)
    BY <2>2 DEF loopReset, loopExit, step, loop, PoolInv, PoolTypeOK, ThreadHas
  <2>3. CASE clear(i) \/ threadEnd(i)
    BY <2>3 DEF clear, threadEnd, step, PoolInv, PoolTypeOK, ThreadHas
  <2>4. CASE otherQuits(i)
    BY <2>4 DEF otherQuits, PoolInv, PoolTypeOK, ThreadHas
  <2> QED
    BY <2>1, <2>2, <2>3, <2>4 DEF ThreadStep
<1>5. /\ \A j \in Ids : Begun(j) => Begun(j)'
      /\ \A j \in Ids : thread[j] = "none" => thread'[j] = "none"
      /\ \A j \in Ids : thread[j] \in {"returned", "ended"} =>
                         thread'[j] \in {"returned", "ended"}
  BY DEF ThreadStep, threadFunc, publish, loopReset, clear, threadEnd, loopExit,
     otherQuits, step, Begun, PoolInv, PoolTypeOK
<1>6. InTurn'
  <2>1. /\ owner' \in Starting <=> owner \in Starting
        /\ owner' \in Ending <=> owner \in Ending
        /\ \A o \in {"start", "serve", "done"} : owner' = o => owner = o
    BY <1>1 DEF Starting, Ending
  <2> QED
    BY <1>1, <1>5, <2>1 DEF PoolInv, InTurn, PoolTypeOK, pool
<1> QED
  BY <1>2, <1>3, <1>4, <1>6 DEF PoolInv

(* The invariant of the pool.                                              *)
THEOREM PoolInvariant == PoolSpec => []PoolInv
<1>1. PoolInv /\ [PoolNext]_poolVars => PoolInv'
  <2>1. PoolInv /\ UNCHANGED poolVars => PoolInv'
    BY DEF poolVars, PoolInv, PoolTypeOK, ThreadHas, InTurn, Begun, Even
  <2> QED
    BY <2>1, StartKeeps, NextLoopKeeps, DtorKeeps, ThreadKeeps DEF PoolNext
<1> QED
  BY <1>1, PoolInvInit, PTL DEF PoolSpec

(* loops_ has one entry per thread at most, and next_ is one of them.      *)
THEOREM PoolTypeCorrect == PoolSpec => []PoolTypeOK
<1>1. PoolInv => PoolTypeOK
  BY DEF PoolInv
<1> QED
  BY <1>1, PoolInvariant, PTL

(* Every loop handed out was published, and is gone only if a user quit it. *)
THEOREM HandsOutLoops == PoolSpec => []LoopsUsable
<1>1. PoolInv => LoopsUsable
  BY PoolInvGives
<1> QED
  BY <1>1, PoolInvariant, PTL

(* No sub loop gets two connections more than another.                     *)
THEOREM SpreadsEvenly == PoolSpec => []Balanced
<1>1. PoolInv => Balanced
  BY PoolInvGives
<1> QED
  BY <1>1, PoolInvariant, PTL

(* No thread runs its loop when the pool is gone.                          *)
THEOREM AllJoined == PoolSpec => []NoneLeft
<1>1. PoolInv => NoneLeft
  BY PoolInvGives
<1> QED
  BY <1>1, PoolInvariant, PTL

(* loop_ never points to an EventLoop that is gone.                        *)
THEOREM NoDanglingLoop == PoolSpec => []PointerValid
<1>1. PoolInv => PointerValid
  BY PoolInvGives
<1> QED
  BY <1>1, PoolInvariant, PTL

(* Whoever waits is told: no notification is missed in start(), no join()  *)
(* waits for a loop that does not know it has to end.                      *)
Waits ==
  /\ owner \in Starting => \A i \in Ids : given[i] = 0 /\ ~quit_[i]
  /\ owner = "sem" => thread[cur] # "none"
  /\ owner \in {"lock", "wait"} => thread[cur] \notin {"none", "begin"}
  /\ owner = "wait" => thread[cur] = "init"

Told ==
  /\ owner \in Ending => \A i \in Ids : thread[i] # "reset"
  /\ owner \in {"wake", "join"} => quit_[cur]
  /\ owner = "join" /\ alive[cur] => wakeup[cur]

LEMMA WaitsKept == PoolInv /\ Waits /\ [PoolNext]_poolVars => Waits'
<1> SUFFICES ASSUME PoolInv, Waits, [PoolNext]_poolVars PROVE Waits'
  OBVIOUS
<1>1. cur \in Ids
  BY DEF PoolInv, PoolTypeOK
<1>2. CASE threadStart
  BY <1>1, <1>2 DEF threadStart, go, Waits, Starting, loop, pool, PoolInv, PoolTypeOK
<1>3. CASE semWait \/ spuriousWakeup
  BY <1>3 DEF semWait, spuriousWakeup, go, Waits, Starting, loop, pool
<1>4. CASE condWait
  <2>1. thread[cur] = "init"
    <3>1. thread[cur] \notin {"none", "begin"} /\ ~loop_[cur] /\ ~quit_[cur]
      BY <1>1, <1>4 DEF condWait, go, Waits, Starting
    <3> QED
      BY <1>1, <3>1 DEF PoolInv, PoolTypeOK, ThreadHas, ThreadPlaces
  <2> QED
    BY <1>4, <2>1 DEF condWait, go, Waits, Starting, loop, pool
<1>5. CASE startLoop
  <2>1. /\ owner = "lock" /\ owner' \in {"start", "serve"}
        /\ UNCHANGED <<quit_, given>>
    BY <1>5 DEF startLoop, loop
  <2> QED
    BY <2>1 DEF Waits, Starting
<1>6. CASE getNextLoop \/ destroy \/ Dtor
  <2>1. owner' \notin Starting
    BY <1>6 DEF getNextLoop, destroy, Dtor, detach, dtorTest, quit, quitWake, join, go,
       nextThread, Starting
  <2> QED
    BY <2>1 DEF Waits, Starting
<1>7. ASSUME NEW i \in Ids, ThreadStep(i) \/ loopExit(i) \/ otherQuits(i)
      PROVE  Waits'
  <2>1. CASE threadFunc(i)
    BY <1>1, <2>1 DEF threadFunc, step, Waits, Starting, pool, PoolInv, PoolTypeOK
  <2>2. CASE publish(i)
    BY <1>1, <2>2 DEF publish, step, Waits, Starting, pool, PoolInv, PoolTypeOK
  <2>3. CASE loopReset(i)
    BY <1>1, <2>3 DEF loopReset, step, Waits, Starting, pool, PoolInv, PoolTypeOK
  <2>4. CASE clear(i) \/ threadEnd(i)
    BY <1>1, <2>4 DEF clear, threadEnd, step, Waits, Starting, pool, PoolInv, PoolTypeOK
  <2>5. CASE loopExit(i)
    BY <1>1, <2>5 DEF loopExit, step, loop, Waits, Starting, pool, PoolInv, PoolTypeOK
  <2>6. CASE otherQuits(i)
    <3>1. owner \notin Starting /\ owner' = owner
      BY <2>6 DEF otherQuits, Waits, PoolInv, PoolTypeOK
    <3> QED
      BY <3>1 DEF Waits, Starting
  <2> QED
    BY <1>7, <2>1, <2>2, <2>3, <2>4, <2>5, <2>6 DEF ThreadStep
<1>8. CASE UNCHANGED poolVars
  BY <1>8 DEF poolVars, Waits
<1> QED
  BY <1>2, <1>3, <1>4, <1>5, <1>6, <1>7, <1>8 DEF PoolNext, Start

LEMMA ToldKept ==
  ASSUME ~Hasty
  PROVE  PoolInv /\ Told /\ [PoolNext]_poolVars => Told'
<1> SUFFICES ASSUME PoolInv, Told, [PoolNext]_poolVars PROVE Told'
  OBVIOUS
<1>1. cur \in Ids
  BY DEF PoolInv, PoolTypeOK
<1>2. CASE Start \/ spuriousWakeup \/ getNextLoop
  <2>1. owner' \notin Ending
    BY <1>2 DEF Start, threadStart, semWait, condWait, startLoop, spuriousWakeup,
       getNextLoop, go, Ending
  <2> QED
    BY <2>1 DEF Told, Ending
<1>3. CASE destroy
  BY <1>3 DEF destroy, go, Told, Ending
<1>4. CASE detach \/ dtorTest \/ join
  <2>1. owner \in Ending /\ owner' \notin {"wake", "join"} /\ UNCHANGED thread
    BY <1>4 DEF detach, dtorTest, join, go, nextThread, Ending
  <2> QED
    BY <2>1 DEF Told
<1>5. CASE quit
  <2>1. owner = "quit" /\ owner' = "wake" /\ quit_'[cur] /\ UNCHANGED <<cur, thread>>
    BY <1>1, <1>5 DEF quit, go, PoolInv, PoolTypeOK
  <2> QED
    BY <2>1 DEF Told, Ending
<1>6. CASE quitWake
  <2>1. /\ owner = "wake" /\ owner' = "join" /\ wakeup'[cur] = alive[cur]
        /\ UNCHANGED <<cur, thread, alive, quit_>>
    BY <1>1, <1>6 DEF quitWake, go, PoolInv, PoolTypeOK
  <2> QED
    BY <2>1 DEF Told, Ending
<1>7. ASSUME NEW i \in Ids, ThreadStep(i) \/ loopExit(i) \/ otherQuits(i)
      PROVE  Told'
  <2>1. CASE owner \notin Ending
    <3>1. owner' \notin Ending
      BY <1>7, <2>1 DEF ThreadStep, threadFunc, publish, loopReset, clear, threadEnd,
         loopExit, otherQuits, Ending
    <3> QED
      BY <3>1 DEF Told, Ending
  <2>2. CASE owner \in Ending
    <3>1. /\ owner \notin Starting /\ owner # "wait"
          /\ \A j \in Ids : Begun(j) /\ thread[j] # "reset"
      BY <2>2 DEF Told, PoolInv, InTurn, Starting, Ending
    <3>2. thread[i] \in {"running", "returned", "ended"}
      BY <3>1 DEF Begun, PoolInv, PoolTypeOK, ThreadPlaces
    <3>3. clear(i) \/ threadEnd(i) \/ loopExit(i) \/ otherQuits(i)
      BY <1>7, <3>2 DEF ThreadStep, threadFunc, publish, loopReset, step
    <3>4. /\ UNCHANGED <<owner, cur>>
          /\ \A j \in Ids : thread'[j] # "reset"
          /\ quit_[cur] => quit_'[cur]
          /\ alive'[cur] => alive[cur]
          /\ wakeup[cur] => wakeup'[cur]
      BY <1>1, <3>1, <3>3 DEF clear, threadEnd, loopExit, otherQuits, step, loop, PoolInv,
         PoolTypeOK
    <3> QED
      BY <3>4 DEF Told
  <2> QED
    BY <2>1, <2>2
<1>8. CASE UNCHANGED poolVars
  BY <1>8 DEF poolVars, Told
<1> QED
  BY <1>2, <1>3, <1>4, <1>5, <1>6, <1>7, <1>8 DEF PoolNext, Dtor

(* While start() waits on the condition variable, the thread it started    *)
(* has its notification still to give (EventLoopThread.cc:31-36, 52-56).   *)
NotifyToCome == owner = "wait" => thread[cur] = "init"

(* A loop whose thread is being joined has been told to end, and will not  *)
(* sleep on it (EventLoopThread.cc:18-23, EventLoop.cc:93-100).            *)
JoinedIsTold ==
  owner = "join" =>
    /\ thread[cur] \in {"running", "returned", "ended"}
    /\ thread[cur] = "running" => quit_[cur] /\ wakeup[cur]

(* The safety half of StartReturns.                                        *)
THEOREM StartMissesNothing == PoolSpec => []NotifyToCome
<1>1. PoolInit => Waits
  BY DEF PoolInit, Waits, Starting
<1>2. Waits => NotifyToCome
  BY DEF Waits, NotifyToCome
<1> QED
  BY <1>1, <1>2, WaitsKept, PoolInvariant, PTL DEF PoolSpec

(* The safety half of DestroyReturns, for a pool whose loops have begun    *)
(* when it is destroyed: loop() would else forget the quit.                *)
THEOREM JoinIsNotInVain == ~Hasty => (PoolSpec => []JoinedIsTold)
<1> SUFFICES ASSUME ~Hasty PROVE PoolSpec => []JoinedIsTold
  OBVIOUS
<1>1. PoolInit => Told
  BY DEF PoolInit, Told, Ending
<1>2. PoolInv /\ Told => JoinedIsTold
  <2> SUFFICES ASSUME PoolInv, Told, owner = "join"
               PROVE  /\ thread[cur] \in {"running", "returned", "ended"}
                      /\ thread[cur] = "running" => quit_[cur] /\ wakeup[cur]
    BY DEF JoinedIsTold
  <2>1. cur \in Ids /\ Begun(cur) /\ thread[cur] # "reset" /\ quit_[cur]
    BY DEF Told, PoolInv, PoolTypeOK, InTurn, Starting, Ending
  <2>2. thread[cur] \in {"running", "returned", "ended"}
    BY <2>1 DEF Begun, PoolInv, PoolTypeOK, ThreadPlaces
  <2>3. thread[cur] = "running" => alive[cur]
    BY <2>1 DEF PoolInv, ThreadHas
  <2> QED
    BY <2>1, <2>2, <2>3 DEF Told
<1>3. PoolInv /\ Told /\ [PoolNext]_poolVars => Told'
  BY ToldKept
<1> QED
  BY <1>1, <1>2, <1>3, PoolInvariant, PTL DEF PoolSpec

------------------------------------------------------------------------------
(* Functors in a queue.                                                    *)

NotIn(s, f) == \A i \in DOMAIN s : s[i] # f
OnceIn(s, f) == \E i \in DOMAIN s : \A j \in DOMAIN s : s[j] = f <=> j = i
InOrder(s, f, g) == \A i, j \in DOMAIN s : s[i] = f /\ s[j] = g => i < j

(* One more at the end.                                                    *)
LEMMA AppendedIn ==
  ASSUME NEW S, NEW s \in Seq(S), NEW f \in S, NEW g, NEW h
  PROVE  /\ f # g /\ NotIn(s, g) => NotIn(Append(s, f), g)
         /\ f # g /\ OnceIn(s, g) => OnceIn(Append(s, f), g)
         /\ f = g /\ NotIn(s, g) => OnceIn(Append(s, f), g)
         /\ f # g /\ InOrder(s, g, h) => InOrder(Append(s, f), g, h)
<1> DEFINE t == Append(s, f)
<1>1. /\ DOMAIN s = 1 .. Len(s) /\ DOMAIN t = 1 .. Len(s) + 1 /\ Len(s) \in Nat
      /\ t[Len(s) + 1] = f
      /\ \A i \in 1 .. Len(s) : t[i] = s[i]
  OBVIOUS
<1> HIDE DEF t
<1>2. ASSUME f # g, NotIn(s, g) PROVE NotIn(t, g)
  BY <1>1, <1>2 DEF NotIn
<1>3. ASSUME f # g, OnceIn(s, g) PROVE OnceIn(t, g)
  <2>1. PICK i \in DOMAIN s : \A j \in DOMAIN s : s[j] = g <=> j = i
    BY <1>3 DEF OnceIn
  <2>2. i \in DOMAIN t /\ \A j \in DOMAIN t : t[j] = g <=> j = i
    BY <1>1, <1>3, <2>1
  <2> QED
    BY <2>2 DEF OnceIn
<1>4. ASSUME f = g, NotIn(s, g) PROVE OnceIn(t, g)
  <2>1. Len(s) + 1 \in DOMAIN t /\ \A j \in DOMAIN t : t[j] = g <=> j = Len(s) + 1
    BY <1>1, <1>4 DEF NotIn
  <2> QED
    BY <2>1 DEF OnceIn
<1>5. ASSUME f # g, InOrder(s, g, h) PROVE InOrder(t, g, h)
  <2> SUFFICES ASSUME NEW i \in DOMAIN t, NEW j \in DOMAIN t, t[i] = g, t[j] = h
               PROVE  i < j
    BY DEF InOrder
  <2>1. i \in 1 .. Len(s)
    BY <1>1, <1>5
  <2>2. CASE j \in 1 .. Len(s)
    BY <1>1, <1>5, <2>1, <2>2 DEF InOrder
  <2>3. CASE j \notin 1 .. Len(s)
    BY <1>1, <2>1, <2>3
  <2> QED
    BY <2>2, <2>3
<1> QED
  BY <1>2, <1>3, <1>4, <1>5 DEF t

(* The first one taken.                                                    *)
LEMMA TakenFrom ==
  ASSUME NEW S, NEW s \in Seq(S), s # <<>>, NEW g, NEW h
  PROVE  /\ NotIn(s, g) => Head(s) # g /\ NotIn(Tail(s), g)
         /\ Head(s) # g /\ OnceIn(s, g) => OnceIn(Tail(s), g)
         /\ Head(s) = g /\ OnceIn(s, g) => NotIn(Tail(s), g)
         /\ InOrder(s, g, h) => InOrder(Tail(s), g, h)
         /\ InOrder(s, g, h) /\ Head(s) = h => NotIn(s, g)
<1> DEFINE t == Tail(s)
<1>1. /\ DOMAIN s = 1 .. Len(s) /\ DOMAIN t = 1 .. Len(s) - 1
      /\ Len(s) \in Nat \ {0} /\ Head(s) = s[1]
      /\ \A i \in 1 .. Len(s) - 1 : t[i] = s[i + 1]
  OBVIOUS
<1> HIDE DEF t
<1>2. \A j \in DOMAIN t : /\ t[j] = s[j + 1] /\ j + 1 \in DOMAIN s
                        /\ j + 1 # 1 /\ (j + 1) - 1 = j
  BY <1>1
<1>3. ASSUME NotIn(s, g) PROVE Head(s) # g /\ NotIn(t, g)
  BY <1>1, <1>2, <1>3 DEF NotIn
<1>4. ASSUME NEW i \in DOMAIN s, \A j \in DOMAIN s : s[j] = g <=> j = i
      PROVE  IF i = 1 THEN Head(s) = g /\ NotIn(t, g) ELSE Head(s) # g /\ OnceIn(t, g)
  <2>1. CASE i = 1
    <3>1. Head(s) = g
      BY <1>1, <1>4, <2>1
    <3>2. NotIn(t, g)
      BY <1>2, <1>4, <2>1 DEF NotIn
    <3> QED
      BY <2>1, <3>1, <3>2
  <2>2. CASE i # 1
    <3>1. i - 1 \in DOMAIN t /\ \A j \in DOMAIN t : t[j] = g <=> j = i - 1
      <4>1. /\ i \in Nat /\ i - 1 \in DOMAIN t
            /\ \A j \in DOMAIN t : j + 1 = i <=> j = i - 1
        BY <1>1, <2>2
      <4>2. \A j \in DOMAIN t : t[j] = g <=> j + 1 = i
        BY <1>2, <1>4
      <4> QED
        BY <4>1, <4>2
    <3>2. Head(s) # g
      BY <1>1, <1>4, <2>2
    <3> QED
      BY <2>2, <3>1, <3>2 DEF OnceIn
  <2> QED
    BY <2>1, <2>2
<1>5. ASSUME InOrder(s, g, h) PROVE InOrder(t, g, h)
  <2> SUFFICES ASSUME NEW i \in DOMAIN t, NEW j \in DOMAIN t, t[i] = g, t[j] = h
               PROVE  i < j
    BY DEF InOrder
  <2>1. i + 1 < j + 1
    BY <1>2, <1>5 DEF InOrder
  <2>2. i \in Nat /\ j \in Nat
    BY <1>1
  <2> QED
    BY <2>1, <2>2
<1>6. ASSUME InOrder(s, g, h), Head(s) = h PROVE NotIn(s, g)
  BY <1>1, <1>6 DEF InOrder, NotIn
<1> QED
  BY <1>3, <1>4, <1>5, <1>6 DEF OnceIn, t

(* A functor that is there once, or not at all, is counted so.             *)
LEMMA CountIn ==
  ASSUME NEW s, NEW f
  PROVE  /\ NotIn(s, f) => Cardinality({i \in DOMAIN s : s[i] = f}) = 0
         /\ OnceIn(s, f) => Cardinality({i \in DOMAIN s : s[i] = f}) = 1
<1> DEFINE D == {i \in DOMAIN s : s[i] = f}
<1>1. ASSUME NotIn(s, f) PROVE Cardinality(D) = 0
  <2>1. D = {}
    BY <1>1 DEF NotIn
  <2> QED
    BY <2>1, FS_EmptySet
<1>2. ASSUME OnceIn(s, f) PROVE Cardinality(D) = 1
  <2>1. PICK i \in DOMAIN s : \A j \in DOMAIN s : s[j] = f <=> j = i
    BY <1>2 DEF OnceIn
  <2>2. D = {i}
    BY <2>1
  <2> QED
    BY <2>2, FS_Singleton
<1> QED
  BY <1>1, <1>2

(* Appending to the second of two sequences, and taking from the first.    *)
LEMMA ConcatAppend ==
  ASSUME NEW S, NEW s \in Seq(S), NEW t \in Seq(S), NEW f \in S
  PROVE  s \o Append(t, f) = Append(s \o t, f)
<1> DEFINE u == Append(t, f)
           v == Append(s \o t, f)
<1>1. u \in Seq(S) /\ Len(u) = Len(t) + 1
      /\ \A i \in 1 .. Len(t) + 1 : u[i] = IF i = Len(t) + 1 THEN f ELSE t[i]
  OBVIOUS
<1>2. /\ s \o t \in Seq(S) /\ Len(s \o t) = Len(s) + Len(t)
      /\ \A i \in 1 .. Len(s) + Len(t) :
           (s \o t)[i] = IF i <= Len(s) THEN s[i] ELSE t[i - Len(s)]
  BY ConcatProperties
<1>3. /\ v \in Seq(S) /\ Len(v) = Len(s) + Len(t) + 1
      /\ \A i \in 1 .. Len(s) + Len(t) + 1 :
           v[i] = IF i = Len(s) + Len(t) + 1 THEN f ELSE (s \o t)[i]
  BY <1>2
<1> HIDE DEF u, v
<1>4. /\ s \o u \in Seq(S) /\ Len(s \o u) = Len(s) + Len(u)
      /\ \A i \in 1 .. Len(s) + Len(u) :
           (s \o u)[i] = IF i <= Len(s) THEN s[i] ELSE u[i - Len(s)]
  BY <1>1, ConcatProperties
<1>5. Len(s) \in Nat /\ Len(t) \in Nat
  OBVIOUS
<1>6. ASSUME NEW i \in 1 .. Len(s \o u) PROVE (s \o u)[i] = v[i]
  <2>1. CASE i <= Len(s)
    BY <1>1, <1>2, <1>3, <1>4, <1>5, <2>1
  <2>2. CASE i > Len(s)
    <3>1. i - Len(s) \in 1 .. Len(t) + 1 /\ (s \o u)[i] = u[i - Len(s)]
      BY <1>1, <1>4, <1>5, <2>2
    <3>2. CASE i = Len(s) + Len(t) + 1
      BY <1>1, <1>3, <1>5, <3>1, <3>2
    <3>3. CASE i # Len(s) + Len(t) + 1
      <4>1. (s \o u)[i] = t[i - Len(s)]
        <5>1. i - Len(s) # Len(t) + 1
          BY <1>1, <1>4, <1>5, <3>3
        <5> QED
          BY <1>1, <3>1, <5>1
      <4>2. v[i] = (s \o t)[i] /\ i \in 1 .. Len(s) + Len(t)
        BY <1>1, <1>3, <1>4, <1>5, <3>3
      <4>3. (s \o t)[i] = t[i - Len(s)]
        BY <1>2, <1>5, <2>2, <4>2
      <4> QED
        BY <4>1, <4>2, <4>3
    <3> QED
      BY <3>2, <3>3
  <2> QED
    BY <1>4, <1>5, <2>1, <2>2
<1>7. s \o u = v
  BY <1>1, <1>3, <1>4, <1>5, <1>6, SeqEqual
<1> QED
  BY <1>7 DEF u, v

LEMMA ConcatTail ==
  ASSUME NEW S, NEW s \in Seq(S), NEW t \in Seq(S), s # <<>>
  PROVE  s \o t # <<>> /\ Head(s \o t) = Head(s) /\ Tail(s \o t) = Tail(s) \o t
<1> DEFINE u == s \o t
           v == Tail(s)
           w == Tail(s \o t)
<1>1. Len(s) \in Nat \ {0} /\ Len(t) \in Nat
  OBVIOUS
<1>2. /\ u \in Seq(S) /\ Len(u) = Len(s) + Len(t)
      /\ \A i \in 1 .. Len(s) + Len(t) : u[i] = IF i <= Len(s) THEN s[i] ELSE t[i - Len(s)]
  BY ConcatProperties
<1>3. v \in Seq(S) /\ Len(v) = Len(s) - 1 /\ \A i \in 1 .. Len(s) - 1 : v[i] = s[i + 1]
  OBVIOUS
<1>4. u # <<>> /\ Head(u) = u[1] /\ Head(s) = s[1]
  BY <1>1, <1>2
<1>5. w \in Seq(S) /\ Len(w) = Len(u) - 1 /\ \A i \in 1 .. Len(u) - 1 : w[i] = u[i + 1]
  BY <1>2, <1>4
<1> HIDE DEF u, v, w
<1>6. /\ v \o t \in Seq(S) /\ Len(v \o t) = Len(v) + Len(t)
      /\ \A i \in 1 .. Len(v) + Len(t) : (v \o t)[i] = IF i <= Len(v) THEN v[i] ELSE t[i - Len(v)]
  BY <1>3, ConcatProperties
<1>7. ASSUME NEW i \in 1 .. Len(w) PROVE w[i] = (v \o t)[i]
  <2>1. /\ w[i] = IF i + 1 <= Len(s) THEN s[i + 1] ELSE t[(i + 1) - Len(s)]
        /\ i \in Nat /\ i >= 1 /\ i <= Len(s) + Len(t) - 1
    BY <1>1, <1>2, <1>5
  <2>2. (v \o t)[i] = IF i <= Len(s) - 1 THEN s[i + 1] ELSE t[i - (Len(s) - 1)]
    BY <1>1, <1>3, <1>6, <2>1
  <2>3. (i + 1) - Len(s) = i - (Len(s) - 1) /\ (i + 1 <= Len(s) <=> i <= Len(s) - 1)
    BY <1>1, <2>1
  <2> QED
    BY <2>1, <2>2, <2>3
<1>8. Len(w) = Len(v \o t)
  BY <1>1, <1>2, <1>3, <1>5, <1>6
<1>9. w = v \o t
  BY <1>5, <1>6, <1>7, <1>8, SeqEqual
<1>10. u[1] = s[1]
  BY <1>1, <1>2
<1> QED
  BY <1>4, <1>9, <1>10 DEF u, v, w

------------------------------------------------------------------------------
(* What a loop has still to do.                                            *)

todo(l) == batch[l] \o queue[l]

LoopsOK ==
  /\ \A l \in Loops : batch[l] # <<>> => at[l] = "batch"
  /\ server # "there" => at[Base] = "stopped"

(* What a step does to it: nothing, a functor more, a functor less.        *)
LEMMA TodoTyped ==
  ASSUME TypeOK
  PROVE  \A l \in Loops : todo(l) \in Seq(Functors)
BY ConcatProperties DEF TypeOK, todo

LEMMA TodoSame ==
  ASSUME UNCHANGED lists, NEW l \in Loops
  PROVE  todo(l)' = todo(l)
BY DEF todo, lists

LEMMA TodoPut ==
  ASSUME TypeOK, NEW k \in Loops, NEW f \in Functors, put(k, f), UNCHANGED batch
  PROVE  \A l \in Loops : todo(l)' = IF l = k THEN Append(todo(l), f) ELSE todo(l)
<1> SUFFICES ASSUME NEW l \in Loops
             PROVE  todo(l)' = IF l = k THEN Append(todo(l), f) ELSE todo(l)
  OBVIOUS
<1>1. batch[l] \in Seq(Functors) /\ queue[l] \in Seq(Functors)
  BY DEF TypeOK
<1>2. /\ batch'[l] = batch[l]
      /\ queue'[l] = IF l = k THEN Append(queue[l], f) ELSE queue[l]
  <2>1. queue' = [queue EXCEPT ![k] = Append(queue[k], f)] /\ batch' = batch
    BY DEF put
  <2> QED
    BY <2>1 DEF TypeOK
<1>3. batch[l] \o Append(queue[l], f) = Append(batch[l] \o queue[l], f)
  <2>1. \A s, t \in Seq(Functors) : s \o Append(t, f) = Append(s \o t, f)
    BY ConcatAppend
  <2> QED
    BY <1>1, <2>1, Zenon
<1> QED
  BY <1>2, <1>3 DEF todo

LEMMA TodoPop ==
  ASSUME TypeOK, NEW k \in Loops, batch[k] # <<>>, pop(k)
  PROVE  /\ todo(k) # <<>> /\ Head(todo(k)) = Head(batch[k])
         /\ UNCHANGED queue =>
              \A l \in Loops : todo(l)' = IF l = k THEN Tail(todo(l)) ELSE todo(l)
<1>1. /\ \A l \in Loops : batch[l] \in Seq(Functors) /\ queue[l] \in Seq(Functors)
      /\ \A l \in Loops : batch'[l] = IF l = k THEN Tail(batch[l]) ELSE batch[l]
  BY DEF TypeOK, pop
<1>2. \A q \in Seq(Functors) : /\ batch[k] \o q # <<>>
                               /\ Head(batch[k] \o q) = Head(batch[k])
                               /\ Tail(batch[k] \o q) = Tail(batch[k]) \o q
  BY <1>1, ConcatTail
<1>3. todo(k) # <<>> /\ Head(todo(k)) = Head(batch[k])
  BY <1>1, <1>2 DEF todo
<1>4. ASSUME UNCHANGED queue, NEW l \in Loops
      PROVE  todo(l)' = IF l = k THEN Tail(todo(l)) ELSE todo(l)
  BY <1>1, <1>2, <1>4 DEF todo
<1> QED
  BY <1>3, <1>4

LEMMA TodoTaken ==
  ASSUME TypeOK, LoopsOK, NEW k \in Loops, doPendingFunctors(k)
  PROVE  \A l \in Loops : todo(l)' = todo(l)
<1> SUFFICES ASSUME NEW l \in Loops PROVE todo(l)' = todo(l)
  OBVIOUS
<1>1. /\ batch'[l] = IF l = k THEN queue[l] ELSE batch[l]
      /\ queue'[l] = IF l = k THEN <<>> ELSE queue[l]
      /\ queue[l] \in Seq(Functors)
  BY DEF doPendingFunctors, TypeOK
<1>2. batch[k] = <<>>
  BY DEF doPendingFunctors, moves, LoopsOK
<1>3. queue[l] \o <<>> = <<>> \o queue[l]
  BY <1>1
<1> QED
  BY <1>1, <1>2, <1>3 DEF todo

------------------------------------------------------------------------------
(* The functors of a connection.                                           *)

Opens(c) == Fn("connectEstablished", c)
Removes(c) == Fn("removeConnectionInLoop", c)
Destroys(c) == Fn("connectDestroy", c)

LEMMA FunctorsDiffer ==
  ASSUME NEW c \in Clients, NEW d \in Clients
  PROVE  /\ {Opens(c), Removes(c), Destroys(c)} \subseteq Functors
         /\ Opens(c) # Removes(d) /\ Opens(c) # Destroys(d) /\ Removes(c) # Destroys(d)
         /\ c # d => /\ Opens(c) # Opens(d) /\ Removes(c) # Removes(d)
                     /\ Destroys(c) # Destroys(d)
BY DEF Opens, Removes, Destroys, Fn, Functors

LEMMA FunctorOf ==
  ASSUME TypeOK, NEW l \in Loops, NEW name, functor(l, name),
         name \in {"connectEstablished", "removeConnectionInLoop", "connectDestroy"}
  PROVE  Head(batch[l]).conn \in Clients /\ Head(batch[l]) = Fn(name, Head(batch[l]).conn)
<1>1. batch[l] \in Seq(Functors) /\ batch[l] # <<>> /\ Head(batch[l]).fn = name
  BY DEF TypeOK, functor
<1>2. Head(batch[l]) \in Functors
  BY <1>1
<1> QED
  BY <1>1, <1>2 DEF Functors, Fn

(* A functor is in t as it was in s.                                       *)
SameOf(s, t, f) == (NotIn(s, f) => NotIn(t, f)) /\ (OnceIn(s, f) => OnceIn(t, f))

(* The queues change, but for c as if they had not.                        *)
Follows(c) ==
  \A l \in Loops :
    /\ SameOf(todo(l), todo(l)', Opens(c))
    /\ SameOf(todo(l), todo(l)', Removes(c))
    /\ SameOf(todo(l), todo(l)', Destroys(c))
    /\ InOrder(todo(l), Opens(c), Destroys(c)) => InOrder(todo(l)', Opens(c), Destroys(c))

(* A step that adds f to the functors of k keeps every other functor.      *)
LEMMA PutKeeps ==
  ASSUME TypeOK, NEW k \in Loops, NEW f \in Functors, put(k, f), UNCHANGED batch
  PROVE  /\ NotIn(todo(k), f) => OnceIn(todo(k)', f)
         /\ \A l \in Loops : l # k => todo(l)' = todo(l)
         /\ \A l \in Loops : \A g : f # g => SameOf(todo(l), todo(l)', g)
         /\ \A l \in Loops : \A g, h : f # g /\ InOrder(todo(l), g, h) => InOrder(todo(l)', g, h)
<1>1. \A l \in Loops : todo(l)' = IF l = k THEN Append(todo(l), f) ELSE todo(l)
  BY TodoPut
<1>2. \A s \in Seq(Functors) : \A g, h :
        /\ f # g /\ NotIn(s, g) => NotIn(Append(s, f), g)
        /\ f # g /\ OnceIn(s, g) => OnceIn(Append(s, f), g)
        /\ f = g /\ NotIn(s, g) => OnceIn(Append(s, f), g)
        /\ f # g /\ InOrder(s, g, h) => InOrder(Append(s, f), g, h)
  BY AppendedIn
<1>3. \A l \in Loops : todo(l) \in Seq(Functors)
  BY TodoTyped
<1> QED
  BY <1>1, <1>2, <1>3 DEF SameOf

(* A step that takes the first functor of k keeps every other functor.     *)
LEMMA PopKeeps ==
  ASSUME TypeOK, NEW k \in Loops, batch[k] # <<>>, pop(k), UNCHANGED queue
  PROVE  /\ OnceIn(todo(k), Head(batch[k])) => NotIn(todo(k)', Head(batch[k]))
         /\ \A l \in Loops : l # k => todo(l)' = todo(l)
         /\ \A l \in Loops : \A g : Head(batch[k]) # g => SameOf(todo(l), todo(l)', g)
         /\ \A l \in Loops : \A g, h : InOrder(todo(l), g, h) => InOrder(todo(l)', g, h)
<1> DEFINE s == todo(k)
           t == todo(k)'
<1>1. /\ s # <<>> /\ Head(s) = Head(batch[k]) /\ t = Tail(s) /\ s \in Seq(Functors)
      /\ \A l \in Loops : l # k => todo(l)' = todo(l)
  BY TodoPop, TodoTyped
<1> HIDE DEF s, t
<1>2. \A g, h :
        /\ NotIn(s, g) => Head(s) # g /\ NotIn(t, g)
        /\ Head(s) # g /\ OnceIn(s, g) => OnceIn(t, g)
        /\ Head(s) = g /\ OnceIn(s, g) => NotIn(t, g)
        /\ InOrder(s, g, h) => InOrder(t, g, h)
  BY <1>1, TakenFrom
<1>3. ASSUME NEW g, Head(s) # g PROVE SameOf(s, t, g)
  BY <1>2, <1>3 DEF SameOf
<1>4. \A l \in Loops : \A g : Head(batch[k]) # g => SameOf(todo(l), todo(l)', g)
  BY <1>1, <1>3 DEF SameOf, s, t
<1>5. \A l \in Loops : \A g, h : InOrder(todo(l), g, h) => InOrder(todo(l)', g, h)
  BY <1>1, <1>2 DEF s, t
<1>6. OnceIn(todo(k), Head(batch[k])) => NotIn(todo(k)', Head(batch[k]))
  BY <1>1, <1>2 DEF s, t
<1> QED
  BY <1>1, <1>4, <1>5, <1>6

(* The first functor of a batch is there, and nothing it must follow is.   *)
LEMMA HeadIsThere ==
  ASSUME TypeOK, NEW k \in Loops, batch[k] # <<>>
  PROVE  /\ ~NotIn(todo(k), Head(batch[k]))
         /\ \A g : InOrder(todo(k), g, Head(batch[k])) => NotIn(todo(k), g)
<1>1. \A s, t \in Seq(Functors) : s # <<>> => s \o t # <<>> /\ Head(s \o t) = Head(s)
  BY ConcatTail
<1>2. todo(k) # <<>> /\ Head(todo(k)) = Head(batch[k])
  BY <1>1 DEF TypeOK, todo
<1>3. \A s \in Seq(Functors) : \A g, h : s # <<>> =>
        /\ NotIn(s, g) => Head(s) # g
        /\ InOrder(s, g, h) /\ Head(s) = h => NotIn(s, g)
  BY TakenFrom
<1> QED
  BY <1>2, <1>3, TodoTyped

(* Both at once: the first functor of j is taken, and f added to those of k. *)
LEMMA PopPutTodo ==
  ASSUME TypeOK, NEW j \in Loops, NEW k \in Loops, NEW f \in Functors,
         batch[j] # <<>>, pop(j), put(k, f), NEW l \in Loops
  PROVE  /\ todo(l) \in Seq(Functors) /\ (l = j => todo(l) # <<>>)
         /\ Head(todo(j)) = Head(batch[j])
         /\ LET t == IF l = j THEN Tail(todo(l)) ELSE todo(l)
            IN t \in Seq(Functors) /\ todo(l)' = IF l = k THEN Append(t, f) ELSE t
<1> DEFINE b == IF l = j THEN Tail(batch[l]) ELSE batch[l]
           q == queue[l]
           t == IF l = j THEN Tail(todo(l)) ELSE todo(l)
<1>1. batch[l] \in Seq(Functors) /\ q \in Seq(Functors) /\ (l = j => batch[l] # <<>>)
  BY DEF TypeOK
<1>2. b \in Seq(Functors) /\ todo(l) \in Seq(Functors)
  BY <1>1, TodoTyped
<1>3. batch'[l] = b /\ queue'[l] = IF l = k THEN Append(q, f) ELSE q
  BY DEF TypeOK, pop, put
<1>4. \A s, u \in Seq(Functors) : s # <<>> =>
        s \o u # <<>> /\ Head(s \o u) = Head(s) /\ Tail(s \o u) = Tail(s) \o u
  BY ConcatTail
<1>5. t = b \o q /\ (l = j => todo(l) # <<>>)
  BY <1>1, <1>4 DEF todo
<1>6. Head(todo(j)) = Head(batch[j])
  BY <1>4 DEF TypeOK, todo
<1>7. t \in Seq(Functors)
  BY <1>1, <1>2, <1>5, ConcatProperties
<1>8. \A s, u \in Seq(Functors) : s \o Append(u, f) = Append(s \o u, f)
  BY ConcatAppend
<1>9. b \o Append(q, f) = Append(b \o q, f)
  BY <1>1, <1>2, <1>8, Zenon
<1>10. todo(l)' = IF l = k THEN Append(t, f) ELSE t
  BY <1>3, <1>5, <1>9 DEF todo
<1> QED
  BY <1>2, <1>5, <1>6, <1>7, <1>10

LEMMA PopPutKeeps ==
  ASSUME TypeOK, NEW j \in Loops, NEW k \in Loops, NEW f \in Functors,
         batch[j] # <<>>, pop(j), put(k, f), Head(batch[j]) # f
  PROVE  /\ NotIn(todo(k), f) => OnceIn(todo(k)', f)
         /\ OnceIn(todo(j), Head(batch[j])) => NotIn(todo(j)', Head(batch[j]))
         /\ \A l \in Loops : l # k /\ NotIn(todo(l), f) => NotIn(todo(l)', f)
         /\ \A l \in Loops : \A g : f # g /\ NotIn(todo(l), g) => NotIn(todo(l)', g)
         /\ \A l \in Loops : \A g :
              f # g /\ Head(batch[j]) # g => SameOf(todo(l), todo(l)', g)
         /\ \A l \in Loops : \A g, h : f # g /\ InOrder(todo(l), g, h) => InOrder(todo(l)', g, h)
<1> DEFINE first == Head(batch[j])
<1>1. \A l \in Loops : \E t \in Seq(Functors) :
        /\ \A g : NotIn(todo(l), g) => NotIn(t, g)
        /\ \A g : first # g => SameOf(todo(l), t, g)
        /\ \A g, h : InOrder(todo(l), g, h) => InOrder(t, g, h)
        /\ l = j /\ OnceIn(todo(j), first) => NotIn(t, first)
        /\ todo(l)' = IF l = k THEN Append(t, f) ELSE t
  <2> SUFFICES ASSUME NEW l \in Loops
               PROVE  \E t \in Seq(Functors) :
                        /\ \A g : NotIn(todo(l), g) => NotIn(t, g)
                        /\ \A g : first # g => SameOf(todo(l), t, g)
                        /\ \A g, h : InOrder(todo(l), g, h) => InOrder(t, g, h)
                        /\ l = j /\ OnceIn(todo(j), first) => NotIn(t, first)
                        /\ todo(l)' = IF l = k THEN Append(t, f) ELSE t
    OBVIOUS
  <2> DEFINE s == todo(l)
             t == IF l = j THEN Tail(s) ELSE s
             u == todo(l)'
  <2>1. /\ s \in Seq(Functors) /\ t \in Seq(Functors)
        /\ l = j => s # <<>> /\ Head(s) = first /\ t = Tail(s)
        /\ l # j => t = s
        /\ u = IF l = k THEN Append(t, f) ELSE t
    BY PopPutTodo
  <2> HIDE DEF s, t, u, first
  <2>2. CASE l # j
    BY <2>1, <2>2 DEF SameOf, s, u
  <2>3. CASE l = j
    <3>1. \A g, h :
            /\ NotIn(s, g) => NotIn(t, g)
            /\ Head(s) # g /\ OnceIn(s, g) => OnceIn(t, g)
            /\ Head(s) = g /\ OnceIn(s, g) => NotIn(t, g)
            /\ InOrder(s, g, h) => InOrder(t, g, h)
      <4>1. s \in Seq(Functors) /\ s # <<>> /\ t = Tail(s)
        BY <2>1, <2>3
      <4> QED
        BY <4>1, TakenFrom
    <3>2. \A g : first # g => SameOf(s, t, g)
      BY <2>1, <2>3, <3>1 DEF SameOf
    <3> QED
      BY <2>1, <2>3, <3>1, <3>2 DEF s, u
  <2> QED
    BY <2>2, <2>3
<1> HIDE DEF first
<1>2. \A s \in Seq(Functors) : \A g, h :
        /\ f # g /\ NotIn(s, g) => NotIn(Append(s, f), g)
        /\ f # g /\ OnceIn(s, g) => OnceIn(Append(s, f), g)
        /\ f = g /\ NotIn(s, g) => OnceIn(Append(s, f), g)
        /\ f # g /\ InOrder(s, g, h) => InOrder(Append(s, f), g, h)
  BY AppendedIn
<1>3. ASSUME NEW l \in Loops
      PROVE  /\ l = k /\ NotIn(todo(l), f) => OnceIn(todo(l)', f)
             /\ l = j /\ OnceIn(todo(l), first) => NotIn(todo(l)', first)
             /\ l # k /\ NotIn(todo(l), f) => NotIn(todo(l)', f)
             /\ \A g : f # g /\ NotIn(todo(l), g) => NotIn(todo(l)', g)
             /\ \A g : f # g /\ first # g => SameOf(todo(l), todo(l)', g)
             /\ \A g, h : f # g /\ InOrder(todo(l), g, h) => InOrder(todo(l)', g, h)
  <2> DEFINE s == todo(l)
             u == todo(l)'
  <2>1. PICK t \in Seq(Functors) :
          /\ \A g : NotIn(s, g) => NotIn(t, g)
          /\ \A g : first # g => SameOf(s, t, g)
          /\ \A g, h : InOrder(s, g, h) => InOrder(t, g, h)
          /\ l = j /\ OnceIn(s, first) => NotIn(t, first)
          /\ u = IF l = k THEN Append(t, f) ELSE t
    BY <1>1
  <2> HIDE DEF s, u
  <2>2. first # f
    BY DEF first
  <2>3. CASE l = k
    BY <1>2, <2>1, <2>2, <2>3 DEF SameOf, s, u
  <2>4. CASE l # k
    BY <2>1, <2>2, <2>4 DEF SameOf, s, u
  <2> QED
    BY <2>3, <2>4
<1> QED
  BY <1>3 DEF first

------------------------------------------------------------------------------
(* The invariant.                                                          *)

(* A connection's functors are in its own loop, but the one that takes it  *)
(* out of connections_, which is in the base loop.                         *)
Placed(c) ==
  /\ \A l \in Loops :
       /\ life[c] = "away" \/ l # loopOf[c] =>
            NotIn(todo(l), Opens(c)) /\ NotIn(todo(l), Destroys(c))
       /\ life[c] = "away" \/ l # Base => NotIn(todo(l), Removes(c))
  /\ life[c] # "away" => loopOf[c] \in Loops
  /\ c \in backlog => life[c] = "away"

(* It is opened once, and destroyed once: by its connectDestroy, or, while *)
(* it is in connections_, by whoever takes it out.                         *)
Tidy(c) ==
  LET mine == todo(loopOf[c])
  IN life[c] # "away" =>
       /\ IF life[c] = "new" THEN OnceIn(mine, Opens(c)) ELSE NotIn(mine, Opens(c))
       /\ IF life[c] = "gone" \/ c \in connections_
          THEN NotIn(mine, Destroys(c)) ELSE OnceIn(mine, Destroys(c))
       /\ InOrder(mine, Opens(c), Destroys(c))
       /\ life[c] = "new" => ~(baseTid /\ loopOf[c] = Base)

(* While the server is there, a connection leaves connections_ only after  *)
(* it went down, and then by the one functor that takes it out.            *)
Listed(c) ==
  /\ c \in connections_ => life[c] \in {"new", "up", "shut", "down"}
  /\ server = "there" /\ life[c] \in {"new", "up", "shut"} => c \in connections_
  /\ at[Base] # "stopped" =>
       IF life[c] = "down" /\ c \in connections_
       THEN OnceIn(todo(Base), Removes(c)) ELSE NotIn(todo(Base), Removes(c))

Cared(c) == Placed(c) /\ Tidy(c) /\ Listed(c)

ServerInv == TypeOK /\ LoopsOK /\ \A c \in Clients : Cared(c)

(* What a step does not concern is cared for as before.                    *)
LEMMA OthersKept ==
  ASSUME NEW c \in Clients, Cared(c), Follows(c), UNCHANGED baseTid,
         life'[c] = life[c], loopOf'[c] = loopOf[c],
         c \in connections_' <=> c \in connections_,
         c \in backlog' => c \in backlog \/ life[c] = "away",
         at'[Base] # "stopped" => at[Base] # "stopped",
         server' = "there" => server = "there"
  PROVE  Cared(c)'
<1>1. Placed(c)'
  BY DEF Cared, Placed, Follows, SameOf
<1>2. Tidy(c)'
  <2>1. CASE life[c] = "away"
    BY <2>1 DEF Tidy
  <2>2. CASE life[c] # "away"
    <3>1. PICK l \in Loops : l = loopOf[c] /\ l = loopOf'[c]
      BY <2>2 DEF Cared, Placed
    <3>2. /\ SameOf(todo(l), todo(l)', Opens(c)) /\ SameOf(todo(l), todo(l)', Destroys(c))
          /\ InOrder(todo(l), Opens(c), Destroys(c)) =>
               InOrder(todo(l)', Opens(c), Destroys(c))
      BY DEF Follows
    <3> QED
      BY <3>1, <3>2, <2>2 DEF Cared, Tidy, SameOf, todo
  <2> QED
    BY <2>1, <2>2
<1>3. Listed(c)'
  <2>1. SameOf(todo(Base), todo(Base)', Removes(c))
    BY DEF Follows, Loops
  <2> QED
    BY <2>1 DEF Cared, Listed, SameOf
<1> QED
  BY <1>1, <1>2, <1>3 DEF Cared

LEMMA SameFollows ==
  ASSUME NEW c, \A l \in Loops : todo(l)' = todo(l)
  PROVE  Follows(c)
BY DEF Follows, SameOf

LEMMA PutFollows ==
  ASSUME TypeOK, NEW k \in Loops, NEW f \in Functors, put(k, f), UNCHANGED batch,
         NEW c, f \notin {Opens(c), Removes(c), Destroys(c)}
  PROVE  Follows(c)
BY PutKeeps DEF Follows

LEMMA PopFollows ==
  ASSUME TypeOK, NEW k \in Loops, batch[k] # <<>>, pop(k), UNCHANGED queue,
         NEW c, Head(batch[k]) \notin {Opens(c), Removes(c), Destroys(c)}
  PROVE  Follows(c)
BY PopKeeps DEF Follows

(* The steps of a connection's life: shut, it is gone without being down   *)
(* only where the server is leaving.                                       *)
Turns == {<<"away", "new">>, <<"away", "up">>, <<"new", "up">>, <<"up", "shut">>,
          <<"up", "down">>, <<"shut", "down">>, <<"shut", "gone">>, <<"down", "gone">>}

LifeStep ==
  \/ UNCHANGED life /\ (server' = "there" => server = "there")
  \/ \E c \in Clients, v \in {"new", "up", "shut", "down", "gone"} :
       /\ <<life[c], v>> \in Turns /\ life' = [life EXCEPT ![c] = v]
       /\ life[c] = "shut" /\ v = "gone" => server # "there"
       /\ UNCHANGED server

(* A step that concerns no connection.                                     *)
LEMMA QuietKeeps ==
  ASSUME ServerInv, TypeOK', LoopsOK',
         UNCHANGED <<baseTid, connections_, loopOf, life>>,
         \A c \in Clients : Follows(c),
         \A c \in backlog' : c \in backlog \/ life[c] = "away",
         at'[Base] # "stopped" => at[Base] # "stopped",
         server' = "there" => server = "there"
  PROVE  ServerInv' /\ LifeStep
<1>1. ASSUME NEW c \in Clients PROVE Cared(c)'
  BY OthersKept DEF ServerInv
<1> QED
  BY <1>1 DEF ServerInv, LifeStep

LEMMA PutTyped ==
  ASSUME TypeOK, NEW k \in Loops, NEW f \in Functors, put(k, f)
  PROVE  queue' \in [Loops -> Seq(Functors)]
<1>1. Append(queue[k], f) \in Seq(Functors)
  BY AppendProperties DEF TypeOK
<1> QED
  BY <1>1 DEF put, TypeOK

LEMMA PopTyped ==
  ASSUME TypeOK, NEW k \in Loops, batch[k] # <<>>, pop(k)
  PROVE  /\ batch' \in [Loops -> Seq(Functors)]
         /\ \A l \in Loops : batch'[l] # <<>> => batch[l] # <<>>
<1>1. Tail(batch[k]) \in Seq(Functors)
  BY DEF TypeOK
<1> QED
  BY <1>1 DEF pop, TypeOK

LEMMA StartsQuietly ==
  ASSUME ServerInv, start
  PROVE  ServerInv' /\ LifeStep
<1>1. TypeOK /\ LoopsOK
  BY DEF ServerInv
<1>2. /\ UNCHANGED <<baseTid, connections_, loopOf, life, backlog, batch, at, quitOf, server>>
      /\ started_' = started_ + 1 /\ started_ < 2
      /\ UNCHANGED listening \/ listening' = TRUE
      /\ UNCHANGED queue \/ put(Base, [fn |-> "listen"])
  BY DEF start, loops
<1>3. Base \in Loops /\ [fn |-> "listen"] \in Functors
  BY DEF Loops, Functors
<1>4. queue' \in [Loops -> Seq(Functors)]
  BY <1>1, <1>2, <1>3, PutTyped DEF TypeOK
<1>5. TypeOK'
  <2>1. started_ \in 0 .. 2 /\ listening \in BOOLEAN
    BY <1>1 DEF TypeOK
  <2>2. /\ started_' = started_ + 1 /\ started_ < 2
        /\ UNCHANGED listening \/ listening' = TRUE
    BY <1>2
  <2>3. started_' \in 0 .. 2
    BY <2>1, <2>2
  <2>4. listening' \in BOOLEAN
    BY <2>1, <2>2
  <2> QED
    BY <1>1, <1>2, <1>4, <2>3, <2>4 DEF TypeOK
<1>6. LoopsOK'
  BY <1>1, <1>2 DEF LoopsOK
<1>7. ASSUME NEW c \in Clients PROVE Follows(c)
  <2>1. CASE UNCHANGED queue
    BY <1>2, <2>1, SameFollows DEF todo
  <2>2. CASE put(Base, [fn |-> "listen"])
    <3>1. [fn |-> "listen"] \notin {Opens(c), Removes(c), Destroys(c)}
      BY DEF Opens, Removes, Destroys, Fn
    <3> QED
      BY <1>1, <1>2, <1>3, <2>2, <3>1, PutFollows
  <2> QED
    BY <1>2, <2>1, <2>2
<1> QED
  BY <1>2, <1>5, <1>6, <1>7, QuietKeeps

LEMMA TurnsQuietly ==
  ASSUME ServerInv, NEW l \in Loops,
         loopTest(l) \/ doPendingFunctors(l) \/ doPendingFunctorsEnd(l) \/ listen(l)
  PROVE  ServerInv' /\ LifeStep
<1>1. TypeOK /\ LoopsOK
  BY DEF ServerInv
<1>2. /\ UNCHANGED <<baseTid, connections_, loopOf, life, backlog, started_, quitOf, server>>
      /\ listening' \in BOOLEAN
  BY <1>1 DEF loopTest, doPendingFunctors, doPendingFunctorsEnd, listen, functor,
     TypeOK, lists, loops
<1>3. \/ at' = at
      \/ /\ at[l] # "stopped"
         /\ \E p \in {"check", "events", "batch", "stopped"} : at' = [at EXCEPT ![l] = p]
  <2>1. \A p, q : moves(l, p, q) => at[l] = p /\ at' = [at EXCEPT ![l] = q]
    BY DEF moves
  <2> QED
    BY <2>1 DEF loopTest, doPendingFunctors, doPendingFunctorsEnd, listen, functor, loops
<1>4. /\ at' \in [Loops -> {"check", "events", "batch", "stopped"}]
      /\ at[Base] = "stopped" => at'[Base] = "stopped"
  BY <1>1, <1>3 DEF TypeOK, Loops
<1>5. /\ queue' \in [Loops -> Seq(Functors)] /\ batch' \in [Loops -> Seq(Functors)]
      /\ \A c \in Clients : Follows(c)
      /\ \A k \in Loops : batch'[k] # <<>> => at'[k] = "batch"
  <2>1. CASE loopTest(l) \/ doPendingFunctorsEnd(l)
    <3>1. UNCHANGED <<queue, batch>> /\ \A k \in Loops : k # l => at'[k] = at[k]
      BY <2>1, <1>1 DEF loopTest, doPendingFunctorsEnd, moves, lists, TypeOK
    <3>2. batch[l] = <<>>
      BY <2>1, <1>1 DEF loopTest, doPendingFunctorsEnd, moves, LoopsOK
    <3> QED
      BY <1>1, <3>1, <3>2, SameFollows DEF TypeOK, LoopsOK, todo
  <2>2. CASE doPendingFunctors(l)
    <3>1. /\ queue' = [queue EXCEPT ![l] = <<>>] /\ batch' = [batch EXCEPT ![l] = queue[l]]
          /\ at' = [at EXCEPT ![l] = "batch"]
      BY <2>2 DEF doPendingFunctors, moves
    <3>2. queue' \in [Loops -> Seq(Functors)] /\ batch' \in [Loops -> Seq(Functors)]
      BY <1>1, <3>1 DEF TypeOK
    <3>3. \A k \in Loops : todo(k)' = todo(k)
      BY <1>1, <2>2, TodoTaken
    <3>4. \A k \in Loops : batch'[k] # <<>> => at'[k] = "batch"
      BY <1>1, <3>1 DEF TypeOK, LoopsOK
    <3> QED
      BY <3>2, <3>3, <3>4, SameFollows
  <2>3. CASE listen(l)
    <3>1. /\ batch[l] # <<>> /\ pop(l) /\ UNCHANGED <<queue, at>>
          /\ Head(batch[l]).fn = "listen"
      BY <2>3 DEF listen, functor, loops
    <3>2. batch' \in [Loops -> Seq(Functors)] /\ queue' \in [Loops -> Seq(Functors)]
      BY <1>1, <3>1, PopTyped DEF TypeOK
    <3>3. \A c \in Clients : Head(batch[l]) \notin {Opens(c), Removes(c), Destroys(c)}
      BY <3>1 DEF Opens, Removes, Destroys, Fn
    <3>4. \A c \in Clients : Follows(c)
      BY <1>1, <3>1, <3>3, PopFollows
    <3>5. \A k \in Loops : batch'[k] # <<>> => batch[k] # <<>>
      BY <1>1, <3>1, PopTyped
    <3> QED
      BY <1>1, <3>1, <3>2, <3>4, <3>5 DEF LoopsOK
  <2> QED
    BY <2>1, <2>2, <2>3
<1>6. TypeOK' /\ LoopsOK'
  BY <1>1, <1>2, <1>3, <1>4, <1>5 DEF TypeOK, LoopsOK
<1> QED
  BY <1>2, <1>4, <1>5, <1>6, QuietKeeps

LEMMA EndsQuietly ==
  ASSUME ServerInv,
         \/ quitBase \/ destroyServer \/ serverGone
         \/ \E l \in SubLoops : quitSubLoop(l)
         \/ \E c \in Clients : connect(c)
  PROVE  ServerInv' /\ LifeStep
<1>1. TypeOK /\ LoopsOK
  BY DEF ServerInv
<1>2. /\ UNCHANGED <<baseTid, started_, connections_, loopOf, life, queue, batch, at>>
      /\ listening' \in BOOLEAN
      /\ server' \in {"there", "leaving", "gone"}
      /\ quitOf' \in [Loops -> BOOLEAN]
      /\ backlog' \subseteq Clients
      /\ \A c \in backlog' : c \in backlog \/ life[c] = "away"
      /\ server' # "there" => at[Base] = "stopped"
      /\ server' = "there" => server = "there"
  BY <1>1 DEF quitBase, destroyServer, serverGone, quitSubLoop, connect, quitLoop,
     TypeOK, LoopsOK, lists, loops
<1>3. TypeOK' /\ LoopsOK'
  BY <1>1, <1>2 DEF TypeOK, LoopsOK
<1>4. \A c \in Clients : Follows(c)
  BY <1>2, SameFollows DEF todo
<1> QED
  BY <1>2, <1>3, <1>4, QuietKeeps

(* A step that concerns c alone.                                           *)
LEMMA FocusKeeps ==
  ASSUME ServerInv, NEW c \in Clients, TypeOK', LoopsOK', Cared(c)', UNCHANGED baseTid,
         \A d \in Clients \ {c} :
           /\ Follows(d) /\ life'[d] = life[d] /\ loopOf'[d] = loopOf[d]
           /\ d \in connections_' <=> d \in connections_
           /\ d \in backlog' => d \in backlog,
         at'[Base] # "stopped" => at[Base] # "stopped",
         server' = "there" => server = "there"
  PROVE  ServerInv'
<1>1. ASSUME NEW d \in Clients \ {c} PROVE Cared(d)'
  BY <1>1, OthersKept DEF ServerInv
<1> QED
  BY <1>1 DEF ServerInv

(* A client is accepted: opened by the base loop, or by its loop later.    *)
LEMMA AcceptKeeps ==
  ASSUME ServerInv, NEW c \in Clients, handleRead(c)
  PROVE  ServerInv' /\ LifeStep
<1>1. TypeOK /\ LoopsOK /\ Cared(c) /\ Base \in Loops
  BY DEF ServerInv, Loops
<1>2. PICK l \in Loops : newConnection(c, l)
  BY DEF handleRead, nextLoops, Loops
<1>3. /\ backlog' = backlog \ {c} /\ c \in backlog
      /\ connections_' = connections_ \cup {c}
      /\ loopOf' = [loopOf EXCEPT ![c] = l]
      /\ UNCHANGED <<baseTid, started_, listening, batch, at, quitOf, server>>
  BY <1>2 DEF handleRead, newConnection, loops
<1>4. life[c] = "away" /\ at[Base] = "events"
  BY <1>1, <1>3 DEF Cared, Placed, handleRead, inHandlers
<1>5. /\ backlog' \subseteq Clients /\ connections_' \subseteq Clients
      /\ loopOf' \in [Clients -> Loops \cup {NoLoop}] /\ loopOf'[c] = l
      /\ \A d \in Clients \ {c} :
           /\ loopOf'[d] = loopOf[d]
           /\ d \in connections_' <=> d \in connections_
           /\ d \in backlog' => d \in backlog
  BY <1>1, <1>3 DEF TypeOK
<1>6. LoopsOK'
  BY <1>1, <1>3 DEF LoopsOK
<1>7. \A k \in Loops :
        /\ NotIn(todo(k), Opens(c)) /\ NotIn(todo(k), Removes(c))
        /\ NotIn(todo(k), Destroys(c))
  BY <1>1, <1>4 DEF Cared, Placed
<1>8. \A s : NotIn(s, Opens(c)) \/ NotIn(s, Destroys(c)) => InOrder(s, Opens(c), Destroys(c))
  BY DEF NotIn, InOrder
<1>9. CASE inline(Base, l)
  <2>1. life' = [life EXCEPT ![c] = "up"] /\ UNCHANGED queue
    BY <1>2, <1>9 DEF newConnection
  <2>2. TypeOK'
    BY <1>1, <1>3, <1>5, <2>1 DEF TypeOK
  <2>3. \A k \in Loops : todo(k)' = todo(k)
    BY <1>3, <2>1 DEF todo
  <2>4. life'[c] = "up" /\ \A d \in Clients \ {c} : life'[d] = life[d]
    BY <1>1, <2>1 DEF TypeOK
  <2>5. Cared(c)'
    <3>1. Placed(c)'
      BY <1>3, <1>5, <1>7, <2>3, <2>4 DEF Placed
    <3>2. Tidy(c)'
      BY <1>3, <1>5, <1>7, <1>8, <2>3, <2>4 DEF Tidy, todo
    <3>3. Listed(c)'
      BY <1>1, <1>3, <1>7, <2>3, <2>4 DEF Listed
    <3> QED
      BY <3>1, <3>2, <3>3 DEF Cared
  <2>6. ServerInv'
    BY <1>3, <1>5, <1>6, <2>2, <2>3, <2>4, <2>5, SameFollows, FocusKeeps
  <2> QED
    BY <1>3, <1>4, <2>1, <2>6 DEF LifeStep, Turns
<1>10. CASE ~inline(Base, l)
  <2>1. life' = [life EXCEPT ![c] = "new"] /\ put(l, Opens(c))
    BY <1>2, <1>10 DEF newConnection, Opens
  <2>2. Opens(c) \in Functors /\ Opens(c) # Removes(c) /\ Opens(c) # Destroys(c)
    BY FunctorsDiffer
  <2>3. TypeOK'
    BY <1>1, <1>3, <1>5, <2>1, <2>2, PutTyped DEF TypeOK
  <2>4. life'[c] = "new" /\ \A d \in Clients \ {c} : life'[d] = life[d]
    BY <1>1, <2>1 DEF TypeOK
  <2>5. /\ OnceIn(todo(l)', Opens(c))
        /\ \A k \in Loops : k # l => todo(k)' = todo(k)
        /\ \A k \in Loops : NotIn(todo(k)', Removes(c)) /\ NotIn(todo(k)', Destroys(c))
    BY <1>1, <1>3, <1>7, <2>1, <2>2, PutKeeps DEF SameOf
  <2>6. ~(baseTid /\ l = Base)
    BY <1>10 DEF inline
  <2>7. Cared(c)'
    <3>1. Placed(c)'
      BY <1>3, <1>5, <1>7, <2>4, <2>5 DEF Placed
    <3>2. Tidy(c)'
      BY <1>3, <1>5, <1>8, <2>4, <2>5, <2>6 DEF Tidy, todo
    <3>3. Listed(c)'
      BY <1>1, <1>3, <2>4, <2>5 DEF Listed
    <3> QED
      BY <3>1, <3>2, <3>3 DEF Cared
  <2>8. ASSUME NEW d \in Clients \ {c} PROVE Follows(d)
    <3>1. Opens(c) \notin {Opens(d), Removes(d), Destroys(d)}
      BY <2>8, FunctorsDiffer
    <3> QED
      BY <1>1, <1>3, <2>1, <2>2, <3>1, PutFollows
  <2>9. ServerInv'
    BY <1>3, <1>5, <1>6, <2>3, <2>4, <2>7, <2>8, FocusKeeps
  <2> QED
    BY <1>3, <1>4, <2>1, <2>9 DEF LifeStep, Turns
<1> QED
  BY <1>9, <1>10

(* A connection goes down and is taken out, by the base loop or later.     *)
LEMMA CloseKeeps ==
  ASSUME ServerInv, NEW c \in Clients, handleClose(c)
  PROVE  ServerInv' /\ LifeStep
<1>1. TypeOK /\ LoopsOK /\ Cared(c) /\ Base \in Loops
  BY DEF ServerInv, Loops
<1>2. /\ life[c] \in {"up", "shut"} /\ at[loopOf[c]] = "events"
      /\ life' = [life EXCEPT ![c] = "down"]
      /\ UNCHANGED <<baseTid, started_, listening, backlog, loopOf, batch, at, quitOf, server>>
      /\ IF inline(loopOf[c], Base)
         THEN removeConnectionInLoop(c)
         ELSE put(Base, Removes(c)) /\ UNCHANGED connections_
  BY DEF handleClose, inHandlers, loops, Removes
<1>3. PICK l \in Loops : l = loopOf[c]
  BY <1>1, <1>2 DEF Cared, Placed
<1>4. LoopsOK'
  BY <1>1, <1>2 DEF LoopsOK
<1>5. life'[c] = "down" /\ \A d \in Clients \ {c} : life'[d] = life[d]
  BY <1>1, <1>2 DEF TypeOK
<1>6. /\ NotIn(todo(l), Opens(c))
      /\ IF c \in connections_ THEN NotIn(todo(l), Destroys(c)) ELSE OnceIn(todo(l), Destroys(c))
      /\ InOrder(todo(l), Opens(c), Destroys(c))
      /\ \A k \in Loops \ {l} : NotIn(todo(k), Opens(c)) /\ NotIn(todo(k), Destroys(c))
      /\ \A k \in Loops \ {Base} : NotIn(todo(k), Removes(c))
      /\ at[Base] # "stopped" => c \in connections_ /\ NotIn(todo(Base), Removes(c))
  BY <1>1, <1>2, <1>3 DEF Cared, Placed, Tidy, Listed, LoopsOK
<1>7. CASE inline(l, Base)
  <2>1. l = Base /\ put(l, Destroys(c)) /\ connections_' = connections_ \ {c}
    BY <1>2, <1>3, <1>7 DEF inline, removeConnectionInLoop, Destroys
  <2>2. /\ Destroys(c) \in Functors /\ Destroys(c) # Opens(c) /\ Destroys(c) # Removes(c)
        /\ \A d \in Clients \ {c} : Destroys(c) \notin {Opens(d), Removes(d), Destroys(d)}
    BY FunctorsDiffer
  <2>3. TypeOK'
    BY <1>1, <1>2, <2>1, <2>2, PutTyped DEF TypeOK
  <2>4. at[Base] = "events" /\ c \in connections_
    BY <1>2, <1>3, <1>6, <2>1
  <2>5. /\ OnceIn(todo(l)', Destroys(c))
        /\ NotIn(todo(l)', Opens(c)) /\ NotIn(todo(l)', Removes(c))
        /\ \A k \in Loops : k # l => todo(k)' = todo(k)
    BY <1>1, <1>2, <1>6, <2>1, <2>2, <2>4, PutKeeps DEF SameOf
  <2>6. InOrder(todo(l)', Opens(c), Destroys(c))
    BY <2>5 DEF NotIn, InOrder
  <2>7. Cared(c)'
    <3>1. Placed(c)'
      BY <1>1, <1>2, <1>3, <1>5, <1>6, <2>5 DEF Cared, Placed
    <3>2. Tidy(c)'
      BY <1>2, <1>3, <1>5, <2>1, <2>5, <2>6 DEF Tidy, todo
    <3>3. Listed(c)'
      BY <1>5, <2>1, <2>5 DEF Listed, todo
    <3> QED
      BY <3>1, <3>2, <3>3 DEF Cared
  <2>8. \A d \in Clients \ {c} : Follows(d)
    BY <1>1, <1>2, <2>1, <2>2, PutFollows
  <2>9. ServerInv'
    BY <1>2, <1>4, <1>5, <2>1, <2>3, <2>7, <2>8, FocusKeeps
  <2> QED
    BY <1>2, <2>9 DEF LifeStep, Turns
<1>8. CASE ~inline(l, Base)
  <2>1. put(Base, Removes(c)) /\ UNCHANGED connections_
    BY <1>2, <1>3, <1>8
  <2>2. /\ Removes(c) \in Functors /\ Removes(c) # Opens(c) /\ Removes(c) # Destroys(c)
        /\ \A d \in Clients \ {c} : Removes(c) \notin {Opens(d), Removes(d), Destroys(d)}
    BY FunctorsDiffer
  <2>3. TypeOK'
    BY <1>1, <1>2, <2>1, <2>2, PutTyped DEF TypeOK
  <2>4. /\ \A k \in Loops \ {Base} : todo(k)' = todo(k)
        /\ NotIn(todo(Base), Removes(c)) => OnceIn(todo(Base)', Removes(c))
        /\ \A k \in Loops : SameOf(todo(k), todo(k)', Opens(c)) /\
                            SameOf(todo(k), todo(k)', Destroys(c))
        /\ InOrder(todo(l)', Opens(c), Destroys(c))
    BY <1>1, <1>2, <1>6, <2>1, <2>2, PutKeeps
  <2>5. Cared(c)'
    <3>1. Placed(c)'
      BY <1>1, <1>2, <1>3, <1>5, <1>6, <2>4 DEF Cared, Placed, SameOf
    <3>2. Tidy(c)'
      BY <1>2, <1>3, <1>5, <1>6, <2>1, <2>4 DEF Tidy, SameOf, todo
    <3>3. Listed(c)'
      BY <1>2, <1>5, <1>6, <2>1, <2>4 DEF Listed
    <3> QED
      BY <3>1, <3>2, <3>3 DEF Cared
  <2>6. \A d \in Clients \ {c} : Follows(d)
    BY <1>1, <1>2, <2>1, <2>2, PutFollows
  <2>7. ServerInv'
    BY <1>2, <1>4, <1>5, <2>1, <2>3, <2>5, <2>6, FocusKeeps
  <2> QED
    BY <1>2, <2>7 DEF LifeStep, Turns
<1> QED
  BY <1>7, <1>8

(* shutdown: of the connection only state_ changes.                        *)
LEMMA ShutKeeps ==
  ASSUME ServerInv, NEW c \in Clients, shutdown(c)
  PROVE  ServerInv' /\ LifeStep
<1>1. TypeOK /\ LoopsOK /\ Cared(c) /\ Base \in Loops
  BY DEF ServerInv, Loops
<1>2. /\ life[c] = "up" /\ life' = [life EXCEPT ![c] = "shut"]
      /\ UNCHANGED <<baseTid, started_, listening, backlog, connections_, loopOf, queue,
                     batch, at, quitOf, server>>
  BY DEF shutdown, lists, loops
<1>3. life'[c] = "shut" /\ \A d \in Clients \ {c} : life'[d] = life[d]
  BY <1>1, <1>2 DEF TypeOK
<1>4. TypeOK' /\ LoopsOK'
  BY <1>1, <1>2 DEF TypeOK, LoopsOK
<1>5. \A k \in Loops : todo(k)' = todo(k)
  BY <1>2 DEF todo
<1>6. Cared(c)'
  <2>1. Placed(c)'
    BY <1>1, <1>2, <1>3, <1>5 DEF Cared, Placed
  <2>2. Tidy(c)'
    BY <1>1, <1>2, <1>3 DEF Cared, Tidy, todo
  <2>3. Listed(c)'
    BY <1>1, <1>2, <1>3, <1>5 DEF Cared, Listed
  <2> QED
    BY <2>1, <2>2, <2>3 DEF Cared
<1>7. ServerInv'
  BY <1>2, <1>3, <1>4, <1>5, <1>6, SameFollows, FocusKeeps
<1> QED
  BY <1>2, <1>7 DEF LifeStep, Turns

(* What a loop takes to run is for a connection it has.                    *)
LEMMA RunsOwn ==
  ASSUME ServerInv, NEW l \in Loops, NEW c \in Clients, batch[l] # <<>>
  PROVE  /\ Head(batch[l]) \in {Opens(c), Destroys(c)} => life[c] # "away" /\ l = loopOf[c]
         /\ Head(batch[l]) = Removes(c) => life[c] # "away" /\ l = Base
<1>1. ~NotIn(todo(l), Head(batch[l]))
  BY HeadIsThere DEF ServerInv
<1> QED
  BY <1>1 DEF ServerInv, Cared, Placed

(* connectEstablished: a new connection is up, its functor is no more.     *)
LEMMA OpenKeeps ==
  ASSUME ServerInv, NEW l \in Loops, connectEstablished(l)
  PROVE  ServerInv' /\ LifeStep
<1>1. TypeOK /\ LoopsOK /\ Base \in Loops
  BY DEF ServerInv, Loops
<1>2. PICK c \in Clients : c = Head(batch[l]).conn /\ Head(batch[l]) = Opens(c)
  BY <1>1, FunctorOf DEF connectEstablished, Opens
<1>3. /\ batch[l] # <<>> /\ pop(l)
      /\ life' = [life EXCEPT ![c] = "up"]
      /\ UNCHANGED <<baseTid, started_, backlog, loopOf, at, quitOf, server, listening,
                     connections_, queue>>
  BY <1>2 DEF connectEstablished, functor, loops
<1>4. TypeOK'
  BY <1>1, <1>2, <1>3, PopTyped DEF TypeOK
<1>5. LoopsOK'
  BY <1>1, <1>3, PopTyped DEF LoopsOK
<1>6. life'[c] = "up" /\ \A d \in Clients \ {c} : life'[d] = life[d]
  BY <1>1, <1>2, <1>3 DEF TypeOK
<1>7. l = loopOf[c] /\ life[c] # "away" /\ Cared(c)
  BY <1>2, <1>3, RunsOwn DEF ServerInv
<1>8. life[c] = "new" /\ OnceIn(todo(l), Opens(c))
  <2>1. ~NotIn(todo(l), Opens(c))
    BY <1>1, <1>2, <1>3, HeadIsThere
  <2> QED
    BY <1>7, <2>1 DEF Cared, Tidy
<1>9. Opens(c) # Removes(c) /\ Opens(c) # Destroys(c)
  BY <1>2, FunctorsDiffer
<1>10. /\ NotIn(todo(l)', Opens(c))
       /\ \A k \in Loops : k # l => todo(k)' = todo(k)
       /\ \A k \in Loops : /\ SameOf(todo(k), todo(k)', Removes(c))
                           /\ SameOf(todo(k), todo(k)', Destroys(c))
       /\ InOrder(todo(l), Opens(c), Destroys(c)) => InOrder(todo(l)', Opens(c), Destroys(c))
  <2>1. /\ OnceIn(todo(l), Opens(c)) => NotIn(todo(l)', Opens(c))
        /\ \A k \in Loops : k # l => todo(k)' = todo(k)
        /\ \A k \in Loops : \A g : Opens(c) # g => SameOf(todo(k), todo(k)', g)
        /\ \A k \in Loops : \A g, h : InOrder(todo(k), g, h) => InOrder(todo(k)', g, h)
    BY <1>1, <1>2, <1>3, PopKeeps
  <2> QED
    BY <1>8, <1>9, <2>1
<1>11. Cared(c)'
  <2>1. Placed(c)'
    BY <1>3, <1>6, <1>7, <1>10 DEF Cared, Placed, SameOf
  <2>2. Tidy(c)'
    BY <1>3, <1>6, <1>7, <1>8, <1>10 DEF Cared, Tidy, SameOf, todo
  <2>3. Listed(c)'
    BY <1>1, <1>3, <1>6, <1>7, <1>8, <1>10 DEF Cared, Listed, SameOf
  <2> QED
    BY <2>1, <2>2, <2>3 DEF Cared
<1>12. ASSUME NEW d \in Clients \ {c} PROVE Follows(d)
  <2>1. Opens(c) \notin {Opens(d), Removes(d), Destroys(d)}
    BY <1>2, <1>12, FunctorsDiffer
  <2> QED
    BY <1>1, <1>2, <1>3, <2>1, PopFollows
<1>13. ServerInv'
  BY <1>2, <1>3, <1>4, <1>5, <1>6, <1>11, <1>12, FocusKeeps
<1> QED
  BY <1>2, <1>3, <1>8, <1>13 DEF LifeStep, Turns

(* removeConnectionInLoop, run by the base loop.                           *)
LEMMA RemoveKeeps ==
  ASSUME ServerInv, NEW l \in Loops, removeTask(l)
  PROVE  ServerInv' /\ LifeStep
<1>1. TypeOK /\ LoopsOK /\ Base \in Loops
  BY DEF ServerInv, Loops
<1>2. PICK c \in Clients : c = Head(batch[l]).conn /\ Head(batch[l]) = Removes(c)
  BY <1>1, FunctorOf DEF removeTask, Removes
<1>3. /\ batch[l] # <<>> /\ pop(l)
      /\ at[l] = "batch" /\ connections_' = connections_ \ {c}
      /\ put(loopOf[c], Destroys(c))
      /\ UNCHANGED <<baseTid, started_, backlog, loopOf, at, quitOf, server, listening, life>>
  BY <1>2 DEF removeTask, functor, loops, removeConnectionInLoop, Destroys
<1>4. l = Base /\ life[c] # "away" /\ Cared(c)
  BY <1>2, <1>3, RunsOwn DEF ServerInv
<1>5. PICK k \in Loops : k = loopOf[c]
  BY <1>4 DEF Cared, Placed
<1>6. /\ Destroys(c) \in Functors /\ Destroys(c) # Opens(c) /\ Destroys(c) # Removes(c)
      /\ Opens(c) # Removes(c)
  BY <1>2, FunctorsDiffer
<1>7. TypeOK'
  <2>1. batch' \in [Loops -> Seq(Functors)] /\ queue' \in [Loops -> Seq(Functors)]
    BY <1>1, <1>3, <1>5, <1>6, PutTyped, PopTyped
  <2> QED
    BY <1>1, <1>3, <2>1 DEF TypeOK
<1>8. LoopsOK'
  BY <1>1, <1>3, PopTyped DEF LoopsOK
<1>9. /\ OnceIn(todo(Base), Removes(c)) /\ life[c] = "down" /\ c \in connections_
      /\ NotIn(todo(k), Opens(c)) /\ NotIn(todo(k), Destroys(c))
  <2>1. ~NotIn(todo(Base), Removes(c))
    BY <1>1, <1>2, <1>3, <1>4, HeadIsThere
  <2>2. OnceIn(todo(Base), Removes(c)) /\ life[c] = "down" /\ c \in connections_
    BY <1>3, <1>4, <2>1 DEF Cared, Listed
  <2> QED
    BY <1>4, <1>5, <2>2 DEF Cared, Tidy
<1>10. /\ NotIn(todo(k), Destroys(c)) => OnceIn(todo(k)', Destroys(c))
       /\ OnceIn(todo(Base), Removes(c)) => NotIn(todo(Base)', Removes(c))
       /\ \A j \in Loops : j # k /\ NotIn(todo(j), Destroys(c)) => NotIn(todo(j)', Destroys(c))
       /\ \A j \in Loops : \A g : Destroys(c) # g /\ NotIn(todo(j), g) => NotIn(todo(j)', g)
       /\ \A j \in Loops : \A g :
            Destroys(c) # g /\ Removes(c) # g => SameOf(todo(j), todo(j)', g)
       /\ \A j \in Loops : \A g, h :
            Destroys(c) # g /\ InOrder(todo(j), g, h) => InOrder(todo(j)', g, h)
  BY <1>1, <1>2, <1>3, <1>4, <1>5, <1>6, PopPutKeeps
<1>11. Cared(c)'
  <2>1. Placed(c)'
    BY <1>3, <1>4, <1>5, <1>6, <1>10 DEF Cared, Placed
  <2>2. Tidy(c)'
    <3>1. OnceIn(todo(k)', Destroys(c)) /\ NotIn(todo(k)', Opens(c))
      BY <1>6, <1>9, <1>10
    <3>2. InOrder(todo(k)', Opens(c), Destroys(c))
      BY <3>1 DEF NotIn, InOrder
    <3> QED
      BY <1>3, <1>5, <1>9, <3>1, <3>2 DEF Tidy, todo
  <2>3. Listed(c)'
    BY <1>3, <1>9, <1>10 DEF Listed
  <2> QED
    BY <2>1, <2>2, <2>3 DEF Cared
<1>12. ASSUME NEW d \in Clients \ {c} PROVE Follows(d)
  <2>1. \A g \in {Opens(d), Removes(d), Destroys(d)} : Destroys(c) # g /\ Removes(c) # g
    BY <1>2, <1>12, FunctorsDiffer
  <2> QED
    BY <1>10, <2>1 DEF Follows
<1>13. ServerInv'
  BY <1>2, <1>3, <1>7, <1>8, <1>11, <1>12, FocusKeeps
<1> QED
  BY <1>3, <1>13 DEF LifeStep

(* connectDestroy: a connection still up goes down, one that is shut or    *)
(* down is gone; it is never one that is gone already.                     *)
LEMMA DestroyKeeps ==
  ASSUME ServerInv, NEW l \in Loops, connectDestroy(l)
  PROVE  ServerInv' /\ LifeStep
<1>1. TypeOK /\ LoopsOK /\ Base \in Loops
  BY DEF ServerInv, Loops
<1>2. PICK c \in Clients : c = Head(batch[l]).conn /\ Head(batch[l]) = Destroys(c)
  BY <1>1, FunctorOf DEF connectDestroy, Destroys
<1>3. /\ batch[l] # <<>>
      /\ life' = [life EXCEPT ![c] = destroyed(c)]
      /\ IF life[c] = "up" THEN UNCHANGED batch ELSE pop(l)
      /\ UNCHANGED <<baseTid, started_, backlog, loopOf, at, quitOf, server, listening,
                     connections_, queue>>
  BY <1>2 DEF connectDestroy, functor, loops
<1>4. l = loopOf[c] /\ life[c] # "away" /\ Cared(c)
  BY <1>2, <1>3, RunsOwn DEF ServerInv
<1>5. ~NotIn(todo(l), Destroys(c)) /\ NotIn(todo(l), Opens(c))
  <2>1. InOrder(todo(l), Opens(c), Destroys(c))
    BY <1>4 DEF Cared, Tidy
  <2> QED
    BY <1>1, <1>2, <1>3, <2>1, HeadIsThere
<1>6. /\ OnceIn(todo(l), Destroys(c)) /\ life[c] \in {"up", "shut", "down"}
      /\ c \notin connections_
  <2>1. ~OnceIn(todo(l), Opens(c))
    BY <1>5 DEF OnceIn, NotIn
  <2> QED
    BY <1>1, <1>4, <1>5, <2>1 DEF Cared, Tidy, TypeOK
<1>0. life[c] \in {"up", "shut"} => server # "there" /\ at[Base] = "stopped"
  BY <1>1, <1>4, <1>6 DEF Cared, Listed, LoopsOK
<1>7. CASE life[c] = "up"
  <2>1. /\ life' = [life EXCEPT ![c] = "down"] /\ UNCHANGED batch
        /\ life'[c] = "down" /\ \A d \in Clients \ {c} : life'[d] = life[d]
    BY <1>1, <1>3, <1>7 DEF destroyed, TypeOK
  <2>2. TypeOK' /\ LoopsOK'
    BY <1>1, <1>3, <2>1 DEF TypeOK, LoopsOK
  <2>3. \A k \in Loops : todo(k)' = todo(k)
    BY <1>3, <2>1 DEF todo
  <2>4. at[Base] = "stopped"
    BY <1>0, <1>7
  <2>5. Cared(c)'
    <3>1. Placed(c)'
      BY <1>3, <1>4, <2>1, <2>3 DEF Cared, Placed
    <3>2. Tidy(c)'
      BY <1>3, <1>4, <1>7, <2>1, <2>3 DEF Cared, Tidy, todo
    <3>3. Listed(c)'
      BY <1>3, <1>6, <2>1, <2>4 DEF Listed
    <3> QED
      BY <3>1, <3>2, <3>3 DEF Cared
  <2>6. ServerInv'
    BY <1>3, <2>1, <2>2, <2>3, <2>5, SameFollows, FocusKeeps
  <2> QED
    BY <1>3, <1>7, <2>1, <2>6 DEF LifeStep, Turns
<1>8. CASE life[c] \in {"shut", "down"}
  <2>1. /\ life' = [life EXCEPT ![c] = "gone"] /\ pop(l)
        /\ life'[c] = "gone" /\ \A d \in Clients \ {c} : life'[d] = life[d]
    BY <1>1, <1>3, <1>8 DEF destroyed, TypeOK
  <2>2. TypeOK' /\ LoopsOK'
    BY <1>1, <1>3, <2>1, PopTyped DEF TypeOK, LoopsOK
  <2>3. /\ NotIn(todo(l)', Destroys(c))
        /\ \A k \in Loops : k # l => todo(k)' = todo(k)
        /\ \A k \in Loops : /\ SameOf(todo(k), todo(k)', Opens(c))
                            /\ SameOf(todo(k), todo(k)', Removes(c))
    <3>1. /\ OnceIn(todo(l), Destroys(c)) => NotIn(todo(l)', Destroys(c))
          /\ \A k \in Loops : k # l => todo(k)' = todo(k)
          /\ \A k \in Loops : \A g : Destroys(c) # g => SameOf(todo(k), todo(k)', g)
      BY <1>1, <1>2, <1>3, <2>1, PopKeeps
    <3>2. Destroys(c) # Opens(c) /\ Destroys(c) # Removes(c)
      BY FunctorsDiffer
    <3> QED
      BY <1>6, <3>1, <3>2
  <2>4. Cared(c)'
    <3>1. Placed(c)'
      BY <1>3, <1>4, <2>1, <2>3 DEF Cared, Placed, SameOf
    <3>2. Tidy(c)'
      <4>1. InOrder(todo(l)', Opens(c), Destroys(c))
        BY <2>3 DEF NotIn, InOrder
      <4> QED
        BY <1>3, <1>4, <1>5, <2>1, <2>3, <4>1 DEF Tidy, SameOf, todo
    <3>3. Listed(c)'
      BY <1>0, <1>1, <1>3, <1>4, <1>6, <1>8, <2>1, <2>3 DEF Cared, Listed, SameOf
    <3> QED
      BY <3>1, <3>2, <3>3 DEF Cared
  <2>5. ASSUME NEW d \in Clients \ {c} PROVE Follows(d)
    <3>1. Destroys(c) \notin {Opens(d), Removes(d), Destroys(d)}
      BY <2>5, FunctorsDiffer
    <3> QED
      BY <1>1, <1>2, <1>3, <2>1, <3>1, PopFollows
  <2>6. ServerInv'
    BY <1>3, <2>1, <2>2, <2>4, <2>5, FocusKeeps
  <2> QED
    BY <1>0, <1>3, <1>8, <2>1, <2>6 DEF LifeStep, Turns
<1> QED
  BY <1>6, <1>7, <1>8

(* ~TcpServer takes every connection out of connections_, and destroys it, *)
(* or has its loop do so.                                                  *)
LEMMA LeaveKeeps ==
  ASSUME ServerInv, NEW c \in Clients, destroyConnection(c)
  PROVE  ServerInv' /\ LifeStep
<1>1. TypeOK /\ LoopsOK /\ Cared(c) /\ Base \in Loops
  BY DEF ServerInv, Loops
<1>2. /\ server = "leaving" /\ c \in connections_
      /\ UNCHANGED <<baseTid, started_, backlog, loopOf, batch, at, quitOf, server, listening>>
  BY DEF destroyConnection, loops
<1>3. at[Base] = "stopped" /\ life[c] \in {"new", "up", "shut", "down"}
  BY <1>1, <1>2 DEF LoopsOK, Cared, Listed
<1>4. PICK l \in Loops : l = loopOf[c]
  BY <1>1, <1>3 DEF Cared, Placed
<1>5. LoopsOK'
  BY <1>1, <1>2 DEF LoopsOK
<1>6. NotIn(todo(l), Destroys(c))
  BY <1>1, <1>2, <1>3, <1>4 DEF Cared, Tidy
<1>7. CASE inline(Base, l)
  <2>1. /\ life' = [life EXCEPT ![c] = destroyed(c)]
        /\ connections_' = IF life[c] = "up" THEN connections_ ELSE connections_ \ {c}
        /\ UNCHANGED queue
    BY <1>4, <1>7 DEF destroyConnection
  <2>2. life[c] \in {"up", "shut", "down"}
    BY <1>1, <1>3, <1>4, <1>7 DEF Cared, Tidy, inline
  <2>3. /\ life' = [life EXCEPT ![c] = IF life[c] = "up" THEN "down" ELSE "gone"]
        /\ life'[c] = IF life[c] = "up" THEN "down" ELSE "gone"
        /\ \A d \in Clients \ {c} : life'[d] = life[d]
    BY <1>1, <2>1, <2>2 DEF destroyed, TypeOK
  <2>4. TypeOK'
    BY <1>1, <1>2, <2>1, <2>3 DEF TypeOK
  <2>5. \A k \in Loops : todo(k)' = todo(k)
    BY <1>2, <2>1 DEF todo
  <2>6. Cared(c)'
    <3>1. Placed(c)'
      BY <1>1, <1>2, <1>3, <2>3, <2>5 DEF Cared, Placed
    <3>2. Tidy(c)'
      BY <1>1, <1>2, <1>4, <1>6, <2>1, <2>2, <2>3, <2>5 DEF Cared, Tidy, todo
    <3>3. Listed(c)'
      BY <1>2, <1>3, <2>1, <2>3 DEF Listed
    <3> QED
      BY <3>1, <3>2, <3>3 DEF Cared
  <2>7. ServerInv'
    BY <1>2, <1>5, <2>1, <2>3, <2>4, <2>5, <2>6, SameFollows, FocusKeeps
  <2> QED
    BY <1>2, <2>2, <2>3, <2>7 DEF LifeStep, Turns
<1>8. CASE ~inline(Base, l)
  <2>1. /\ put(l, Destroys(c)) /\ connections_' = connections_ \ {c} /\ UNCHANGED life
    BY <1>4, <1>8 DEF destroyConnection, removeConnectionInLoop, Destroys
  <2>2. /\ Destroys(c) \in Functors /\ Destroys(c) # Opens(c) /\ Destroys(c) # Removes(c)
        /\ \A d \in Clients \ {c} : Destroys(c) \notin {Opens(d), Removes(d), Destroys(d)}
    BY FunctorsDiffer
  <2>3. TypeOK'
    BY <1>1, <1>2, <2>1, <2>2, PutTyped DEF TypeOK
  <2>4. /\ OnceIn(todo(l)', Destroys(c))
        /\ \A k \in Loops \ {l} : todo(k)' = todo(k)
        /\ \A k \in Loops : SameOf(todo(k), todo(k)', Opens(c)) /\
                            SameOf(todo(k), todo(k)', Removes(c))
        /\ InOrder(todo(l)', Opens(c), Destroys(c))
    <3>1. InOrder(todo(l), Opens(c), Destroys(c))
      BY <1>1, <1>3, <1>4 DEF Cared, Tidy
    <3> QED
      BY <1>1, <1>2, <1>6, <2>1, <2>2, <3>1, PutKeeps
  <2>5. Cared(c)'
    <3>1. Placed(c)'
      BY <1>1, <1>2, <1>3, <1>4, <2>1, <2>4 DEF Cared, Placed, SameOf
    <3>2. Tidy(c)'
      BY <1>1, <1>2, <1>3, <1>4, <2>1, <2>4 DEF Cared, Tidy, SameOf, todo
    <3>3. Listed(c)'
      BY <1>2, <1>3, <2>1 DEF Listed
    <3> QED
      BY <3>1, <3>2, <3>3 DEF Cared
  <2>6. \A d \in Clients \ {c} : Follows(d)
    BY <1>1, <1>2, <2>1, <2>2, PutFollows
  <2>7. ServerInv'
    BY <1>2, <1>5, <2>1, <2>3, <2>5, <2>6, FocusKeeps
  <2> QED
    BY <1>2, <2>1, <2>7 DEF LifeStep
<1> QED
  BY <1>7, <1>8

(* Nothing is queued and nobody has come at first.                         *)
LEMMA ServerInvInit == Init => ServerInv
<1> SUFFICES ASSUME Init PROVE ServerInv
  OBVIOUS
<1>1. TypeOK
  <2>1. <<>> \in Seq(Functors)
    OBVIOUS
  <2>2. /\ queue \in [Loops -> Seq(Functors)] /\ batch \in [Loops -> Seq(Functors)]
        /\ loopOf \in [Clients -> Loops \cup {NoLoop}]
    BY <2>1 DEF Init
  <2>3. /\ baseTid \in BOOLEAN /\ listening \in BOOLEAN
        /\ backlog \subseteq Clients /\ connections_ \subseteq Clients
        /\ server \in {"there", "leaving", "gone"}
    BY Zenon DEF Init
  <2>4. /\ life \in [Clients -> {"away", "new", "up", "shut", "down", "gone"}]
        /\ at \in [Loops -> {"check", "events", "batch", "stopped"}]
        /\ quitOf \in [Loops -> BOOLEAN]
    BY DEF Init
  <2>5. started_ = 0
    BY Zenon DEF Init
  <2> QED
    BY <2>2, <2>3, <2>4, <2>5 DEF TypeOK
<1>2. LoopsOK
  BY DEF Init, LoopsOK
<1>3. \A l \in Loops : todo(l) = <<>>
  BY DEF Init, todo
<1>4. ASSUME NEW c \in Clients PROVE Cared(c)
  <2>1. \A f : NotIn(<<>>, f)
    BY DEF NotIn
  <2>2. Base \in Loops /\ life[c] = "away" /\ c \notin connections_ /\ c \notin backlog
    BY DEF Init, Loops
  <2> QED
    BY <1>3, <2>1, <2>2 DEF Cared, Placed, Tidy, Listed
<1> QED
  BY <1>1, <1>2, <1>4 DEF ServerInv

LEMMA ServerKeeps == ServerInv /\ [Next]_vars => ServerInv' /\ LifeStep
<1>1. ASSUME ServerInv, UNCHANGED vars PROVE ServerInv' /\ LifeStep
  <2>1. /\ UNCHANGED <<baseTid, started_, listening, backlog, connections_, loopOf, life,
                       queue, batch, at, quitOf, server>>
    BY <1>1 DEF vars, lists, loops
  <2>2. TypeOK' /\ LoopsOK'
    BY <1>1, <2>1 DEF ServerInv, TypeOK, LoopsOK
  <2>3. \A c \in Clients : Follows(c)
    BY <2>1, SameFollows DEF todo
  <2> QED
    BY <1>1, <2>1, <2>2, <2>3, QuietKeeps
<1>2. ASSUME ServerInv, NEW l \in Loops, LoopStep(l) PROVE ServerInv' /\ LifeStep
  BY <1>2, TurnsQuietly, OpenKeeps, RemoveKeeps, DestroyKeeps DEF LoopStep
<1>3. ASSUME ServerInv, Handler PROVE ServerInv' /\ LifeStep
  BY <1>3, AcceptKeeps, CloseKeeps, ShutKeeps DEF Handler
<1>4. ASSUME ServerInv, Leave PROVE ServerInv' /\ LifeStep
  BY <1>4, EndsQuietly, LeaveKeeps DEF Leave
<1>5. ASSUME ServerInv, start PROVE ServerInv' /\ LifeStep
  BY <1>5, StartsQuietly
<1>6. ASSUME ServerInv, quitBase \/ \E c \in Clients : connect(c)
      PROVE  ServerInv' /\ LifeStep
  BY <1>6, EndsQuietly
<1> QED
  BY <1>1, <1>2, <1>3, <1>4, <1>5, <1>6 DEF Next

(* The invariant of the server.                                            *)
THEOREM ServerInvariant == Spec => []ServerInv
BY ServerInvInit, ServerKeeps, PTL DEF Spec

(* Loops queue functors of connections they know, and no connection is     *)
(* ever removed from the poller twice: its life has no "fatal".            *)
THEOREM ServerTypeCorrect == Spec => []TypeOK
<1>1. ServerInv => TypeOK
  BY DEF ServerInv
<1> QED
  BY <1>1, ServerInvariant, PTL

(* The server forgets no connection and destroys none twice.               *)
THEOREM ConnectionsTracked == Spec => []Tracked
<1>1. ServerInv => Tracked
  <2> SUFFICES ASSUME ServerInv, NEW c \in Clients,
                      life[c] \in {"new", "up", "shut", "down"}
               PROVE  DestroysOf(c) = IF c \in connections_ THEN 0 ELSE 1
    BY DEF Tracked
  <2>1. /\ c \in connections_ => NotIn(todo(loopOf[c]), Destroys(c))
        /\ c \notin connections_ => OnceIn(todo(loopOf[c]), Destroys(c))
    BY DEF ServerInv, Cared, Tidy
  <2>2. DestroysOf(c) =
          Cardinality({i \in DOMAIN todo(loopOf[c]) : todo(loopOf[c])[i] = Destroys(c)})
    BY DEF DestroysOf, todo, Destroys
  <2> QED
    BY <2>1, <2>2, CountIn
<1> QED
  BY <1>1, ServerInvariant, PTL

(* While the base loop runs, a connection that went down is on its way out *)
(* in one place: in connections_, with one removeConnectionInLoop queued   *)
(* for the base loop, or out of it, with one connectDestroy queued for its *)
(* own loop (TcpServer.cc:91-104).                                         *)
Leaving(c) ==
  \/ /\ c \in connections_
     /\ OnceIn(todo(Base), Removes(c)) /\ NotIn(todo(loopOf[c]), Destroys(c))
  \/ /\ c \notin connections_
     /\ NotIn(todo(Base), Removes(c)) /\ OnceIn(todo(loopOf[c]), Destroys(c))

ClosedIsLeaving ==
  at[Base] # "stopped" => \A c \in Clients : life[c] = "down" => Leaving(c)

(* The removal of a closed connection is neither lost nor doubled, so that *)
(* only loops that stop keep it from ending: the safety half of            *)
(* ClosedIsRemoved.                                                        *)
THEOREM ClosedAreLeaving == Spec => []ClosedIsLeaving
<1>1. ServerInv => ClosedIsLeaving
  BY DEF ServerInv, Cared, Tidy, Listed, ClosedIsLeaving, Leaving
<1> QED
  BY <1>1, ServerInvariant, PTL

(* Only the Acceptor begins a connection.                                  *)
LEMMA OnlyAccepted ==
  ASSUME ServerInv, [Next]_vars, NEW c \in Clients, life[c] = "away", life'[c] # "away"
  PROVE  handleRead(c)
<1>1. TypeOK
  BY DEF ServerInv
<1>2. ASSUME NEW d \in Clients, handleRead(d) PROVE d = c
  <2>1. d # c => life'[c] = life[c]
    BY <1>1, <1>2 DEF handleRead, newConnection, TypeOK
  <2> QED
    BY <2>1
<1>3. ASSUME NEW d \in Clients, handleClose(d) \/ shutdown(d) PROVE FALSE
  BY <1>1, <1>3 DEF handleClose, shutdown, TypeOK
<1>4. ASSUME NEW d \in Clients, destroyConnection(d) PROVE FALSE
  <2>1. life[d] # "away"
    BY <1>4 DEF destroyConnection, ServerInv, Cared, Listed
  <2> QED
    BY <1>1, <1>4, <2>1 DEF destroyConnection, TypeOK
<1>5. ASSUME NEW l \in Loops, connectEstablished(l) \/ connectDestroy(l) PROVE FALSE
  <2>1. PICK d \in Clients : /\ d = Head(batch[l]).conn /\ batch[l] # <<>>
                             /\ Head(batch[l]) \in {Opens(d), Destroys(d)}
    BY <1>1, <1>5, FunctorOf DEF connectEstablished, connectDestroy, functor, Opens, Destroys
  <2>2. life[d] # "away"
    BY <2>1, RunsOwn
  <2> QED
    BY <1>1, <1>5, <2>1, <2>2 DEF connectEstablished, connectDestroy, TypeOK
<1>6. ASSUME NEW l \in Loops,
             \/ loopTest(l) \/ doPendingFunctors(l) \/ doPendingFunctorsEnd(l)
             \/ listen(l) \/ removeTask(l)
      PROVE  FALSE
  BY <1>6 DEF loopTest, doPendingFunctors, doPendingFunctorsEnd, listen, removeTask
<1>7. CASE start \/ quitBase \/ (\E d \in Clients : connect(d)) \/ UNCHANGED vars
  BY <1>7 DEF start, quitBase, quitLoop, connect, vars
<1>8. CASE destroyServer \/ serverGone \/ \E l \in SubLoops : quitSubLoop(l)
  BY <1>8 DEF destroyServer, serverGone, quitSubLoop, quitLoop
<1> QED
  BY <1>2, <1>3, <1>4, <1>5, <1>6, <1>7, <1>8 DEF Next, Handler, Leave, LoopStep

(* The Acceptor hears the clients that wait, and no more descriptors are   *)
(* in use than there are.                                                  *)
Accepting ==
  /\ backlog # {} => listening \/ server = "gone"
  /\ IsFiniteSet(fds) /\ Cardinality(fds) <= MaxFds

LEMMA AcceptingKept == ServerInv /\ Accepting /\ [Next]_vars => Accepting'
<1> SUFFICES ASSUME ServerInv, Accepting, [Next]_vars PROVE Accepting'
  OBVIOUS
<1> USE ServerAssumption
<1>1. (backlog # {} => listening \/ server = "gone")'
  BY DEF Accepting, Next, Handler, Leave, LoopStep, vars, start, quitBase, quitLoop,
     connect, handleRead, handleClose, shutdown, loopTest, doPendingFunctors,
     doPendingFunctorsEnd, functor, listen, connectEstablished, removeTask,
     connectDestroy, destroyServer, serverGone, destroyConnection, quitSubLoop
<1>2. TypeOK /\ LifeStep
  BY ServerKeeps DEF ServerInv
<1>3. ASSUME NEW c \in fds' PROVE c \in fds \/ life[c] = "away"
  <2>1. c \in Clients /\ life'[c] \in {"new", "up", "shut", "down"}
    BY <1>3 DEF fds
  <2>2. <<life[c], life'[c]>> \in Turns \/ life'[c] = life[c]
    BY <1>2, <2>1 DEF LifeStep, TypeOK
  <2> QED
    BY <2>1, <2>2 DEF Turns, fds
<1>4. CASE \A c \in Clients : life[c] = "away" => life'[c] = "away"
  <2>1. fds' \in SUBSET fds
    BY <1>3, <1>4 DEF fds
  <2>2. IsFiniteSet(fds) /\ Cardinality(fds) <= MaxFds
    BY DEF Accepting
  <2>3. IsFiniteSet(fds') /\ Cardinality(fds') <= Cardinality(fds)
    BY <2>1, <2>2, FS_Subset
  <2>4. Cardinality(fds) \in Nat /\ Cardinality(fds') \in Nat
    BY <2>2, <2>3, FS_CardinalityType
  <2>5. Cardinality(fds') <= MaxFds
    BY <2>2, <2>3, <2>4
  <2> QED
    BY <1>1, <2>3, <2>5 DEF Accepting
<1>5. CASE \E c \in Clients : life[c] = "away" /\ life'[c] # "away"
  <2>1. PICK c \in Clients : handleRead(c)
    BY <1>5, OnlyAccepted
  <2>2. \A d \in Clients : d # c => life'[d] = life[d]
    BY <1>2, <2>1 DEF handleRead, newConnection, TypeOK
  <2>3. fds' \in SUBSET (fds \cup {c}) /\ Cardinality(fds) < MaxFds
    BY <2>1, <2>2 DEF handleRead, fds
  <2>4. IsFiniteSet(fds \cup {c}) /\ Cardinality(fds \cup {c}) <= Cardinality(fds) + 1
    <3>1. IsFiniteSet(fds) /\ Cardinality(fds) \in Nat
      BY FS_CardinalityType DEF Accepting
    <3>2. /\ IsFiniteSet(fds \cup {c})
          /\ Cardinality(fds \cup {c}) =
               IF c \in fds THEN Cardinality(fds) ELSE Cardinality(fds) + 1
      BY <3>1, FS_AddElement
    <3> QED
      BY <3>1, <3>2
  <2>5. IsFiniteSet(fds') /\ Cardinality(fds') <= Cardinality(fds \cup {c})
    BY <2>3, <2>4, FS_Subset
  <2>6. Cardinality(fds) \in Nat /\ Cardinality(fds \cup {c}) \in Nat /\ Cardinality(fds') \in Nat
    BY <2>4, <2>5, FS_CardinalityType DEF Accepting
  <2>7. Cardinality(fds') <= MaxFds
    BY <2>3, <2>4, <2>5, <2>6
  <2> QED
    BY <1>1, <2>5, <2>7 DEF Accepting
<1> QED
  BY <1>4, <1>5

(* A client that waits is heard.  If no descriptor is left for it, each is *)
(* one of a connection that a queued functor will open, that is open and   *)
(* in connections_, or that is on its way out: no descriptor is kept for   *)
(* nothing (TcpServer.cc:50-104, Acceptor.cc:38-65).                       *)
ClientsHeard ==
  /\ backlog # {} /\ server # "gone" => listening
  /\ Cardinality(fds) <= MaxFds
  /\ at[Base] # "stopped" =>
       \A c \in fds :
         \/ life[c] = "new" /\ OnceIn(todo(loopOf[c]), Opens(c))
         \/ life[c] \in {"up", "shut"} /\ c \in connections_
         \/ life[c] = "down" /\ Leaving(c)

(* What is left of EveryClientAccepted is that peers close, that loops go  *)
(* on, and that the kernel reports the backlog again.                      *)
THEOREM NoClientUnheard == Spec => []ClientsHeard
<1>1. Init => Accepting
  <2> SUFFICES ASSUME Init PROVE Accepting
    OBVIOUS
  <2>1. fds = {}
    BY DEF Init, fds
  <2> QED
    BY <2>1, FS_EmptySet, ServerAssumption DEF Init, Accepting
<1>2. ServerInv /\ Accepting => ClientsHeard
  <2> SUFFICES ASSUME ServerInv, Accepting, at[Base] # "stopped", NEW c \in fds
               PROVE  \/ life[c] = "new" /\ OnceIn(todo(loopOf[c]), Opens(c))
                      \/ life[c] \in {"up", "shut"} /\ c \in connections_
                      \/ life[c] = "down" /\ Leaving(c)
    BY DEF ClientsHeard, Accepting
  <2>1. c \in Clients /\ life[c] \in {"new", "up", "shut", "down"}
    BY DEF fds
  <2>2. Cared(c) /\ server = "there"
    BY <2>1 DEF ServerInv, LoopsOK
  <2> QED
    BY <2>1, <2>2 DEF Cared, Tidy, Listed, Leaving
<1> QED
  BY <1>1, <1>2, AcceptingKept, ServerInvariant, PTL DEF Spec

(* A step of a connection's life is one that its user expects.             *)
leaving == server # "there"

LEMMA LifeSteps ==
  ASSUME TypeOK, LifeStep
  PROVE  [Life!Next]_<<stages, leaving>>
<1>1. stages = [c \in Clients |-> stage(c)] /\ stages' = [c \in Clients |-> stage(c)']
  BY DEF stages
<1>2. CASE UNCHANGED life /\ (server' = "there" => server = "there")
  <2>1. UNCHANGED stages
    BY <1>1, <1>2 DEF stage
  <2>2. leaving' = leaving \/ (~leaving /\ leaving' = TRUE)
    BY <1>2 DEF leaving
  <2> QED
    BY <2>1, <2>2 DEF Life!Next, Life!Leaves, leaving
<1>3. ASSUME NEW c \in Clients, NEW v \in {"new", "up", "shut", "down", "gone"},
             <<life[c], v>> \in Turns, life' = [life EXCEPT ![c] = v],
             life[c] = "shut" /\ v = "gone" => server # "there",
             UNCHANGED server
      PROVE  [Life!Next]_<<stages, leaving>>
  <2>1. stage(c)' = v /\ \A d \in Clients : d # c => stage(d)' = stage(d)
    BY <1>3 DEF TypeOK, stage
  <2>2. stages' = [stages EXCEPT ![c] = v]
    BY <1>1, <2>1
  <2>3. \/ stage(c) = v
        \/ stage(c) = "new" /\ v = "up"
        \/ stage(c) = "up" /\ v \in {"shut", "down"}
        \/ stage(c) = "shut" /\ v = "down"
        \/ stage(c) = "shut" /\ v = "gone" /\ server # "there"
        \/ stage(c) = "down" /\ v = "gone"
    BY <1>3 DEF Turns, stage
  <2>4. stages[c] = stage(c)
    BY <1>1
  <2>5. stage(c) = v => stages' = stages
    BY <1>1, <2>2, <2>4
  <2>6. (server # "there")' = (server # "there") /\ leaving' = leaving
    BY <1>3 DEF leaving
  <2> HIDE DEF stage
  <2> QED
    BY <2>2, <2>3, <2>4, <2>5, <2>6
       DEF Life!Next, Life!ComesUp, Life!IsShut, Life!GoesDown, Life!IsRemoved,
           Life!Vanishes, Life!Becomes, leaving
<1> QED
  BY <1>2, <1>3 DEF LifeStep

(* Each connection comes up, goes down and is removed once, in this order; *)
(* only one that was shut down, of a server that leaves, is not reported   *)
(* down (TcpServer.cc:106-116, TcpConnection.cc:224-234).                  *)
THEOREM ServerImplementsLife == Spec => ImplementsLife
<1>1. Init => Life!Init
  BY DEF Init, Life!Init, stages, stage
<1>2. ServerInv /\ [Next]_vars => [Life!Next]_<<stages, leaving>>
  BY ServerKeeps, LifeSteps DEF ServerInv
<1> QED
  BY <1>1, <1>2, ServerInvariant, PTL DEF Spec, ImplementsLife, Life!Spec, leaving

------------------------------------------------------------------------------
(* Which thread does what.                                                 *)

(* A step of the thread that runs loop l: of the loop, of a handler of one *)
(* of its connections, or, in the base loop's thread, of ~TcpServer.       *)
stepOf(l) ==
  \/ LoopStep(l)
  \/ \E c \in Clients : loopOf[c] = l /\ (handleClose(c) \/ shutdown(c))
  \/ l = Base /\ \E c \in Clients : destroyConnection(c)

(* No lock protects a connection or connections_: once a connection is     *)
(* accepted only the thread of its loop changes where it is in its life,   *)
(* and only the base loop's thread takes it out of connections_            *)
(* (TcpServer.cc:73-78, 88-104).                                           *)
Confined ==
  [][\A l \in Loops : stepOf(l) =>
       /\ \A c \in Clients : life'[c] # life[c] => loopOf[c] = l
       /\ connections_' # connections_ => l = Base]_vars

(* Whichever functors are still queued, and whether the server stays or    *)
(* goes, no thread touches another's connections.                          *)
THEOREM ThreadsConfined == Spec => Confined
<1>1. ASSUME ServerInv, NEW l \in Loops, stepOf(l)
      PROVE  /\ \A c \in Clients : life'[c] # life[c] => loopOf[c] = l
             /\ connections_' # connections_ => l = Base
  <2>1. TypeOK
    BY <1>1 DEF ServerInv
  <2>2. CASE loopTest(l) \/ doPendingFunctors(l) \/ doPendingFunctorsEnd(l) \/ listen(l)
    BY <2>2 DEF loopTest, doPendingFunctors, doPendingFunctorsEnd, listen
  <2>3. CASE connectEstablished(l)
    <3>1. PICK c \in Clients : c = Head(batch[l]).conn /\ Head(batch[l]) = Opens(c)
      BY <2>1, <2>3, FunctorOf DEF connectEstablished, Opens
    <3>2. /\ batch[l] # <<>> /\ UNCHANGED connections_
          /\ life' = [life EXCEPT ![c] = "up"]
      BY <2>3, <3>1 DEF connectEstablished, functor
    <3>3. loopOf[c] = l
      BY <1>1, <3>1, <3>2, RunsOwn
    <3> QED
      BY <2>1, <3>2, <3>3 DEF TypeOK
  <2>4. CASE connectDestroy(l)
    <3>1. PICK c \in Clients : c = Head(batch[l]).conn /\ Head(batch[l]) = Destroys(c)
      BY <2>1, <2>4, FunctorOf DEF connectDestroy, Destroys
    <3>2. /\ batch[l] # <<>> /\ UNCHANGED connections_
          /\ life' = [life EXCEPT ![c] = destroyed(c)]
      BY <2>4, <3>1 DEF connectDestroy, functor
    <3>3. loopOf[c] = l
      BY <1>1, <3>1, <3>2, RunsOwn
    <3> QED
      BY <2>1, <3>2, <3>3 DEF TypeOK
  <2>5. CASE removeTask(l)
    <3>1. PICK c \in Clients : c = Head(batch[l]).conn /\ Head(batch[l]) = Removes(c)
      BY <2>1, <2>5, FunctorOf DEF removeTask, Removes
    <3>2. batch[l] # <<>> /\ UNCHANGED life
      BY <2>5 DEF removeTask, functor
    <3>3. l = Base
      BY <1>1, <3>1, <3>2, RunsOwn
    <3> QED
      BY <3>2, <3>3
  <2>6. ASSUME NEW c \in Clients, loopOf[c] = l, handleClose(c) \/ shutdown(c)
        PROVE  /\ \A d \in Clients : life'[d] # life[d] => loopOf[d] = l
               /\ connections_' # connections_ => l = Base
    <3>1. \E v : life' = [life EXCEPT ![c] = v]
      BY <2>6 DEF handleClose, shutdown
    <3>2. connections_' # connections_ => l = Base
      BY <2>6 DEF handleClose, shutdown, inline
    <3> QED
      BY <2>1, <2>6, <3>1, <3>2 DEF TypeOK
  <2>7. ASSUME l = Base, NEW c \in Clients, destroyConnection(c)
        PROVE  \A d \in Clients : life'[d] # life[d] => loopOf[d] = l
    <3>1. \/ loopOf[c] = l /\ life' = [life EXCEPT ![c] = destroyed(c)]
          \/ UNCHANGED life
      BY <2>7 DEF destroyConnection, inline
    <3> QED
      BY <2>1, <3>1 DEF TypeOK
  <2> QED
    BY <1>1, <2>2, <2>3, <2>4, <2>5, <2>6, <2>7 DEF stepOf, LoopStep
<1>2. ServerInv =>
        \A l \in Loops : stepOf(l) =>
          /\ \A c \in Clients : life'[c] # life[c] => loopOf[c] = l
          /\ connections_' # connections_ => l = Base
  BY <1>1
<1> QED
  BY <1>2, ServerInvariant, PTL DEF Confined
==============================================================================
