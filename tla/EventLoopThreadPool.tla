------------------------- MODULE EventLoopThreadPool -------------------------
(***************************************************************************)
(* The life of the sub loops: EventLoopThreadPool starts one               *)
(* EventLoopThread after the other, hands their loops out in turn, and its *)
(* destructor quits and joins them (EventLoopThread.cc,                    *)
(* EventLoopThreadPool.cc, Thread.cc).                                     *)
(*                                                                         *)
(* A section under mtx_ is one step.  Of each EventLoop only what its end  *)
(* needs is here: quit_, the eventfd, and whether the object, a local of   *)
(* threadFunc, still exists.                                               *)
(***************************************************************************)
EXTENDS Naturals, Sequences

CONSTANTS
  NumThreads,   \* numThreads_
  MaxConns,     \* bound on the calls of getNextLoop
  Hasty,        \* may the pool be destroyed before its loops have begun?
  OthersQuit    \* do users call quit() on a loop they were handed?

ASSUME PoolAssumption == /\ NumThreads \in Nat \ {0}
                         /\ MaxConns \in Nat
                         /\ {Hasty, OthersQuit} \subseteq BOOLEAN

Ids == 1 .. NumThreads

VARIABLES
  owner,    \* where the thread that owns the pool is
  cur,      \* the EventLoopThread it is at
  thread,   \* where each thread is
  loop_,    \* is loop_ of the EventLoopThread set?
  alive,    \* does the EventLoop exist?
  quit_,    \* of each EventLoop
  wakeup,   \* is its eventfd readable?
  loops_, next_,
  given     \* history: how often getNextLoop returned each loop

poolVars == <<owner, cur, thread, loop_, alive, quit_, wakeup, loops_, next_, given>>
pool == <<loops_, next_, given>>
loop == <<loop_, alive, quit_, wakeup>>

OwnerPlaces == {"start", "sem", "lock", "wait", "serve",
                "test", "quit", "wake", "join", "done"}
ThreadPlaces == {"none", "begin", "init", "reset", "running", "returned",
                 "ended"}

PoolTypeOK ==
  /\ owner \in OwnerPlaces /\ cur \in Ids
  /\ thread \in [Ids -> ThreadPlaces]
  /\ loop_ \in [Ids -> BOOLEAN] /\ alive \in [Ids -> BOOLEAN]
  /\ quit_ \in [Ids -> BOOLEAN] /\ wakeup \in [Ids -> BOOLEAN]
  /\ loops_ \in Seq(Ids) /\ Len(loops_) <= NumThreads
  /\ next_ \in 0 .. NumThreads - 1
  /\ given \in [Ids -> Nat]

PoolInit ==
  /\ owner = "start" /\ cur = 1
  /\ thread = [i \in Ids |-> "none"]
  /\ loop_ = [i \in Ids |-> FALSE] /\ alive = [i \in Ids |-> FALSE]
  /\ quit_ = [i \in Ids |-> FALSE] /\ wakeup = [i \in Ids |-> FALSE]
  /\ loops_ = <<>> /\ next_ = 0
  /\ given = [i \in Ids |-> 0]

------------------------------------------------------------------------------
(* EventLoopThreadPool::start and EventLoopThread::startLoop.              *)

go(from, to) == owner = from /\ owner' = to

threadStart ==
  /\ go("start", "sem")
  /\ thread' = [thread EXCEPT ![cur] = "begin"]
  /\ UNCHANGED <<cur, loop, pool>>

(* The thread has its tid and posted the semaphore.                        *)
semWait ==
  /\ go("sem", "lock")
  /\ thread[cur] # "begin"
  /\ UNCHANGED <<cur, thread, loop, pool>>

condWait ==
  /\ go("lock", "wait")
  /\ ~loop_[cur]
  /\ UNCHANGED <<cur, thread, loop, pool>>

startLoop ==
  /\ owner = "lock" /\ loop_[cur]
  /\ loops_' = Append(loops_, cur)
  /\ IF cur < NumThreads
     THEN cur' = cur + 1 /\ owner' = "start"
     ELSE cur' = 1 /\ owner' = "serve"
  /\ UNCHANGED <<thread, loop, next_, given>>

spuriousWakeup ==
  /\ go("wait", "lock")
  /\ UNCHANGED <<cur, thread, loop, pool>>

------------------------------------------------------------------------------
(* getNextLoop.                                                            *)

wrap(n) == IF n >= Len(loops_) THEN 0 ELSE n

Total == LET sum[i \in 0 .. NumThreads] ==
               IF i = 0 THEN 0 ELSE given[i] + sum[i - 1]
         IN sum[NumThreads]

getNextLoop ==
  /\ owner = "serve"
  /\ Total < MaxConns
  /\ given' = [given EXCEPT ![loops_[next_ + 1]] = @ + 1]
  /\ next_' = wrap(next_ + 1)
  /\ UNCHANGED <<owner, cur, thread, loop, loops_>>

------------------------------------------------------------------------------
(* ~EventLoopThread, for each thread in turn.  loop_ is read with no lock. *)

destroy ==
  /\ go("serve", "test")
  /\ ~Hasty => \A i \in Ids : thread[i] \notin {"init", "reset"}
  /\ UNCHANGED <<cur, thread, loop, pool>>

nextThread == IF cur < NumThreads
              THEN cur' = cur + 1 /\ owner' = "test"
              ELSE UNCHANGED cur /\ owner' = "done"

(* loop_ is null: neither quit() nor join(), and ~Thread detaches.         *)
detach ==
  /\ owner = "test" /\ ~loop_[cur]
  /\ nextThread
  /\ UNCHANGED <<thread, loop, pool>>

dtorTest ==
  /\ go("test", "quit")
  /\ loop_[cur]
  /\ UNCHANGED <<cur, thread, loop, pool>>

quit ==
  /\ go("quit", "wake")
  /\ loop_[cur]
  /\ quit_' = [quit_ EXCEPT ![cur] = TRUE]
  /\ UNCHANGED <<cur, thread, loop_, alive, wakeup, pool>>

quitForgets ==                                                      \* mutant
  /\ go("wake", "join")
  /\ UNCHANGED <<cur, thread, loop, pool>>

quitWake ==
  /\ go("wake", "join")
  /\ wakeup' = [wakeup EXCEPT ![cur] = alive[cur]]
  /\ UNCHANGED <<cur, thread, loop_, alive, quit_, pool>>

join ==
  /\ owner = "join"
  /\ thread[cur] = "ended"
  /\ nextThread
  /\ UNCHANGED <<thread, loop, pool>>

------------------------------------------------------------------------------
(* The sub thread: Thread::start's lambda, then threadFunc.                *)

step(i, from, to) == /\ thread[i] = from
                     /\ thread' = [thread EXCEPT ![i] = to]

threadFunc(i) ==
  /\ step(i, "begin", "init")
  /\ alive' = [alive EXCEPT ![i] = TRUE]
  /\ UNCHANGED <<owner, cur, loop_, quit_, wakeup, pool>>

publishForgetsNotify(i) ==                                          \* mutant
  /\ step(i, "init", "reset")
  /\ loop_' = [loop_ EXCEPT ![i] = TRUE]
  /\ UNCHANGED <<owner, cur, alive, quit_, wakeup, pool>>

publish(i) ==
  /\ step(i, "init", "reset")
  /\ loop_' = [loop_ EXCEPT ![i] = TRUE]
  /\ owner' = IF owner = "wait" /\ cur = i THEN "lock" ELSE owner
  /\ UNCHANGED <<cur, alive, quit_, wakeup, pool>>

loopReset(i) ==
  /\ step(i, "reset", "running")
  /\ quit_' = [quit_ EXCEPT ![i] = FALSE]
  /\ UNCHANGED <<owner, cur, loop_, alive, wakeup, pool>>

(* epoll_wait returned: for the eventfd, or for a connection or the timeout. *)
loopExit(i) ==
  /\ step(i, "running", "returned")
  /\ quit_[i]
  /\ UNCHANGED <<owner, cur, loop, pool>>

clear(i) ==
  /\ thread[i] = "returned" /\ loop_[i]
  /\ loop_' = [loop_ EXCEPT ![i] = FALSE]
  /\ UNCHANGED <<owner, cur, thread, alive, quit_, wakeup, pool>>

endsUncleared(i) ==                                                 \* mutant
  /\ step(i, "returned", "ended")
  /\ alive' = [alive EXCEPT ![i] = FALSE]
  /\ UNCHANGED <<owner, cur, loop_, quit_, wakeup, pool>>

threadEnd(i) ==
  /\ step(i, "returned", "ended")
  /\ ~loop_[i]
  /\ alive' = [alive EXCEPT ![i] = FALSE]
  /\ UNCHANGED <<owner, cur, loop_, quit_, wakeup, pool>>

(* A user callback may call quit() on the loop of its connection.          *)
otherQuits(i) ==
  /\ OthersQuit /\ given[i] > 0
  /\ alive[i] /\ ~quit_[i]
  /\ quit_' = [quit_ EXCEPT ![i] = TRUE]
  /\ wakeup' = [wakeup EXCEPT ![i] = TRUE]
  /\ UNCHANGED <<owner, cur, thread, loop_, alive, pool>>

Start == threadStart \/ semWait \/ condWait \/ startLoop
Dtor == detach \/ dtorTest \/ quit \/ quitWake \/ join

loopExitWoken(i) == wakeup[i] /\ loopExit(i)

ThreadStep(i) == \/ threadFunc(i) \/ publish(i) \/ loopReset(i)
                 \/ clear(i) \/ threadEnd(i)

PoolNext ==
  \/ Start \/ Dtor \/ spuriousWakeup \/ getNextLoop \/ destroy
  \/ \E i \in Ids : ThreadStep(i) \/ loopExit(i) \/ otherQuits(i)

PoolSpec == PoolInit /\ [][PoolNext]_poolVars

(* Threads run.  A loop that was quit leaves epoll_wait for its eventfd;   *)
(* other events may come but need not.                                     *)
PoolFairness == /\ WF_poolVars(Start) /\ WF_poolVars(Dtor)
            /\ \A i \in Ids : WF_poolVars(ThreadStep(i)) /\ WF_poolVars(loopExitWoken(i))

PoolFairSpec == PoolSpec /\ PoolFairness

------------------------------------------------------------------------------
(* Properties.                                                             *)

(* What start() puts in loops_ is the published loop of a thread, one per  *)
(* thread, and nobody is handed a loop that is gone unless a user quit it  *)
(* (EventLoopThread.cc:26-41, EventLoopThreadPool.cc:24-34).               *)
LoopsUsable ==
  owner = "serve" =>
    /\ Len(loops_) = NumThreads
    /\ \A i \in DOMAIN loops_ : loops_[i] = i /\ (loop_[i] \/ quit_[i])

(* Connections are spread evenly: no sub loop gets two more than another   *)
(* (EventLoopThreadPool.cc:43-56).                                         *)
Balanced == \A i, j \in Ids : given[i] <= given[j] + 1

(* No sub loop runs when the pool is gone: each thread was joined, or has  *)
(* cleared loop_ and is about to end (EventLoopThread.cc:15-24).           *)
NoneLeft ==
  owner = "done" => \A i \in Ids : thread[i] \in {"returned", "ended"}

(* loop_ never points to an EventLoop that is gone: it is cleared under    *)
(* mtx_ before threadFunc's local is destroyed, whoever quits the loop     *)
(* (EventLoopThread.cc:58-62).                                             *)
PointerValid == \A i \in Ids : loop_[i] => alive[i]

(* start() returns: the wait for loop_ misses no notification.             *)
StartReturns == <>(owner = "serve")

(* Destroying the pool ends: every loop it quits returns and is joined,    *)
(* unless a user's quit() has loop_ cleared between the test of loop_ and  *)
(* the call through it (EventLoopThread.cc:18-20).                         *)
DestroyReturns ==
  owner = "test" ~> owner = "done" \/ (owner = "quit" /\ ~loop_[cur])
==============================================================================
