------------------------------ MODULE EventLoop ------------------------------
(***************************************************************************)
(* One EventLoop (src/src/netlayer/EventLoop.cc): the thread that runs     *)
(* loop(), the vector pendingFunctors_ other threads append to under mtx_, *)
(* and the eventfd they write to get the thread out of epoll_wait.         *)
(*                                                                         *)
(* A critical section of mtx_ holds one access to pendingFunctors_, so the *)
(* section is one step.  Everything outside it is a step of its own: a     *)
(* caller that has appended its functor has not yet decided whether to     *)
(* write the eventfd, and a caller that has set quit_ has not yet woken    *)
(* the loop.                                                               *)
(***************************************************************************)
EXTENDS Naturals, Sequences

CONSTANTS
  Callers,     \* threads other than the loop's that use the loop
  Loop,        \* the thread that runs loop()
  Functors,    \* the calls made to queueInLoop and runInLoop, each made once
  TidCached,   \* was CurrentThread::t_cachedTid set when the loop was built?
  EarlyQueue,  \* does code of the loop's thread call queueInLoop before loop()?
  MaxQuits     \* bound on the calls to quit()

Threads == Callers \cup {Loop}

ASSUME LoopAssumption == /\ Loop \notin Callers
                         /\ TidCached \in BOOLEAN
                         /\ EarlyQueue \in BOOLEAN
                         /\ MaxQuits \in Nat

VARIABLES
  looping_,
  quit_,
  callingPendingFunctors_,
  pendingFunctors_,  \* guarded by mtx_
  wakeupFd_,         \* the counter of the eventfd
  activeChannels_,   \* channels epoll_wait reported, not yet handled
  functors,          \* the local vector of doPendingFunctors, what is left of it
  at,                \* where the loop's thread is
  call,              \* per thread, what its call still has to do
  submitted,         \* history: functors given to the loop
  ran,               \* history: functors run, oldest first
  quits              \* number of calls to quit()

flags == <<looping_, quit_, callingPendingFunctors_>>
loopVars == <<activeChannels_, functors, at>>
history == <<submitted, ran>>
vars == <<flags, pendingFunctors_, wakeupFd_, loopVars, call, history, quits>>

Places == {"idle", "start", "check", "poll", "handle", "handler",
           "swap", "run", "functor", "stopped"}

Channels == {"wakeup", "io"}

(* The type of the state, and what the two flags say of where the loop's   *)
(* thread is: looping_ from loop() on until it returns,                    *)
(* callingPendingFunctors_ exactly inside doPendingFunctors().             *)
TypeOK ==
  /\ looping_ \in BOOLEAN
  /\ quit_ \in BOOLEAN
  /\ callingPendingFunctors_ \in BOOLEAN
  /\ pendingFunctors_ \in Seq(Functors)
  /\ wakeupFd_ \in Nat
  /\ activeChannels_ \in SUBSET Channels
  /\ functors \in Seq(Functors)
  /\ at \in Places
  /\ call \in [Threads -> {"none", "queued", "quitting"}]
  /\ submitted \in SUBSET Functors
  /\ ran \in Seq(Functors)
  /\ quits \in Nat
  /\ looping_ <=> at \notin {"idle", "stopped"}
  /\ callingPendingFunctors_ <=> at \in {"swap", "run", "functor"}

Init ==
  /\ looping_ = FALSE
  /\ quit_ = FALSE
  /\ callingPendingFunctors_ = FALSE
  /\ pendingFunctors_ = <<>>
  /\ wakeupFd_ = 0
  /\ activeChannels_ = {}
  /\ functors = <<>>
  /\ at = "idle"
  /\ call = [t \in Threads |-> "none"]
  /\ submitted = {}
  /\ ran = <<>>
  /\ quits = 0

------------------------------------------------------------------------------
(* Calls.  The loop's own thread calls only from the code it runs: before  *)
(* loop(), from a channel's handler, from a functor.                       *)

CanCall(t) == /\ call[t] = "none"
              /\ t = Loop => at \in {"idle", "handler", "functor"}

(* threadId_ is read from t_cachedTid, not from tid(): it is 0, and no     *)
(* thread is ever the loop's, unless tid() ran in that thread before.      *)
isInLoopThread(t) == TidCached /\ t = Loop

wakeup == wakeupFd_' = wakeupFd_ + 1

Submitted(f) == /\ f \notin submitted
                /\ submitted' = submitted \cup {f}

emplaceBack(t, f) ==
  /\ pendingFunctors_' = Append(pendingFunctors_, f)
  /\ call' = [call EXCEPT ![t] = "queued"]
  /\ UNCHANGED ran

queueInLoop(t, f) ==
  /\ CanCall(t)
  /\ (t = Loop /\ at = "idle") => EarlyQueue
  /\ Submitted(f)
  /\ emplaceBack(t, f)
  /\ UNCHANGED <<flags, wakeupFd_, loopVars, quits>>

runInLoop(t, f) ==
  /\ CanCall(t)
  /\ Submitted(f)
  /\ \/ /\ isInLoopThread(t)
        /\ ran' = Append(ran, f)
        /\ UNCHANGED <<pendingFunctors_, call>>
     \/ /\ ~isInLoopThread(t)
        /\ emplaceBack(t, f)
  /\ UNCHANGED <<flags, wakeupFd_, loopVars, quits>>

wakesOtherThreadsOnly(t) == ~isInLoopThread(t)                      \* mutant
mustWake(t) == ~isInLoopThread(t) \/ callingPendingFunctors_

(* The second half of queueInLoop, after the lock is released.             *)
queueInLoopWake(t) ==
  /\ call[t] = "queued"
  /\ IF mustWake(t) THEN wakeup ELSE UNCHANGED wakeupFd_
  /\ call' = [call EXCEPT ![t] = "none"]
  /\ UNCHANGED <<flags, pendingFunctors_, loopVars, history, quits>>

quit(t) ==
  /\ CanCall(t)
  /\ quits < MaxQuits
  /\ quits' = quits + 1
  /\ quit_' = TRUE
  /\ call' = [call EXCEPT ![t] = "quitting"]
  /\ UNCHANGED <<looping_, callingPendingFunctors_, pendingFunctors_,
                 wakeupFd_, loopVars, history>>

quitNeverWakes(t) == FALSE                                          \* mutant
quitMustWake(t) == ~isInLoopThread(t)

quitWake(t) ==
  /\ call[t] = "quitting"
  /\ IF quitMustWake(t) THEN wakeup ELSE UNCHANGED wakeupFd_
  /\ call' = [call EXCEPT ![t] = "none"]
  /\ UNCHANGED <<flags, pendingFunctors_, loopVars, history, quits>>

------------------------------------------------------------------------------
(* The loop's thread.                                                      *)

loopStart ==
  /\ at = "idle"
  /\ call[Loop] = "none"
  /\ looping_' = TRUE
  /\ at' = "start"
  /\ UNCHANGED <<quit_, callingPendingFunctors_, pendingFunctors_, wakeupFd_,
                 activeChannels_, functors, call, history, quits>>

(* A quit() that came before is forgotten here.                            *)
loopReset ==
  /\ at = "start"
  /\ quit_' = FALSE
  /\ at' = "check"
  /\ UNCHANGED <<looping_, callingPendingFunctors_, pendingFunctors_,
                 wakeupFd_, activeChannels_, functors, call, history, quits>>

loopTest ==
  /\ at = "check"
  /\ ~quit_
  /\ at' = "poll"
  /\ activeChannels_' = {}
  /\ UNCHANGED <<flags, pendingFunctors_, wakeupFd_, functors, call, history,
                 quits>>

loopExit ==
  /\ at = "check"
  /\ quit_
  /\ looping_' = FALSE
  /\ at' = "stopped"
  /\ UNCHANGED <<quit_, callingPendingFunctors_, pendingFunctors_, wakeupFd_,
                 activeChannels_, functors, call, history, quits>>

(* epoll_wait reports some of the descriptors that are ready: a connection *)
(* may be at any time, the eventfd is while its counter is positive, and   *)
(* no more are reported than the events_ array holds.                      *)
poll ==
  /\ at = "poll"
  /\ \E ready \in SUBSET Channels \ {{}} :
       /\ "wakeup" \in ready => wakeupFd_ > 0
       /\ activeChannels_' = ready
  /\ at' = "handle"
  /\ UNCHANGED <<flags, pendingFunctors_, wakeupFd_, functors, call, history,
                 quits>>

(* epoll_wait returns with nothing: POLLTIMEOUT_MS passed, or EINTR.       *)
pollTimeout ==
  /\ at = "poll"
  /\ at' = "handle"
  /\ UNCHANGED <<flags, pendingFunctors_, wakeupFd_, activeChannels_,
                 functors, call, history, quits>>

(* Reading an eventfd resets its counter.                                  *)
handleRead ==
  /\ at = "handle"
  /\ "wakeup" \in activeChannels_
  /\ activeChannels_' = activeChannels_ \ {"wakeup"}
  /\ wakeupFd_' = 0
  /\ UNCHANGED <<flags, pendingFunctors_, functors, at, call, history, quits>>

handleEvent ==
  /\ at = "handle"
  /\ "io" \in activeChannels_
  /\ activeChannels_' = activeChannels_ \ {"io"}
  /\ at' = "handler"
  /\ UNCHANGED <<flags, pendingFunctors_, wakeupFd_, functors, call, history,
                 quits>>

handleEventReturn ==
  /\ at = "handler"
  /\ call[Loop] = "none"
  /\ at' = "handle"
  /\ UNCHANGED <<flags, pendingFunctors_, wakeupFd_, activeChannels_,
                 functors, call, history, quits>>

doPendingFunctors ==
  /\ at = "handle"
  /\ activeChannels_ = {}
  /\ callingPendingFunctors_' = TRUE
  /\ at' = "swap"
  /\ UNCHANGED <<looping_, quit_, pendingFunctors_, wakeupFd_,
                 activeChannels_, functors, call, history, quits>>

swapCopies ==                                                       \* mutant
  /\ at = "swap"
  /\ functors' = pendingFunctors_
  /\ at' = "run"
  /\ UNCHANGED <<flags, pendingFunctors_, wakeupFd_, activeChannels_, call,
                 history, quits>>

swap ==
  /\ at = "swap"
  /\ functors' = pendingFunctors_
  /\ pendingFunctors_' = <<>>
  /\ at' = "run"
  /\ UNCHANGED <<flags, wakeupFd_, activeChannels_, call, history, quits>>

runFunctor ==
  /\ at = "run"
  /\ functors # <<>>
  /\ ran' = Append(ran, Head(functors))
  /\ functors' = Tail(functors)
  /\ at' = "functor"
  /\ UNCHANGED <<flags, pendingFunctors_, wakeupFd_, activeChannels_, call,
                 submitted, quits>>

functorReturn ==
  /\ at = "functor"
  /\ call[Loop] = "none"
  /\ at' = "run"
  /\ UNCHANGED <<flags, pendingFunctors_, wakeupFd_, activeChannels_,
                 functors, call, history, quits>>

doPendingFunctorsEnd ==
  /\ at = "run"
  /\ functors = <<>>
  /\ callingPendingFunctors_' = FALSE
  /\ at' = "check"
  /\ UNCHANGED <<looping_, quit_, pendingFunctors_, wakeupFd_,
                 activeChannels_, functors, call, history, quits>>

------------------------------------------------------------------------------
CallStep(t) == queueInLoopWake(t) \/ quitWake(t)

LoopStep ==
  \/ loopStart \/ loopReset \/ loopTest \/ loopExit
  \/ poll \/ handleRead \/ handleEvent \/ handleEventReturn
  \/ doPendingFunctors \/ swap \/ runFunctor \/ functorReturn
  \/ doPendingFunctorsEnd

Next ==
  \/ \E t \in Threads :
       \/ \E f \in Functors : queueInLoop(t, f) \/ runInLoop(t, f)
       \/ quit(t)
       \/ CallStep(t)
  \/ LoopStep
  \/ pollTimeout

(* A thread that has begun a call finishes it, and the loop's thread keeps *)
(* going while it is not blocked: loop() is called, handlers and functors  *)
(* return, epoll_wait returns once the eventfd is readable.  Nobody has to *)
(* start a call, and no connection has to become ready; the poll timeout   *)
(* may happen but is not counted on.                                       *)
pollWakeup == poll /\ wakeupFd_ > 0

Fairness ==
  /\ \A t \in Threads : WF_vars(CallStep(t))
  /\ WF_vars(pollWakeup)
  /\ WF_vars(LoopStep /\ at # "poll")

Spec == Init /\ [][Next]_vars

FairSpec == Spec /\ Fairness

------------------------------------------------------------------------------
(* Properties.                                                             *)

(* The loop does not sleep on work: when its thread is in epoll_wait with  *)
(* a functor pending, the eventfd is readable or a thread is about to      *)
(* write it.  EventLoop::queueInLoop writes it unless the thread that      *)
(* calls is sure to swap the vector before it polls again.                 *)
PromptWake ==
  (at = "poll" /\ pendingFunctors_ # <<>>) =>
    (wakeupFd_ > 0 \/ \E t \in Threads : call[t] = "queued")

(* The loop does not sleep on a request to stop: EventLoop::quit sets      *)
(* quit_ before it writes the eventfd, so the thread that polls although   *)
(* quit_ is set gets out of epoll_wait.                                    *)
QuitWakes ==
  (at = "poll" /\ quit_) =>
    (wakeupFd_ > 0 \/ \E t \in Threads : call[t] = "quitting")

(* What makes the two hold.  Outside epoll_wait the loop's thread may find  *)
(* functors with no wakeup under way only where it is still to swap the    *)
(* vector in this iteration; it runs no call of its own but where it runs  *)
(* handlers or functors, or before loop().                                 *)
OwnCalls ==
  /\ call[Loop] # "none" => at \in {"idle", "handler", "functor"}
  /\ at = "idle" /\ call[Loop] = "queued" => ~isInLoopThread(Loop) \/ EarlyQueue
  /\ functors # <<>> => at \in {"run", "functor"}

PendingSeen ==
  pendingFunctors_ # <<>> =>
    \/ at \in {"handle", "handler", "swap"}
    \/ wakeupFd_ > 0
    \/ \E t \in Threads : call[t] = "queued"

(* The eventfd, the swap and the lock implement the queue of TaskQueue:    *)
(* no functor is lost, run twice or overtaken, whoever queues it and       *)
(* whenever.                                                               *)
TQ == INSTANCE TaskQueue WITH queue <- functors \o pendingFunctors_

ImplementsTaskQueue == TQ!Spec

(* A functor given to the loop is run, and the 10 second timeout of        *)
(* epoll_wait is not needed for it; it is lost only if loop() returns.     *)
Ran(f) == \E i \in DOMAIN ran : ran[i] = f

EveryFunctorRuns ==
  \A f \in Functors : f \in submitted ~> Ran(f) \/ at = "stopped"

(* quit() called once loop() has reset quit_ makes loop() return, whichever *)
(* thread calls it and wherever the loop's thread is.                      *)
QuitStops == (quit_ /\ at \notin {"idle", "start"}) ~> at = "stopped"
==============================================================================
