--------------------------- MODULE EventLoopProofs ---------------------------
(***************************************************************************)
(* For any number of threads and functors: the loop never sleeps on a      *)
(* functor or on quit(), and its queue is the queue of TaskQueue.          *)
(***************************************************************************)
EXTENDS EventLoop, SequenceTheorems, TLAPS

(* The code of the loop's thread keeps away from queueInLoop before loop(), *)
(* or the loop does not know its thread and wakes it on every call.        *)
LateQueue == ~EarlyQueue \/ ~TidCached

LoopInv == TypeOK /\ OwnCalls

------------------------------------------------------------------------------
(* Type correctness.                                                       *)

LEMMA InitTypeOK == Init => TypeOK
<1> SUFFICES ASSUME Init PROVE TypeOK
  OBVIOUS
<1>1. pendingFunctors_ \in Seq(Functors) /\ functors \in Seq(Functors)
      /\ ran \in Seq(Functors)
  BY EmptySeq DEF Init
<1>2. call \in [Threads -> {"none", "queued", "quitting"}]
  BY DEF Init
<1> QED
  BY <1>1, <1>2 DEF Init, TypeOK, Places

LEMMA NextTypeOK == TypeOK /\ [Next]_vars => TypeOK'
<1> SUFFICES ASSUME TypeOK, [Next]_vars PROVE TypeOK'
  OBVIOUS
<1> USE LoopAssumption
<1>1. ASSUME NEW t \in Threads, NEW f \in Functors, queueInLoop(t, f)
      PROVE TypeOK'
  BY <1>1 DEF TypeOK, Places, queueInLoop, CanCall, Submitted, emplaceBack,
     flags, loopVars
<1>2. ASSUME NEW t \in Threads, NEW f \in Functors, runInLoop(t, f)
      PROVE TypeOK'
  <2>1. /\ submitted' = submitted \cup {f}
        /\ UNCHANGED <<flags, wakeupFd_, loopVars, quits>>
    BY <1>2 DEF runInLoop, Submitted
  <2>2. pendingFunctors_' \in Seq(Functors) /\ ran' \in Seq(Functors)
    <3>1. CASE isInLoopThread(t)
      <4>1. ran' = Append(ran, f) /\ pendingFunctors_' = pendingFunctors_
        BY <1>2, <3>1 DEF runInLoop
      <4> QED
        BY <4>1 DEF TypeOK
    <3>2. CASE ~isInLoopThread(t)
      <4>1. /\ pendingFunctors_' = Append(pendingFunctors_, f)
            /\ ran' = ran
        BY <1>2, <3>2 DEF runInLoop, emplaceBack
      <4> QED
        BY <4>1 DEF TypeOK
    <3> QED
      BY <3>1, <3>2
  <2>3. call' \in [Threads -> {"none", "queued", "quitting"}]
    BY <1>2 DEF runInLoop, emplaceBack, TypeOK
  <2> QED
    BY <2>1, <2>2, <2>3 DEF TypeOK, Places, flags, loopVars
<1>3. ASSUME NEW t \in Threads, quit(t) PROVE TypeOK'
  BY <1>3 DEF TypeOK, Places, quit, CanCall, loopVars, history
<1>4. ASSUME NEW t \in Threads, CallStep(t) PROVE TypeOK'
  <2>1. wakeupFd_' \in {wakeupFd_, wakeupFd_ + 1}
    BY <1>4 DEF CallStep, queueInLoopWake, quitWake, wakeup
  <2>2. call' = [call EXCEPT ![t] = "none"]
    BY <1>4 DEF CallStep, queueInLoopWake, quitWake
  <2>3. UNCHANGED <<flags, pendingFunctors_, loopVars, history, quits>>
    BY <1>4 DEF CallStep, queueInLoopWake, quitWake
  <2> QED
    BY <2>1, <2>2, <2>3 DEF TypeOK, Places, flags, loopVars, history
<1>5. CASE LoopStep
  <2>0. CASE loopStart \/ loopExit
    <3>1. looping_' \in BOOLEAN
      BY <2>0 DEF loopStart, loopExit
    <3>2. looping_' <=> at' \notin {"idle", "stopped"}
      BY <2>0 DEF loopStart, loopExit
    <3>3. callingPendingFunctors_' <=> at' \in {"swap", "run", "functor"}
      BY <2>0 DEF TypeOK, loopStart, loopExit
    <3> QED
      BY <2>0, <3>1, <3>2, <3>3 DEF TypeOK, Places, loopStart, loopExit, history
  <2>1. CASE loopReset \/ loopTest
    <3>1. quit_' \in BOOLEAN
      BY <2>1 DEF TypeOK, loopReset, loopTest, flags
    <3>2. looping_' <=> at' \notin {"idle", "stopped"}
      BY <2>1 DEF TypeOK, loopReset, loopTest, flags
    <3>3. callingPendingFunctors_' <=> at' \in {"swap", "run", "functor"}
      BY <2>1 DEF TypeOK, loopReset, loopTest, flags
    <3> QED
      BY <2>1, <3>1, <3>2, <3>3 DEF TypeOK, Places, loopReset, loopTest, flags, history
  <2>2. CASE poll
    BY <2>2 DEF TypeOK, Places, poll, flags, history
  <2>3. CASE handleRead \/ handleEvent \/ handleEventReturn
    BY <2>3 DEF TypeOK, Places, handleRead, handleEvent, handleEventReturn,
       flags, history
  <2>4. CASE doPendingFunctors \/ swap
    BY <2>4, EmptySeq DEF TypeOK, Places, doPendingFunctors, swap, flags,
       history
  <2>5. CASE runFunctor
    <3>1. Head(functors) \in Functors /\ Tail(functors) \in Seq(Functors)
      BY <2>5, HeadTailProperties DEF TypeOK, runFunctor
    <3> QED
      BY <2>5, <3>1 DEF TypeOK, Places, runFunctor, flags
  <2>6. CASE functorReturn \/ doPendingFunctorsEnd
    BY <2>6 DEF TypeOK, Places, functorReturn, doPendingFunctorsEnd, flags,
       history
  <2> QED
    BY <1>5, <2>0, <2>1, <2>2, <2>3, <2>4, <2>5, <2>6 DEF LoopStep
<1>6. CASE pollTimeout
  BY <1>6 DEF TypeOK, Places, pollTimeout, flags, history
<1>7. CASE UNCHANGED vars
  BY <1>7 DEF TypeOK, Places, vars, flags, loopVars, history
<1> QED
  BY <1>1, <1>2, <1>3, <1>4, <1>5, <1>6, <1>7 DEF Next

(* The state keeps its type, looping_ and callingPendingFunctors_ say where *)
(* the loop's thread is (EventLoop.cc:66-89, 162-178).                     *)
THEOREM LoopTypeCorrect == Spec => []TypeOK
  BY InitTypeOK, NextTypeOK, PTL DEF Spec

------------------------------------------------------------------------------
(* Where the loop's own calls happen.                                      *)

LEMMA InitOwnCalls == Init => OwnCalls
<1> SUFFICES ASSUME Init PROVE OwnCalls
  OBVIOUS
<1>1. call[Loop] = "none"
  BY DEF Init, Threads
<1> QED
  BY <1>1 DEF Init, OwnCalls

LEMMA NextOwnCalls == LoopInv /\ [Next]_vars => OwnCalls'
<1> SUFFICES ASSUME TypeOK, OwnCalls, [Next]_vars PROVE OwnCalls'
  BY DEF LoopInv
<1> USE LoopAssumption DEF OwnCalls, Threads
<1>1. ASSUME NEW t \in Threads, NEW f \in Functors, queueInLoop(t, f)
      PROVE OwnCalls'
  BY <1>1 DEF TypeOK, queueInLoop, CanCall, emplaceBack, loopVars
<1>2. ASSUME NEW t \in Threads, NEW f \in Functors, runInLoop(t, f)
      PROVE OwnCalls'
  BY <1>2 DEF TypeOK, runInLoop, CanCall, emplaceBack, loopVars,
     isInLoopThread
<1>3. ASSUME NEW t \in Threads, quit(t) PROVE OwnCalls'
  BY <1>3 DEF TypeOK, quit, CanCall, loopVars
<1>4. ASSUME NEW t \in Threads, CallStep(t) PROVE OwnCalls'
  BY <1>4 DEF TypeOK, CallStep, queueInLoopWake, quitWake, loopVars
<1>5. CASE LoopStep
  BY <1>5 DEF TypeOK, LoopStep, loopStart, loopReset, loopTest, loopExit,
     poll, handleRead, handleEvent, handleEventReturn, doPendingFunctors,
     swap, runFunctor, functorReturn, doPendingFunctorsEnd
<1>6. CASE pollTimeout
  BY <1>6 DEF pollTimeout
<1>7. CASE UNCHANGED vars
  BY <1>7 DEF vars, loopVars
<1> QED
  BY <1>1, <1>2, <1>3, <1>4, <1>5, <1>6, <1>7 DEF Next

LEMMA LoopInvariant == Spec => []LoopInv
<1>1. Init => LoopInv
  BY InitTypeOK, InitOwnCalls DEF LoopInv
<1>2. LoopInv /\ [Next]_vars => LoopInv'
  BY NextTypeOK, NextOwnCalls DEF LoopInv
<1> QED
  BY <1>1, <1>2, PTL DEF Spec

------------------------------------------------------------------------------
(* The loop does not sleep on quit().                                      *)

LEMMA NextQuitWakes == LoopInv /\ QuitWakes /\ [Next]_vars => QuitWakes'
<1> SUFFICES ASSUME TypeOK, OwnCalls, QuitWakes, [Next]_vars,
                    at' = "poll", quit_'
             PROVE  wakeupFd_' > 0 \/ \E t \in Threads : call'[t] = "quitting"
  BY DEF LoopInv, QuitWakes
<1> USE LoopAssumption DEF Threads
<1>1. ASSUME NEW t \in Threads, NEW f \in Functors,
             queueInLoop(t, f) \/ runInLoop(t, f)
      PROVE  wakeupFd_' > 0 \/ \E u \in Threads : call'[u] = "quitting"
  <2>1. UNCHANGED <<flags, wakeupFd_, loopVars>>
    BY <1>1 DEF queueInLoop, runInLoop
  <2>2. call[t] = "none" /\ call' \in {call, [call EXCEPT ![t] = "queued"]}
    BY <1>1 DEF queueInLoop, runInLoop, CanCall, emplaceBack
  <2> QED
    BY <2>1, <2>2 DEF QuitWakes, TypeOK, flags, loopVars
<1>2. ASSUME NEW t \in Threads, quit(t)
      PROVE  \E u \in Threads : call'[u] = "quitting"
  BY <1>2 DEF quit, TypeOK
<1>3. ASSUME NEW t \in Threads, queueInLoopWake(t)
      PROVE  wakeupFd_' > 0 \/ \E u \in Threads : call'[u] = "quitting"
  <2>1. UNCHANGED <<flags, loopVars>> /\ call[t] = "queued"
    BY <1>3 DEF queueInLoopWake
  <2>2. call' = [call EXCEPT ![t] = "none"]
    BY <1>3 DEF queueInLoopWake
  <2>3. wakeupFd_' \in {wakeupFd_, wakeupFd_ + 1}
    BY <1>3 DEF queueInLoopWake, wakeup
  <2> QED
    BY <2>1, <2>2, <2>3 DEF QuitWakes, TypeOK, flags, loopVars
<1>4. ASSUME NEW t \in Threads, quitWake(t) PROVE wakeupFd_' > 0
  <2>1. at = "poll" /\ call[t] # "none"
    BY <1>4 DEF quitWake, loopVars
  <2>2. quitMustWake(t)
    BY <2>1 DEF OwnCalls, quitMustWake, isInLoopThread
  <2> QED
    BY <1>4, <2>2 DEF quitWake, wakeup, TypeOK
<1>5. CASE LoopStep
  <2>1. ~loopTest
    BY DEF loopTest, flags
  <2> QED
    BY <1>5, <2>1 DEF LoopStep, loopStart, loopReset, loopExit, poll,
       handleRead, handleEvent, handleEventReturn, doPendingFunctors, swap,
       runFunctor, functorReturn, doPendingFunctorsEnd
<1>6. CASE pollTimeout
  BY <1>6 DEF pollTimeout
<1>7. CASE UNCHANGED vars
  BY <1>7 DEF vars, flags, loopVars, QuitWakes
<1> QED
  BY <1>1, <1>2, <1>3, <1>4, <1>5, <1>6, <1>7 DEF Next, CallStep

(* A thread in epoll_wait with quit_ set has a readable eventfd, or a       *)
(* thread is between the two steps of EventLoop::quit (EventLoop.cc:95-99).*)
THEOREM LoopSeesQuit == Spec => []QuitWakes
<1>1. Init => QuitWakes
  BY DEF Init, QuitWakes
<1> QED
  BY <1>1, LoopInvariant, NextQuitWakes, PTL DEF Spec

------------------------------------------------------------------------------
(* The loop does not sleep on a functor.                                   *)

LEMMA NextPendingSeen ==
  ASSUME LateQueue
  PROVE  LoopInv /\ PendingSeen /\ [Next]_vars => PendingSeen'
<1> SUFFICES ASSUME TypeOK, OwnCalls, PendingSeen, [Next]_vars,
                    pendingFunctors_' # <<>>
             PROVE  \/ at' \in {"handle", "handler", "swap"}
                    \/ wakeupFd_' > 0
                    \/ \E t \in Threads : call'[t] = "queued"
  BY DEF LoopInv, PendingSeen
<1> USE LoopAssumption DEF Threads
<1>1. ASSUME NEW t \in Threads, NEW f \in Functors,
             queueInLoop(t, f) \/ runInLoop(t, f)
      PROVE  \/ at' \in {"handle", "handler", "swap"}
             \/ wakeupFd_' > 0
             \/ \E u \in Threads : call'[u] = "queued"
  <2>1. UNCHANGED <<wakeupFd_, loopVars>>
    BY <1>1 DEF queueInLoop, runInLoop
  <2>2. CASE UNCHANGED <<pendingFunctors_, call>>
    BY <2>1, <2>2 DEF PendingSeen, loopVars
  <2>3. CASE emplaceBack(t, f)
    BY <2>3 DEF emplaceBack, TypeOK
  <2> QED
    BY <1>1, <2>2, <2>3 DEF queueInLoop, runInLoop
<1>2. ASSUME NEW t \in Threads, quit(t)
      PROVE  PendingSeen'
  <2>1. UNCHANGED <<pendingFunctors_, wakeupFd_, loopVars>> /\ call[t] = "none"
    BY <1>2 DEF quit, CanCall
  <2>2. call' = [call EXCEPT ![t] = "quitting"]
    BY <1>2 DEF quit
  <2> QED
    BY <2>1, <2>2 DEF PendingSeen, TypeOK, loopVars
<1>3. ASSUME NEW t \in Threads, queueInLoopWake(t)
      PROVE  at' \in {"handle", "handler", "swap"} \/ wakeupFd_' > 0
  <2>1. CASE mustWake(t)
    BY <1>3, <2>1 DEF queueInLoopWake, wakeup, TypeOK
  <2>2. CASE ~mustWake(t)
    <3>1. t = Loop /\ TidCached /\ ~callingPendingFunctors_
      BY <2>2 DEF mustWake, isInLoopThread
    <3>2. call[t] = "queued" /\ UNCHANGED loopVars
      BY <1>3 DEF queueInLoopWake
    <3>3. at = "handler"
      BY <3>1, <3>2 DEF OwnCalls, TypeOK, isInLoopThread, LateQueue
    <3> QED
      BY <3>2, <3>3 DEF loopVars
  <2> QED
    BY <2>1, <2>2
<1>4. ASSUME NEW t \in Threads, quitWake(t)
      PROVE  PendingSeen'
  <2>1. UNCHANGED <<pendingFunctors_, loopVars>> /\ call[t] = "quitting"
    BY <1>4 DEF quitWake
  <2>2. call' = [call EXCEPT ![t] = "none"]
    BY <1>4 DEF quitWake
  <2>3. wakeupFd_' \in {wakeupFd_, wakeupFd_ + 1}
    BY <1>4 DEF quitWake, wakeup
  <2> QED
    BY <2>1, <2>2, <2>3 DEF PendingSeen, TypeOK, loopVars
<1>5. CASE LoopStep
  <2>1. CASE loopStart \/ loopReset \/ loopTest \/ loopExit
    BY <2>1 DEF PendingSeen, loopStart, loopReset, loopTest, loopExit
  <2>2. CASE poll \/ handleRead \/ handleEvent \/ handleEventReturn
    BY <2>2 DEF poll, handleRead, handleEvent, handleEventReturn
  <2>3. CASE doPendingFunctors \/ swap
    BY <2>3 DEF doPendingFunctors, swap
  <2>4. CASE runFunctor \/ functorReturn \/ doPendingFunctorsEnd
    BY <2>4 DEF PendingSeen, runFunctor, functorReturn, doPendingFunctorsEnd
  <2> QED
    BY <1>5, <2>1, <2>2, <2>3, <2>4 DEF LoopStep
<1>6. CASE pollTimeout
  BY <1>6 DEF pollTimeout
<1>7. CASE UNCHANGED vars
  BY <1>7 DEF vars, loopVars, PendingSeen
<1> QED
  BY <1>1, <1>2, <1>3, <1>4, <1>5, <1>6, <1>7 DEF Next, CallStep, PendingSeen

(* A thread in epoll_wait with functors pending has a readable eventfd, or  *)
(* a thread is between the two halves of queueInLoop (EventLoop.cc:128-142),*)
(* however many threads queue.                                             *)
THEOREM LoopSeesFunctors == ASSUME LateQueue PROVE Spec => []PromptWake
<1>1. Init => PendingSeen
  BY DEF Init, PendingSeen
<1>2. LoopInv /\ PendingSeen /\ [Next]_vars => PendingSeen'
  BY NextPendingSeen
<1>3. PendingSeen => PromptWake
  BY DEF PendingSeen, PromptWake
<1> QED
  BY <1>1, <1>2, <1>3, LoopInvariant, PTL DEF Spec

------------------------------------------------------------------------------
(* The loop implements TaskQueue.                                          *)

TheQueue == functors \o pendingFunctors_

LEMMA AppendConcat ==
  ASSUME NEW S, NEW s \in Seq(S), NEW t \in Seq(S), NEW e \in S
  PROVE  s \o Append(t, e) = Append(s \o t, e)
<1> DEFINE l == s \o Append(t, e)
           r == Append(s \o t, e)
<1>1. s \o t \in Seq(S) /\ Append(t, e) \in Seq(S)
  BY ConcatProperties
<1>2. l \in Seq(S) /\ r \in Seq(S)
  BY <1>1, ConcatProperties
<1>3. Len(l) = Len(s) + (Len(t) + 1) /\ Len(r) = (Len(s) + Len(t)) + 1
  BY <1>1, ConcatProperties
<1>4. ASSUME NEW i \in 1 .. Len(l) PROVE l[i] = r[i]
  <2>1. CASE i <= Len(s)
    <3>1. l[i] = s[i]
      BY <1>1, <1>3, <2>1, ConcatProperties
    <3>2. (s \o t)[i] = s[i] /\ i <= Len(s \o t) /\ i \in 1 .. Len(s \o t)
      BY <1>1, <1>3, <2>1, ConcatProperties, LenProperties
    <3> QED
      BY <1>1, <3>1, <3>2
  <2>2. CASE i > Len(s) /\ i <= Len(s) + Len(t)
    <3>1. l[i] = Append(t, e)[i - Len(s)]
      BY <1>1, <1>3, <2>2, ConcatProperties, LenProperties
    <3>2. i - Len(s) \in 1 .. Len(t)
      BY <1>3, <2>2, LenProperties
    <3>3. Append(t, e)[i - Len(s)] = t[i - Len(s)]
      BY <3>2
    <3>4. (s \o t)[i] = t[i - Len(s)] /\ i \in 1 .. Len(s \o t)
      BY <1>1, <1>3, <2>2, ConcatProperties, LenProperties
    <3> QED
      BY <1>1, <3>1, <3>3, <3>4
  <2>3. CASE i = Len(s) + Len(t) + 1
    <3>1. l[i] = Append(t, e)[i - Len(s)]
      BY <1>1, <1>3, <2>3, ConcatProperties, LenProperties
    <3>2. Len(t) \in Nat /\ Len(s) \in Nat /\ i - Len(s) = Len(t) + 1
      BY <2>3, LenProperties
    <3> QED
      BY <1>1, <1>3, <2>3, <3>1, <3>2, ConcatProperties
  <2> QED
    BY <1>3, <2>1, <2>2, <2>3, LenProperties
<1> HIDE DEF l, r
<1>5. l = r
  <2>1. Len(l) = Len(r)
    BY <1>3, LenProperties
  <2> QED
    BY <1>2, <1>4, <2>1, SeqEqual
<1> QED
  BY <1>5 DEF l, r

LEMMA HeadTailConcat ==
  ASSUME NEW S, NEW s \in Seq(S), NEW t \in Seq(S), s # <<>>
  PROVE  /\ s \o t # <<>>
         /\ Head(s \o t) = Head(s)
         /\ Tail(s \o t) = Tail(s) \o t
  OBVIOUS

LEMMA NextImplements == LoopInv /\ [Next]_vars => [TQ!Next]_<<TheQueue, submitted, ran>>
<1> SUFFICES ASSUME TypeOK, OwnCalls, [Next]_vars
             PROVE  TQ!Next \/ UNCHANGED <<TheQueue, submitted, ran>>
  BY DEF LoopInv
<1> USE LoopAssumption
<1>1. ASSUME NEW t \in Threads, NEW f \in Functors,
             Submitted(f), emplaceBack(t, f), UNCHANGED loopVars
      PROVE  TQ!Submit(f)
  <2>1. TheQueue' = Append(TheQueue, f)
    BY <1>1, AppendConcat DEF TheQueue, emplaceBack, loopVars, TypeOK
  <2> QED
    BY <1>1, <2>1 DEF TQ!Submit, TheQueue, Submitted, emplaceBack
<1>2. ASSUME NEW t \in Threads, NEW f \in Functors, queueInLoop(t, f)
      PROVE  TQ!Submit(f)
  BY <1>1, <1>2 DEF queueInLoop
<1>3. ASSUME NEW t \in Threads, NEW f \in Functors, runInLoop(t, f)
      PROVE  TQ!Submit(f) \/ TQ!RunNow(f)
  <2>1. CASE isInLoopThread(t)
    <3>1. /\ Submitted(f)
          /\ ran' = Append(ran, f)
          /\ UNCHANGED <<pendingFunctors_, functors>>
      BY <1>3, <2>1 DEF runInLoop, loopVars
    <3> QED
      BY <3>1 DEF TQ!RunNow, Submitted
  <2>2. CASE ~isInLoopThread(t)
    BY <1>1, <1>3, <2>2 DEF runInLoop
  <2> QED
    BY <2>1, <2>2
<1>4. ASSUME NEW t \in Threads, quit(t) \/ CallStep(t)
      PROVE  UNCHANGED <<TheQueue, submitted, ran>>
  BY <1>4 DEF quit, CallStep, queueInLoopWake, quitWake, loopVars, history,
     TheQueue
<1>5. CASE LoopStep
  <2>1. CASE swap
    <3>1. functors = <<>> /\ functors' = pendingFunctors_
          /\ pendingFunctors_' = <<>>
      BY <2>1 DEF swap, OwnCalls
    <3>2. TheQueue' = TheQueue
      BY <3>1, ConcatEmptySeq DEF TheQueue, TypeOK
    <3> QED
      BY <2>1, <3>2 DEF swap, history
  <2>2. CASE runFunctor
    <3>1. /\ functors # <<>>
          /\ ran' = Append(ran, Head(functors))
          /\ functors' = Tail(functors)
          /\ UNCHANGED <<pendingFunctors_, submitted>>
      BY <2>2 DEF runFunctor
    <3>2. TheQueue # <<>> /\ Head(TheQueue) = Head(functors)
          /\ Tail(TheQueue) = Tail(functors) \o pendingFunctors_
      BY <3>1, HeadTailConcat DEF TheQueue, TypeOK
    <3>3. TQ!RunNext
      BY <3>1, <3>2 DEF TQ!RunNext, TheQueue
    <3> QED
      BY <3>3 DEF TQ!Next
  <2>3. CASE ~swap /\ ~runFunctor
    BY <1>5, <2>3 DEF LoopStep, loopStart, loopReset, loopTest, loopExit, poll,
       handleRead, handleEvent, handleEventReturn, doPendingFunctors,
       functorReturn, doPendingFunctorsEnd, history, TheQueue
  <2> QED
    BY <2>1, <2>2, <2>3
<1>6. CASE pollTimeout
  BY <1>6 DEF pollTimeout, history, TheQueue
<1>7. CASE UNCHANGED vars
  BY <1>7 DEF vars, loopVars, history, TheQueue
<1> QED
  BY <1>2, <1>3, <1>4, <1>5, <1>6, <1>7 DEF Next, TQ!Next

(* The lock, the swap and the eventfd implement the FIFO queue: nothing the *)
(* loop is given is lost, run twice or overtaken.                          *)
THEOREM LoopImplementsQueue == Spec => ImplementsTaskQueue
<1>1. Init => TQ!Init
  <2>1. ASSUME Init PROVE TheQueue = <<>>
    BY <2>1 DEF Init, TheQueue
  <2> QED
    BY <2>1 DEF Init, TQ!Init, TheQueue
<1>2. LoopInv /\ [Next]_vars => [TQ!Next]_TQ!tqVars
  BY NextImplements DEF TQ!tqVars, TheQueue
<1> QED
  BY <1>1, <1>2, LoopInvariant, PTL DEF Spec, TQ!Spec, ImplementsTaskQueue
==============================================================================
