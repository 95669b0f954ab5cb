------------------------------ MODULE TaskQueue ------------------------------
(***************************************************************************)
(* What EventLoop::queueInLoop and EventLoop::runInLoop promise, with no   *)
(* lock, no eventfd and no poll: a functor given to the loop from anywhere *)
(* is run by the loop's thread exactly once, and functors are run in the   *)
(* order in which they were queued.  Functors the loop's own thread gives  *)
(* to runInLoop are run at once and do not pass through the queue.         *)
(***************************************************************************)
EXTENDS Sequences

CONSTANT Functors

VARIABLES queue,      \* functors accepted and not yet run
          submitted,  \* functors ever given to the loop
          ran         \* functors the loop has run, oldest first

tqVars == <<queue, submitted, ran>>

Init == /\ queue = <<>>
        /\ submitted = {}
        /\ ran = <<>>

Submit(f) == /\ f \notin submitted
             /\ submitted' = submitted \cup {f}
             /\ queue' = Append(queue, f)
             /\ UNCHANGED ran

RunNow(f) == /\ f \notin submitted
             /\ submitted' = submitted \cup {f}
             /\ ran' = Append(ran, f)
             /\ UNCHANGED queue

RunNext == /\ queue # <<>>
           /\ ran' = Append(ran, Head(queue))
           /\ queue' = Tail(queue)
           /\ UNCHANGED submitted

Next == \/ \E f \in Functors : Submit(f) \/ RunNow(f)
        \/ RunNext

Spec == Init /\ [][Next]_tqVars
==============================================================================
