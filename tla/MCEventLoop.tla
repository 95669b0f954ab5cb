----------------------------- MODULE MCEventLoop -----------------------------
(* EventLoop with up to two calling threads and three functors.            *)
EXTENDS EventLoop

CONSTANTS c1, c2, f1, f2, f3

OneCaller == {c1}
TwoCallers == {c1, c2}
TwoFunctors == {f1, f2}
ThreeFunctors == {f1, f2, f3}
==============================================================================
