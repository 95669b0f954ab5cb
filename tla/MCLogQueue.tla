------------------------------ MODULE MCLogQueue ------------------------------
(* LogQueue with two threads and three messages, one of them fatal.         *)
EXTENDS LogQueue

CONSTANTS t1, t2, a, b, c, n1

TwoThreads == {t1, t2}
OneNetLog == {n1}
ThreeMessages == {a, b, c}
OneFatal == [m \in Messages |-> IF m = b THEN "FATAL" ELSE "INFO"]
==============================================================================
