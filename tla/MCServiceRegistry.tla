--------------------------- MODULE MCServiceRegistry ---------------------------
(* ServiceRegistry with two providers, one of which serves a method less,   *)
(* and a caller.  The providers have a host each, or one is the restart of  *)
(* the other; the first may lose its connection once and get it back.       *)
EXTENDS ServiceRegistry

CONSTANTS p1, p2, c1, m1, m2

TwoProviders == {p1, p2}
OneCaller == {c1}
TwoMethods == {m1, m2}
ApartOrTogether == {[p \in Providers |-> p], [p \in Providers |-> p1]}
ServiceMaps == [p \in Providers |-> IF p = p1 THEN {m1, m2} ELSE {m1}]
Reconnects == [p \in Clients |-> IF p = p1 THEN 2 ELSE 1]
==============================================================================
