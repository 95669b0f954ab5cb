--------------------------- MODULE ConnectionLife ----------------------------
(***************************************************************************)
(* What a user of the library sees of connections: for each of them        *)
(* connectionCallback_ says once that it is up and once, later, that it is *)
(* down; then its Channel is gone from the poller, for good.  Only where   *)
(* the server is leaving may a connection that the user has shut down go   *)
(* without the second call.                                                *)
(***************************************************************************)
CONSTANT Conns

VARIABLES life, leaving

Init == life = [c \in Conns |-> "new"] /\ leaving = FALSE

Becomes(c, from, to) == /\ life[c] = from
                        /\ life' = [life EXCEPT ![c] = to]
                        /\ UNCHANGED leaving

ComesUp(c) == Becomes(c, "new", "up")
IsShut(c) == Becomes(c, "up", "shut")
GoesDown(c) == Becomes(c, "up", "down") \/ Becomes(c, "shut", "down")
IsRemoved(c) == Becomes(c, "down", "gone")
Vanishes(c) == leaving /\ Becomes(c, "shut", "gone")

Leaves == ~leaving /\ leaving' = TRUE /\ UNCHANGED life

Next == \/ Leaves
        \/ \E c \in Conns : \/ ComesUp(c) \/ IsShut(c) \/ GoesDown(c)
                            \/ IsRemoved(c) \/ Vanishes(c)

Spec == Init /\ [][Next]_<<life, leaving>>
==============================================================================
