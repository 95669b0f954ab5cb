------------------------------- MODULE Directory -------------------------------
(***************************************************************************)
(* What the framework expects of ZooKeeper: a directory that says for each *)
(* method which provider offers it.  A provider may enter itself where     *)
(* nobody is entered, and all it entered goes when it leaves.              *)
(***************************************************************************)
CONSTANTS Methods, Providers, NoNode

VARIABLES listed, left

Init == /\ listed = [m \in Methods |-> NoNode]
        /\ left = {}

Enter(p, m) == /\ p \notin left /\ listed[m] = NoNode
               /\ listed' = [listed EXCEPT ![m] = p]
               /\ UNCHANGED left

Leave(p) == /\ p \notin left
            /\ left' = left \cup {p}
            /\ listed' = [m \in Methods |-> IF listed[m] = p THEN NoNode
                                                             ELSE listed[m]]

Next == \E p \in Providers : Leave(p) \/ \E m \in Methods : Enter(p, m)

Spec == Init /\ [][Next]_<<listed, left>>
==============================================================================
