-------------------------------- MODULE LogFile --------------------------------
(***************************************************************************)
(* What those who log expect: each message comes out once, in the order in *)
(* which the messages were logged.                                         *)
(***************************************************************************)
EXTENDS Sequences

CONSTANT Messages

VARIABLES pending, out

Init == pending = <<>> /\ out = <<>>

IsIn(m, s) == \E i \in DOMAIN s : s[i] = m

Submit(m) == /\ ~IsIn(m, pending) /\ ~IsIn(m, out)
             /\ pending' = Append(pending, m)
             /\ UNCHANGED out

Write == /\ pending # <<>>
         /\ pending' = Tail(pending)
         /\ out' = Append(out, Head(pending))

Next == Write \/ \E m \in Messages : Submit(m)

Spec == Init /\ [][Next]_<<pending, out>>
==============================================================================
