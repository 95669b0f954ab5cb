------------------------------ MODULE ByteQueue ------------------------------
(***************************************************************************)
(* What a connection expects of its Buffer: bytes come out in the order in *)
(* which they went in, and none is lost, repeated or made up.              *)
(***************************************************************************)
EXTENDS Naturals, Sequences

CONSTANT Data   \* the byte strings that are put in

VARIABLES queue,
          result  \* what the last call that returns bytes returned

Init == queue = <<>> /\ result = <<>>

Put(d) == /\ queue' = queue \o d
          /\ UNCHANGED result

Drop(n) == queue' = SubSeq(queue, n + 1, Len(queue))

Skip(n) == Drop(n) /\ UNCHANGED result
Take(n) == Drop(n) /\ result' = SubSeq(queue, 1, n)

Next == \/ \E d \in Data : Put(d)
        \/ \E n \in 0 .. Len(queue) : Skip(n) \/ Take(n)

Spec == Init /\ [][Next]_<<queue, result>>
==============================================================================
