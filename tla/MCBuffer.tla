------------------------------ MODULE MCBuffer -------------------------------
(* Buffer with strings of up to three bytes.                               *)
EXTENDS Buffer

MCByte == 0 .. 1
MCData == UNION {[1 .. n -> MCByte] : n \in 1 .. 3}
==============================================================================
