------------------------------ MODULE MCRpcCall ------------------------------
(* RpcCall with two calls; a cut header or cut arguments parse at 0 and at 2 units.     *)
EXTENDS RpcCall

CONSTANTS k1, k2

OneCall == {k1}
TwoCalls == {k1, k2}
FieldBoundaries == {0, 2}
==============================================================================
