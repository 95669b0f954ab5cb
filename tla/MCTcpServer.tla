---------------------------- MODULE MCTcpServer ------------------------------
(* TcpServer with up to three clients and two sub loops.                   *)
EXTENDS TcpServer

CONSTANTS k1, k2, k3, s1, s2

TwoClients == {k1, k2}
ThreeClients == {k1, k2, k3}
NoSubLoops == {}
OneSubLoop == {s1}
TwoSubLoops == {s1, s2}
==============================================================================
