----------------------------- MODULE MCEpollPoller -----------------------------
(* EpollPoller with three connections, one of which another thread holds,   *)
(* and as many descriptors.                                                 *)
EXTENDS EpollPoller

ThreeChannels == 1 .. 3
ThreeFds == 11 .. 13
First == {1}
==============================================================================
