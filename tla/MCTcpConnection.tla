--------------------------- MODULE MCTcpConnection ---------------------------
(* TcpConnection with one or two messages of two bytes.                    *)
EXTENDS TcpConnection

CONSTANTS c1, m1, m2

NoCallers == {}
OneCaller == {c1}
OneMessage == {m1}
TwoMessages == {m1, m2}
==============================================================================
