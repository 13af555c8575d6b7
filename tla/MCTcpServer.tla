----------------------------- MODULE MCTcpServer -----------------------------
(* Instances of TcpServer.                                                   *)
EXTENDS TcpServer

CONSTANTS s1, c1, c2, u1

MCServers == {s1}
MCUsers == {u1}
MCConns == {c1, c2}
MCServerOf == [c \in MCConns |-> s1]
\* Two servers: the one c1 connects to is not that of the others.
MCOtherServerOf == [c \in Conns |-> IF c = c1 THEN s1 ELSE CHOOSE s \in Servers : s # s1]
=============================================================================
