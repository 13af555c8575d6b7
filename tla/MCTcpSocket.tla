---------------------------- MODULE MCTcpSocket ----------------------------
(* Instances of TcpSocket.                                                  *)
EXTENDS TcpSocket

CONSTANTS u1, u2

MCUsers == {u1, u2}
MCOneUser == {u1}
=============================================================================
