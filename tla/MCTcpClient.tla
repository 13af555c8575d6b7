----------------------------- MODULE MCTcpClient -----------------------------
(* Instances of TcpClient.                                                    *)
EXTENDS TcpClient

\* A payload that looks like the beginning of a header, and an empty one.
MCPayloads == {<<1>>, <<>>}
=============================================================================
