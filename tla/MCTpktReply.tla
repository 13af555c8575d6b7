------------------------------ MODULE MCTpktReply ------------------------------
(* Payloads of none, one and two bytes.                                       *)
EXTENDS TpktReply

MCPayloads == {<<>>, <<2>>, <<0, 1>>}
=============================================================================
