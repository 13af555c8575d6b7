------------------------------- MODULE TpktReply -------------------------------
(***************************************************************************)
(* The other direction of a TPKT connection: a thread that sends frames    *)
(* with TcpServerTPKT::sendWithTPKT over one session, and the loop of the  *)
(* TcpClientTPKT that takes them out of its input.                         *)
(*                                                                         *)
(* External, as the code uses it: evbuffer_pullup, which gives no view of  *)
(* more bytes than there are, and the stream between the two ends.         *)
(***************************************************************************)
EXTENDS Tpkt

CONSTANTS Payloads,     \* what the server sends
          MaxFrames     \* bound: frames sent

VARIABLES pc,       \* the sender: "idle", or between the two send()s with a payload
          wire,     \* bytes on their way
          input,    \* the input buffer of the client's _bev
          total,    \* frames begun, for the bound
          fault,    \* what onRead did: "none", "null" (process dead) or "overrun"
          got       \* history: lengths given to onRead(msg, len)

vars == <<pc, wire, input, total, fault, got>>

TypeOK == /\ pc \in {<<>>} \cup {<<p>> : p \in Payloads}
          /\ wire \in Seq(Byte) /\ input \in Seq(Byte)
          /\ total \in 0..MaxFrames
          /\ fault \in {"none", "null", "overrun"} /\ got \in Seq(Nat)

\* Both ends are connected (TKPT_example), and nothing has been sent.
Init == pc = <<>> /\ wire = <<>> /\ input = <<>> /\ total = 0 /\ fault = "none" /\ got = <<>>

\* The header's send(), which the client may get on its own,
SendHeader(p) ==
  /\ pc = <<>> /\ total < MaxFrames
  /\ wire' = wire \o Header(Len(p))
  /\ pc' = <<p>> /\ total' = total + 1
  /\ UNCHANGED <<input, fault, got>>

\* and the payload's.
SendPayload ==
  /\ pc # <<>>
  /\ wire' = wire \o pc[1] /\ pc' = <<>>
  /\ UNCHANGED <<input, total, fault, got>>

-----------------------------------------------------------------------------
\* viewInputBuffer(size) is NULL when fewer bytes are there; onRead looks into it
\* without the server's test.
ViewIsNull(buf, size) == Len(buf) < size

\* malloc(sizeof(packet_length)): the size of an unsigned int, whatever the frame's.
Allocated == 4

\* The loop of onRead: what stays in the input, the lengths handed on, and the first
\* access outside of a buffer, after which a dead process reads no more.
OnRead[buf \in Seq(Byte)] ==
  CASE Len(buf) < 1 -> [rest |-> buf, lengths |-> <<>>, fault |-> "none"]
    [] Len(buf) >= 1 /\ ViewIsNull(buf, TPKT1_LENGTH) ->
         [rest |-> buf, lengths |-> <<>>, fault |-> "null"]
    [] Len(buf) >= TPKT1_LENGTH /\ PacketLength(buf) > Len(buf) ->
         [rest |-> buf, lengths |-> <<>>, fault |-> "none"]
    [] OTHER ->
         LET n == PacketLength(buf)
             later == OnRead[SubSeq(buf, n + 1, Len(buf))]
         IN [rest |-> later.rest, lengths |-> <<n - TPKT1_LENGTH>> \o later.lengths,
             fault |-> IF n > Allocated /\ later.fault # "null" THEN "overrun" ELSE later.fault]

\* Some bytes arrive, and the read callback.
Arrive ==
  /\ fault # "null" /\ wire # <<>>
  /\ \E n \in 1..Len(wire) :
       LET read == OnRead[input \o SubSeq(wire, 1, n)] IN
       /\ wire' = SubSeq(wire, n + 1, Len(wire))
       /\ input' = read.rest /\ got' = got \o read.lengths
       /\ fault' = IF read.fault = "none" THEN fault ELSE read.fault
  /\ UNCHANGED <<pc, total>>

Next == (\E p \in Payloads : SendHeader(p)) \/ SendPayload \/ Arrive

Spec == Init /\ [][Next]_vars

-----------------------------------------------------------------------------
\* tcpClientTPKT.h:91: "some message is still in the air".  onRead leaves a frame that is
\* not there yet and takes one that is: it looks at no byte it has no view of and writes
\* none past what it allocated.
ReadsInBounds == fault = "none"
=============================================================================
