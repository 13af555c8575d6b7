--------------------------------- MODULE Tpkt ---------------------------------
(***************************************************************************)
(* TPKT framing: what sendWithTPKT puts in front of a payload, and how     *)
(* TcpServerTPKT::onSessionRead takes frames out of a session's input.     *)
(***************************************************************************)
EXTENDS Naturals, Sequences

CONSTANT Base        \* values of a byte: 256 in the code

ASSUME BaseAssumption == Base \in Nat \ {0, 1}

Byte == 0..(Base - 1)

TPKT1_LENGTH == 4
TPKT_VERSION1_LOW_BYTE == 1

\* Mutant: the bytes above the one wanted are left in.
HeaderUnmasked(length) ==
  LET n == length + TPKT1_LENGTH
  IN <<TPKT_VERSION1_LOW_BYTE, n \div (Base * Base), n \div Base, n % Base>>

\* The version and three bytes of length, of header and payload.
Header(length) ==
  LET n == length + TPKT1_LENGTH
  IN <<TPKT_VERSION1_LOW_BYTE, (n % (Base * Base * Base)) \div (Base * Base), (n % (Base * Base)) \div Base, n % Base>>

PacketLength(buf) == buf[2] * (Base * Base) + buf[3] * Base + buf[4]

\* Mutant: a frame is taken when its last byte is still in the air.
IncompleteEarly(buf) == Len(buf) < TPKT1_LENGTH \/ PacketLength(buf) > Len(buf) + 1

\* The view of the header is NULL while fewer bytes than a header are there, and a
\* frame is left in the buffer until all of it is.
Incomplete(buf) == Len(buf) < TPKT1_LENGTH \/ PacketLength(buf) > Len(buf)

\* No magic number, or a length below the header's: the loop goes on with what it
\* has, reads past it or never ends, which is not modelled any further.
OutOfStep(buf) ==
  Len(buf) >= TPKT1_LENGTH
    /\ (buf[1] # TPKT_VERSION1_LOW_BYTE \/ PacketLength(buf) < TPKT1_LENGTH)

Least(m, n) == IF m < n THEN m ELSE n

\* The loop of onSessionRead: the payloads handed to onRead, and what stays in the
\* input.
Taken[buf \in Seq(Byte)] ==
  IF Incomplete(buf) \/ OutOfStep(buf)
  THEN [payloads |-> <<>>, rest |-> buf, lost |-> OutOfStep(buf)]
  ELSE LET n == Least(PacketLength(buf), Len(buf))
           later == Taken[SubSeq(buf, n + 1, Len(buf))]
       IN [later EXCEPT !.payloads = <<SubSeq(buf, TPKT1_LENGTH + 1, n)>> \o @]
=============================================================================
