--------------------------- MODULE TcpClientProofs ---------------------------
(***************************************************************************)
(* Proofs about TcpClient and the framing it rests on, for any payloads    *)
(* that fit a header, any number of connections and frames, and bytes of   *)
(* any number of values.  Taken is recursive: the first part shows that    *)
(* its definition has a solution and what that computes.                   *)
(***************************************************************************)
EXTENDS TcpClient, SequenceTheorems, WellFoundedInduction, TLAPS

-----------------------------------------------------------------------------
(* Induction                                                                *)

Less == {ss \in Nat \X Nat : ss[1] < ss[2]}

\* A set of naturals that is not empty has a least member,
LEMMA LeastMember == ASSUME NEW S \in SUBSET Nat, S # {} PROVE \E n \in S : \A m \in S : n <= m
<1>1. IsWellFoundedOn(Less, Nat)
  BY NatLessThanWellFounded, Zenon DEF OpToRel, Less
<1>2. \E n \in S : \A m \in S : <<m, n>> \notin Less
  BY <1>1, WFMin
<1>3. \A m, n \in Nat : <<m, n>> \notin Less => n <= m
  BY DEF Less
<1> QED
  BY <1>2, <1>3

\* so that one that has 0, and with each number the next, has all.
LEMMA Induction ==
  ASSUME NEW S \in SUBSET Nat, 0 \in S, \A n \in S : n + 1 \in S
  PROVE  S = Nat
<1>1. CASE Nat \ S # {}
  <2>1. PICK n \in Nat \ S : \A m \in Nat \ S : n <= m
    BY <1>1, LeastMember
  <2>2. n - 1 \in S
    BY <2>1
  <2> QED
    BY <2>1, <2>2
<1> QED
  BY <1>1

-----------------------------------------------------------------------------
(* What Taken computes                                                      *)

Results == [payloads : Seq(Seq(Byte)), rest : Seq(Byte), lost : BOOLEAN]

FrameEnd(buf) == Least(PacketLength(buf), Len(buf))
After(buf) == SubSeq(buf, FrameEnd(buf) + 1, Len(buf))

\* The right-hand side of Taken's definition, for f in the place of Taken.
TakenStep(f, buf) ==
  IF Incomplete(buf) \/ OutOfStep(buf)
  THEN [payloads |-> <<>>, rest |-> buf, lost |-> OutOfStep(buf)]
  ELSE [f[After(buf)] EXCEPT
          !.payloads = <<SubSeq(buf, TPKT1_LENGTH + 1, FrameEnd(buf))>> \o @]

\* The input gets shorter.
LEMMA Shorter ==
  ASSUME NEW buf \in Seq(Byte), ~Incomplete(buf), ~OutOfStep(buf)
  PROVE  /\ FrameEnd(buf) \in Nat /\ FrameEnd(buf) = PacketLength(buf)
         /\ TPKT1_LENGTH <= FrameEnd(buf) /\ FrameEnd(buf) <= Len(buf)
         /\ After(buf) \in Seq(Byte) /\ Len(After(buf)) = Len(buf) - FrameEnd(buf)
         /\ SubSeq(buf, TPKT1_LENGTH + 1, FrameEnd(buf)) \in Seq(Byte)
<1>1. Len(buf) \in Nat /\ Len(buf) >= 4
  BY DEF Incomplete, TPKT1_LENGTH
<1>2. Base \in Nat /\ Base * Base \in Nat
  BY BaseAssumption
<1>3. buf[2] \in Nat /\ buf[3] \in Nat /\ buf[4] \in Nat
  BY <1>1, <1>2 DEF Byte
<1>4. PacketLength(buf) \in Nat
  <2>1. buf[2] * (Base * Base) \in Nat /\ buf[3] * Base \in Nat
    BY <1>2, <1>3
  <2> QED
    BY <1>3, <2>1 DEF PacketLength
<1>5. PacketLength(buf) <= Len(buf) /\ TPKT1_LENGTH <= PacketLength(buf)
  BY <1>1, <1>4 DEF Incomplete, OutOfStep, TPKT1_LENGTH
<1>6. FrameEnd(buf) = PacketLength(buf)
  BY <1>1, <1>4, <1>5 DEF FrameEnd, Least
<1> QED
  BY <1>1, <1>4, <1>5, <1>6 DEF After, TPKT1_LENGTH

LEMMA StepType ==
  ASSUME NEW f, NEW buf \in Seq(Byte),
         \A b \in Seq(Byte) : Len(b) < Len(buf) => f[b] \in Results
  PROVE  TakenStep(f, buf) \in Results
<1>1. CASE Incomplete(buf) \/ OutOfStep(buf)
  BY <1>1 DEF TakenStep, Results, OutOfStep
<1>2. CASE ~Incomplete(buf) /\ ~OutOfStep(buf)
  <2>1. /\ f[After(buf)] \in Results
        /\ SubSeq(buf, TPKT1_LENGTH + 1, FrameEnd(buf)) \in Seq(Byte)
    BY <1>2, Shorter DEF TPKT1_LENGTH
  <2>2. \A x \in Seq(Byte), s \in Seq(Seq(Byte)) : <<x>> \o s \in Seq(Seq(Byte))
    OBVIOUS
  <2> QED
    BY <1>2, <2>1, <2>2 DEF TakenStep, Results
<1> QED
  BY <1>1, <1>2

\* A step asks its function about shorter inputs only.
LEMMA StepLocal ==
  ASSUME NEW f \in [Seq(Byte) -> Results], NEW g \in [Seq(Byte) -> Results], NEW buf \in Seq(Byte),
         \A b \in Seq(Byte) : Len(b) < Len(buf) => f[b] = g[b]
  PROVE  TakenStep(f, buf) = TakenStep(g, buf)
<1>1. CASE Incomplete(buf) \/ OutOfStep(buf)
  BY <1>1 DEF TakenStep
<1>2. CASE ~Incomplete(buf) /\ ~OutOfStep(buf)
  <2>1. After(buf) \in Seq(Byte) /\ Len(After(buf)) < Len(buf)
    BY <1>2, Shorter DEF TPKT1_LENGTH
  <2>2. f[After(buf)] = g[After(buf)]
    BY <2>1
  <2> QED
    BY <2>2 DEF TakenStep
<1> QED
  BY <1>1, <1>2

\* f is right about the inputs shorter than n.
Solves(f, n) ==
  /\ f \in [Seq(Byte) -> Results]
  /\ \A buf \in Seq(Byte) : Len(buf) < n => f[buf] = TakenStep(f, buf)

LEMMA SolutionsAgree ==
  ASSUME NEW m \in Nat, NEW n \in Nat, NEW f, NEW g, Solves(f, m), Solves(g, n)
  PROVE  \A buf \in Seq(Byte) : Len(buf) < m /\ Len(buf) < n => f[buf] = g[buf]
<1> DEFINE S == {l \in Nat :
                   \A b \in Seq(Byte) : Len(b) < l /\ Len(b) < m /\ Len(b) < n => f[b] = g[b]}
<1>1. 0 \in S
  OBVIOUS
<1>2. ASSUME NEW l \in S PROVE l + 1 \in S
  <2>1. ASSUME NEW b \in Seq(Byte), Len(b) < l + 1, Len(b) < m, Len(b) < n PROVE f[b] = g[b]
    <3>1. \A c \in Seq(Byte) : Len(c) < Len(b) => f[c] = g[c]
      BY <2>1
    <3>2. TakenStep(f, b) = TakenStep(g, b)
      BY <3>1, StepLocal DEF Solves
    <3> QED
      BY <2>1, <3>2 DEF Solves
  <2> QED
    BY <2>1
<1>3. S = Nat
  BY <1>1, <1>2, Induction
<1>4. ASSUME NEW b \in Seq(Byte), Len(b) < m, Len(b) < n PROVE f[b] = g[b]
  <2>1. m \in S
    BY <1>3
  <2> QED
    BY <1>4, <2>1
<1> QED
  BY <1>4

LEMMA SolutionsExist == \A n \in Nat : \E f : Solves(f, n)
<1> DEFINE S == {n \in Nat : \E f : Solves(f, n)}
<1>1. 0 \in S
  <2>1. [payloads |-> <<>>, rest |-> <<>>, lost |-> FALSE] \in Results
    BY DEF Results
  <2>2. Solves([b \in Seq(Byte) |-> [payloads |-> <<>>, rest |-> <<>>, lost |-> FALSE]], 0)
    BY <2>1 DEF Solves
  <2> QED
    BY <2>2
<1>2. ASSUME NEW n \in S PROVE n + 1 \in S
  <2>1. PICK f : Solves(f, n)
    OBVIOUS
  <2> DEFINE g == [b \in Seq(Byte) |-> TakenStep(f, b)]
  <2>2. g \in [Seq(Byte) -> Results]
    BY <2>1, StepType DEF Solves
  <2>3. ASSUME NEW b \in Seq(Byte), Len(b) < n + 1 PROVE g[b] = TakenStep(g, b)
    <3>1. \A c \in Seq(Byte) : Len(c) < Len(b) => f[c] = g[c]
      BY <2>1, <2>3 DEF Solves
    <3>2. TakenStep(f, b) = TakenStep(g, b)
      BY <2>1, <2>2, <3>1, StepLocal DEF Solves
    <3> QED
      BY <3>2
  <2>4. Solves(g, n + 1)
    BY <2>2, <2>3 DEF Solves
  <2> QED
    BY <2>4
<1>3. S = Nat
  BY <1>1, <1>2, Induction
<1> QED
  BY <1>3

\* Taken's definition has a solution, and Taken is one.
LEMMA TakenDef ==
  /\ Taken \in [Seq(Byte) -> Results]
  /\ \A buf \in Seq(Byte) : Taken[buf] = TakenStep(Taken, buf)
<1> DEFINE F(n) == CHOOSE f : Solves(f, n)
           T == [buf \in Seq(Byte) |-> F(Len(buf) + 1)[buf]]
<1>1. \A n \in Nat : Solves(F(n), n)
  BY SolutionsExist
<1> HIDE DEF F
<1>2. T \in [Seq(Byte) -> Results]
  <2>1. ASSUME NEW buf \in Seq(Byte) PROVE F(Len(buf) + 1)[buf] \in Results
    <3>1. F(Len(buf) + 1) \in [Seq(Byte) -> Results]
      BY <1>1 DEF Solves
    <3> QED
      BY <3>1, Zenon
  <2> QED
    BY <2>1
<1>3. ASSUME NEW buf \in Seq(Byte) PROVE T[buf] = TakenStep(T, buf)
  <2>1. Solves(F(Len(buf) + 1), Len(buf) + 1)
    BY <1>1
  <2>2. ASSUME NEW b \in Seq(Byte), Len(b) < Len(buf) PROVE F(Len(buf) + 1)[b] = T[b]
    <3>1. Solves(F(Len(b) + 1), Len(b) + 1)
      BY <1>1
    <3> QED
      BY <2>1, <2>2, <3>1, SolutionsAgree
  <2>3. TakenStep(F(Len(buf) + 1), buf) = TakenStep(T, buf)
    BY <1>2, <2>1, <2>2, StepLocal DEF Solves
  <2>4. \A f, n : Solves(f, n) /\ Len(buf) < n => f[buf] = TakenStep(f, buf)
    BY DEF Solves
  <2>5. T[buf] = TakenStep(F(Len(buf) + 1), buf)
    BY <2>1, <2>4
  <2> QED
    BY <2>3, <2>5
<1>4. T = [buf \in Seq(Byte) |-> TakenStep(T, buf)]
  BY <1>3
<1>5. Taken = [buf \in Seq(Byte) |-> TakenStep(Taken, buf)]
  BY <1>4 DEF Taken, TakenStep, FrameEnd, After
<1> DEFINE S == {n \in Nat : \A b \in Seq(Byte) : Len(b) < n => Taken[b] \in Results}
<1>6. 0 \in S
  OBVIOUS
<1>7. ASSUME NEW n \in S PROVE n + 1 \in S
  <2>1. ASSUME NEW b \in Seq(Byte), Len(b) < n + 1 PROVE Taken[b] \in Results
    <3>1. \A c \in Seq(Byte) : Len(c) < Len(b) => Taken[c] \in Results
      BY <2>1
    <3> QED
      BY <1>5, <3>1, StepType
  <2> QED
    BY <2>1
<1>8. S = Nat
  BY <1>6, <1>7, Induction
<1>9. ASSUME NEW b \in Seq(Byte) PROVE Taken[b] \in Results
  <2>1. Len(b) + 1 \in Nat
    OBVIOUS
  <2> QED
    BY <1>8, <2>1
<1> QED
  BY <1>5, <1>9
-----------------------------------------------------------------------------
(* Headers                                                                  *)

\* A number is put together from its quotient and remainder.
LEMMA DivMod ==
  ASSUME NEW a \in Nat, NEW d \in Nat, d > 0
  PROVE  /\ a \div d \in Nat /\ a % d \in 0..(d - 1)
         /\ \E q \in Nat, r \in 0..(d - 1) : q = a \div d /\ r = a % d /\ a = d * q + r
<1>1. a \div d \in Nat /\ a % d \in 0..(d - 1)
  OBVIOUS
<1>2. ASSUME NEW q \in Nat, NEW r \in 0..(d - 1), q = a \div d, r = a % d PROVE a = d * q + r
  BY <1>2
<1> QED
  BY <1>1, <1>2

\* Quotient and remainder are the only ones.
LEMMA Unique ==
  ASSUME NEW d \in Nat, NEW p \in Nat, NEW q \in Nat, NEW r \in 0..(d - 1), NEW s \in 0..(d - 1),
         d * p + r = d * q + s
  PROVE  p = q /\ r = s
<1>1. ASSUME NEW m \in Nat, NEW n \in Nat, m < n PROVE d * n >= d * m + d
  <2>1. n - m - 1 \in Nat /\ n = m + (n - m - 1) + 1
    BY <1>1
  <2>2. PICK e \in Nat : n = m + e + 1
    BY <2>1
  <2>3. d * n = d * m + d * e + d /\ d * e >= 0
    BY <2>2
  <2> QED
    BY <2>3
<1>2. CASE p < q
  BY <1>1, <1>2
<1>3. CASE q < p
  BY <1>1, <1>3
<1>4. CASE p = q
  BY <1>4
<1> QED
  BY <1>2, <1>3, <1>4

LEMMA Digits ==
  ASSUME NEW B \in Nat, B > 1, NEW n \in Nat, n < B * B * B
  PROVE  \E x, y, z \in 0..(B - 1) :
           /\ x = (n % (B * B * B)) \div (B * B) /\ y = (n % (B * B)) \div B /\ z = n % B
           /\ n = x * (B * B) + y * B + z
<1>1. B * B \in Nat /\ B * B > 0 /\ B * B * B \in Nat /\ B * B * B > 0
  OBVIOUS
<1>2. n % (B * B * B) = n
  <2>1. PICK q \in Nat, r \in 0..(B * B * B - 1) : q = n \div (B * B * B) /\ r = n % (B * B * B) /\ n = (B * B * B) * q + r
    BY <1>1, DivMod
  <2>2. (B * B * B) * 0 + n = (B * B * B) * q + r
    BY <2>1, <1>1
  <2>3. n \in 0..(B * B * B - 1)
    BY <1>1
  <2> QED
    BY <1>1, <2>1, <2>2, <2>3, Unique
<1>3. PICK x \in Nat, r \in 0..(B * B - 1) : x = n \div (B * B) /\ r = n % (B * B) /\ n = (B * B) * x + r
  BY <1>1, DivMod
<1>4. PICK y \in Nat, z \in 0..(B - 1) : y = r \div B /\ z = r % B /\ r = B * y + z
  BY <1>3, <1>1, DivMod
<1>5. x \in 0..(B - 1)
  <2>1. CASE x >= B
    <3>1. PICK e \in Nat : x = B + e
      <4>1. x - B \in Nat /\ x = B + (x - B)
        BY <2>1
      <4> QED BY <4>1
    <3>2. (B * B) * x = B * B * B + (B * B) * e /\ (B * B) * e >= 0
      BY <3>1
    <3> QED BY <3>2, <1>3, <1>1
  <2> QED BY <2>1
<1>6. y \in 0..(B - 1)
  <2>1. CASE y >= B
    <3>1. PICK e \in Nat : y = B + e
      <4>1. y - B \in Nat /\ y = B + (y - B)
        BY <2>1
      <4> QED BY <4>1
    <3>2. B * y = B * B + B * e /\ B * e >= 0
      BY <3>1
    <3> QED BY <3>2, <1>3, <1>4, <1>1
  <2> QED BY <2>1
<1>7. n % B = z
  <2>1. PICK q \in Nat, s \in 0..(B - 1) : q = n \div B /\ s = n % B /\ n = B * q + s
    BY DivMod
  <2>2. PICK m \in Nat : m = B * x /\ B * m = (B * B) * x
    <3>1. ASSUME NEW k \in Nat PROVE B * (B * k) = (B * B) * k
      OBVIOUS
    <3>2. B * x \in Nat
      BY <1>3
    <3> QED
      BY <1>3, <3>1, <3>2
  <2>3. PICK p \in Nat : p = m + y /\ B * p = B * m + B * y
    BY <2>2, <1>4
  <2>4. B * p + z = B * q + s
    BY <2>1, <2>2, <2>3, <1>3, <1>4
  <2> QED
    BY <2>1, <2>4, <1>4, Unique
<1>8. n = x * (B * B) + y * B + z
  <2>1. \A j, k \in Nat : j * k = k * j
    OBVIOUS
  <2>2. (B * B) * x = x * (B * B) /\ B * y = y * B
    BY <2>1, <1>1, <1>3, <1>4
  <2>3. PICK u, v \in Nat : u = x * (B * B) /\ v = y * B
    BY <1>1, <1>3, <1>4
  <2>4. n = u + r /\ r = v + z
    BY <2>2, <2>3, <1>3, <1>4, Zenon
  <2>5. n = u + v + z
    BY <2>3, <2>4, <1>4
  <2> QED
    BY <2>3, <2>5, Zenon
<1> QED
  BY <1>2, <1>3, <1>4, <1>5, <1>6, <1>7, <1>8

-----------------------------------------------------------------------------
(* Frames and streams                                                       *)

Frame(p) == Header(Len(p)) \o p

Concat(S) == \A s, t, u \in Seq(S) : /\ s \o t \in Seq(S) /\ (s \o t) \o u = s \o (t \o u)
                                     /\ s \o <<>> = s /\ <<>> \o s = s

LEMMA Concats == \A S : Concat(S)
<1>1. ASSUME NEW S, NEW s \in Seq(S), NEW t \in Seq(S), NEW u \in Seq(S)
      PROVE  /\ s \o t \in Seq(S) /\ (s \o t) \o u = s \o (t \o u)
             /\ s \o <<>> = s /\ <<>> \o s = s
  OBVIOUS
<1> QED
  BY <1>1 DEF Concat

LEMMA ByteConcats ==
  \A s, t, u \in Seq(Byte) : /\ s \o t \in Seq(Byte) /\ (s \o t) \o u = s \o (t \o u)
                             /\ s \o <<>> = s /\ <<>> \o s = s
BY Concats DEF Concat

LEMMA PayloadConcats ==
  \A s, t, u \in Seq(Payloads) : s \o t \in Seq(Payloads) /\ (s \o t) \o u = s \o (t \o u)
BY Concats DEF Concat

LEMMA Join == ASSUME NEW S, NEW s \in Seq(S), NEW t \in Seq(S) PROVE s \o t \in Seq(S)
OBVIOUS

LEMMA Assoc ==
  ASSUME NEW S, NEW s \in Seq(S), NEW t \in Seq(S), NEW u \in Seq(S)
  PROVE  (s \o t) \o u = s \o (t \o u)
OBVIOUS

\* Four in a row, and the ways the steps bracket them.
Last(s, t, u, v) == (s \o (t \o u)) \o v = s \o (t \o (u \o v))
Middle(s, t, u, v) == s \o ((t \o u) \o v) = (s \o t) \o (u \o v)
Three(s, t, u) == (s \o t) \o u = s \o (t \o u)

LEMMA AssocThree ==
  ASSUME NEW S, NEW s \in Seq(S), NEW t \in Seq(S), NEW u \in Seq(S) PROVE Three(s, t, u)
BY Assoc DEF Three

LEMMA AssocLast ==
  ASSUME NEW S, NEW s \in Seq(S), NEW t \in Seq(S), NEW u \in Seq(S), NEW v \in Seq(S)
  PROVE  Last(s, t, u, v)
<1>1. t \o u \in Seq(S)
  BY Join
<1>2. (s \o (t \o u)) \o v = s \o ((t \o u) \o v)
  BY <1>1, Assoc
<1>3. (t \o u) \o v = t \o (u \o v)
  BY Assoc
<1> QED
  BY <1>2, <1>3, Zenon DEF Last

LEMMA AssocMiddle ==
  ASSUME NEW S, NEW s \in Seq(S), NEW t \in Seq(S), NEW u \in Seq(S), NEW v \in Seq(S)
  PROVE  Middle(s, t, u, v)
<1>1. u \o v \in Seq(S)
  BY Join
<1>2. (s \o t) \o (u \o v) = s \o (t \o (u \o v))
  BY <1>1, Assoc
<1>3. (t \o u) \o v = t \o (u \o v)
  BY Assoc
<1> QED
  BY <1>2, <1>3, Zenon DEF Middle

LEMMA Cut ==
  ASSUME NEW S, NEW s \in Seq(S), NEW n \in 0..Len(s)
  PROVE  /\ SubSeq(s, 1, n) \in Seq(S) /\ SubSeq(s, n + 1, Len(s)) \in Seq(S)
         /\ SubSeq(s, 1, n) \o SubSeq(s, n + 1, Len(s)) = s
<1>1. SubSeq(s, 1, n) \in Seq(S) /\ SubSeq(s, n + 1, Len(s)) \in Seq(S)
  OBVIOUS
<1>2. SubSeq(s, 1, n) \o SubSeq(s, n + 1, Len(s)) = SubSeq(s, 1, Len(s))
  <2>1. 1 \in 1..(Len(s) + 1) /\ n \in (1 - 1)..Len(s) /\ Len(s) \in n..Len(s)
    OBVIOUS
  <2> QED
    BY <2>1, ConcatAdjacentSubSeq
<1> QED
  BY <1>1, <1>2, SubSeqFull

\* The length is in the header, whatever it is.
LEMMA HeaderRead ==
  ASSUME NEW n \in Nat, n + TPKT1_LENGTH < Base * Base * Base
  PROVE  /\ Header(n) \in Seq(Byte) /\ Len(Header(n)) = TPKT1_LENGTH
         /\ Header(n)[1] = TPKT_VERSION1_LOW_BYTE /\ PacketLength(Header(n)) = n + TPKT1_LENGTH
<1>1. Base \in Nat /\ Base > 1 /\ n + TPKT1_LENGTH \in Nat
  BY BaseAssumption DEF TPKT1_LENGTH
<1>2. PICK x \in 0..(Base - 1), y \in 0..(Base - 1), z \in 0..(Base - 1) :
        /\ x = ((n + TPKT1_LENGTH) % (Base * Base * Base)) \div (Base * Base)
        /\ y = ((n + TPKT1_LENGTH) % (Base * Base)) \div Base /\ z = (n + TPKT1_LENGTH) % Base
        /\ n + TPKT1_LENGTH = x * (Base * Base) + y * Base + z
  <2>1. \E u, v, w \in 0..(Base - 1) :
           /\ u = ((n + TPKT1_LENGTH) % (Base * Base * Base)) \div (Base * Base)
           /\ v = ((n + TPKT1_LENGTH) % (Base * Base)) \div Base /\ w = (n + TPKT1_LENGTH) % Base
           /\ n + TPKT1_LENGTH = u * (Base * Base) + v * Base + w
    BY <1>1, Digits, Zenon
  <2> QED
    BY <2>1, Zenon
<1>3. Header(n) = <<TPKT_VERSION1_LOW_BYTE, x, y, z>>
  BY <1>2, Zenon DEF Header
<1>4. 1 \in Byte
  BY <1>1 DEF Byte
<1>5. /\ Header(n) \in Seq(Byte) /\ Len(Header(n)) = 4 /\ Header(n)[1] = 1
      /\ Header(n)[2] = x /\ Header(n)[3] = y /\ Header(n)[4] = z
  BY <1>2, <1>3, <1>4 DEF Byte, TPKT_VERSION1_LOW_BYTE
<1>6. PacketLength(Header(n)) = x * (Base * Base) + y * Base + z
  BY <1>5, Zenon DEF PacketLength
<1> QED
  BY <1>2, <1>5, <1>6 DEF TPKT1_LENGTH, TPKT_VERSION1_LOW_BYTE

LEMMA FrameType ==
  ASSUME NEW p \in Payloads
  PROVE  /\ Frame(p) \in Seq(Byte) /\ p \in Seq(Byte)
         /\ Header(Len(p)) \in Seq(Byte) /\ Len(Header(Len(p))) = TPKT1_LENGTH
         /\ Header(Len(p))[1] = TPKT_VERSION1_LOW_BYTE
         /\ PacketLength(Header(Len(p))) = Len(p) + TPKT1_LENGTH
         /\ Len(Frame(p)) = Len(p) + TPKT1_LENGTH
<1>1. p \in Seq(Byte) /\ Len(p) \in Nat /\ Len(p) + TPKT1_LENGTH < Base * Base * Base
  BY ClientAssumption
<1>2. /\ Header(Len(p)) \in Seq(Byte) /\ Len(Header(Len(p))) = TPKT1_LENGTH
      /\ Header(Len(p))[1] = TPKT_VERSION1_LOW_BYTE
      /\ PacketLength(Header(Len(p))) = Len(p) + TPKT1_LENGTH
  BY <1>1, HeaderRead
<1>3. Frame(p) \in Seq(Byte) /\ Len(Frame(p)) = Len(p) + TPKT1_LENGTH
  <2>1. \A s, t \in Seq(Byte) : s \o t \in Seq(Byte) /\ Len(s \o t) = Len(s) + Len(t)
    BY ConcatProperties
  <2>2. Frame(p) \in Seq(Byte) /\ Len(Frame(p)) = TPKT1_LENGTH + Len(p)
    BY <1>1, <1>2, <2>1, Zenon DEF Frame
  <2> QED
    BY <1>1, <2>2 DEF TPKT1_LENGTH
<1> QED
  BY <1>1, <1>2, <1>3

\* Bytes and the payloads whose frames they are.
Pairs == Seq(Byte) \X Seq(Payloads)
Closed(X) == /\ <<<<>>, <<>>>> \in X
             /\ \A b \in Seq(Byte), s \in Seq(Payloads), p \in Payloads :
                  <<b, s>> \in X => <<b \o Frame(p), Append(s, p)>> \in X
Stream(b, s) == /\ b \in Seq(Byte) /\ s \in Seq(Payloads)
                /\ \A X \in SUBSET Pairs : Closed(X) => <<b, s>> \in X

LEMMA StreamEmpty == Stream(<<>>, <<>>)
<1>1. <<>> \in Seq(Byte) /\ <<>> \in Seq(Payloads)
  OBVIOUS
<1> QED
  BY <1>1 DEF Stream, Closed

LEMMA StreamGrows ==
  ASSUME NEW b, NEW s, Stream(b, s), NEW p \in Payloads
  PROVE  Stream(b \o Frame(p), Append(s, p))
<1>1. b \in Seq(Byte) /\ s \in Seq(Payloads) /\ Frame(p) \in Seq(Byte)
  BY FrameType DEF Stream
<1>2. b \o Frame(p) \in Seq(Byte) /\ Append(s, p) \in Seq(Payloads)
  BY <1>1, Concats DEF Concat
<1>3. ASSUME NEW X \in SUBSET Pairs, Closed(X) PROVE <<b \o Frame(p), Append(s, p)>> \in X
  BY <1>1, <1>3, Zenon DEF Stream, Closed
<1> QED
  BY <1>2, <1>3 DEF Stream

\* A stream is empty, or begins with the frame of its first payload.
LEMMA StreamBegins ==
  ASSUME NEW b, NEW s, Stream(b, s)
  PROVE  \/ b = <<>> /\ s = <<>>
         \/ \E h \in Payloads, c \in Seq(Byte), t \in Seq(Payloads) :
              b = Frame(h) \o c /\ s = <<h>> \o t /\ Stream(c, t)
<1> DEFINE Begins(x, y) == \/ x = <<>> /\ y = <<>>
                           \/ \E h \in Payloads, c \in Seq(Byte), t \in Seq(Payloads) :
                                x = Frame(h) \o c /\ y = <<h>> \o t /\ Stream(c, t)
           X == {xy \in Pairs : Begins(xy[1], xy[2])}
<1>1. <<<<>>, <<>>>> \in X
  <2>1. Begins(<<>>, <<>>)
    OBVIOUS
  <2> HIDE DEF Begins
  <2>2. <<>> \in Seq(Byte) /\ <<>> \in Seq(Payloads)
    OBVIOUS
  <2> QED
    BY <2>1, <2>2 DEF Pairs
<1>2. ASSUME NEW x \in Seq(Byte), NEW y \in Seq(Payloads), NEW p \in Payloads, Begins(x, y)
      PROVE  Begins(x \o Frame(p), Append(y, p))
  <2>1. Frame(p) \in Seq(Byte)
    BY FrameType
  <2>2. CASE x = <<>> /\ y = <<>>
    <3>1. x \o Frame(p) = Frame(p) \o <<>> /\ Append(y, p) = <<p>> \o <<>>
      BY <2>1, <2>2, Concats DEF Concat
    <3>2. <<>> \in Seq(Byte) /\ <<>> \in Seq(Payloads)
      OBVIOUS
    <3> QED
      BY <3>1, <3>2, StreamEmpty
  <2>3. ASSUME NEW h \in Payloads, NEW c \in Seq(Byte), NEW t \in Seq(Payloads),
               x = Frame(h) \o c, y = <<h>> \o t, Stream(c, t)
        PROVE  Begins(x \o Frame(p), Append(y, p))
    <3>1. Frame(h) \in Seq(Byte)
      BY FrameType
    <3>2. x \o Frame(p) = Frame(h) \o (c \o Frame(p)) /\ c \o Frame(p) \in Seq(Byte)
      BY <2>1, <2>3, <3>1, Concats DEF Concat
    <3>3. Append(y, p) = <<h>> \o Append(t, p) /\ Append(t, p) \in Seq(Payloads)
      BY <2>3
    <3>4. Stream(c \o Frame(p), Append(t, p))
      BY <2>3, StreamGrows
    <3> QED
      BY <3>2, <3>3, <3>4
  <2> QED
    BY <1>2, <2>2, <2>3
<1> HIDE DEF Begins
<1>3. ASSUME NEW x \in Seq(Byte), NEW y \in Seq(Payloads), NEW p \in Payloads, <<x, y>> \in X
      PROVE  <<x \o Frame(p), Append(y, p)>> \in X
  <2>1. Begins(x \o Frame(p), Append(y, p))
    BY <1>2, <1>3
  <2>2. x \o Frame(p) \in Seq(Byte) /\ Append(y, p) \in Seq(Payloads)
    BY FrameType, Concats DEF Concat
  <2> QED
    BY <2>1, <2>2 DEF Pairs
<1>4. Closed(X) /\ X \in SUBSET Pairs
  BY <1>1, <1>3, Zenon DEF Closed
<1>5. <<b, s>> \in X
  BY <1>4, Zenon DEF Stream
<1>6. Begins(b, s)
  BY <1>5
<1> QED
  BY <1>6 DEF Begins

\* The first bytes of an input that begins with a frame, as far as they are there.
LEMMA FrameRead ==
  ASSUME NEW h \in Payloads, NEW b \in Seq(Byte), NEW z \in Seq(Byte), NEW c \in Seq(Byte),
         b \o z = Frame(h) \o c
  PROVE  /\ ~OutOfStep(b)
         /\ ~Incomplete(b) =>
              /\ FrameEnd(b) = Len(Frame(h)) /\ After(b) \o z = c
              /\ SubSeq(b, TPKT1_LENGTH + 1, FrameEnd(b)) = h
<1> DEFINE g == Header(Len(h))
<1>1. /\ g \in Seq(Byte) /\ Len(g) = 4 /\ g[1] = TPKT_VERSION1_LOW_BYTE
      /\ PacketLength(g) = Len(h) + 4 /\ h \in Seq(Byte)
      /\ Frame(h) \in Seq(Byte) /\ Len(Frame(h)) = Len(h) + 4 /\ Frame(h) = g \o h
  BY FrameType DEF TPKT1_LENGTH, Frame
<1> HIDE DEF g
<1>2. ASSUME NEW j \in 1..Len(b), j <= Len(Frame(h)) PROVE b[j] = Frame(h)[j]
  <2>1. (b \o z)[j] = b[j]
    OBVIOUS
  <2>2. (Frame(h) \o c)[j] = Frame(h)[j]
    BY <1>1, <1>2
  <2> QED
    BY <2>1, <2>2
<1>3. ASSUME NEW j \in 1..4 PROVE Frame(h)[j] = g[j]
  BY <1>1
<1>4. CASE Len(b) < 4
  BY <1>4 DEF OutOfStep, Incomplete, TPKT1_LENGTH
<1>5. CASE Len(b) >= 4
  <2>1. b[1] = g[1] /\ b[2] = g[2] /\ b[3] = g[3] /\ b[4] = g[4]
    BY <1>1, <1>2, <1>3, <1>5
  <2>2. b[1] = TPKT_VERSION1_LOW_BYTE /\ PacketLength(b) = Len(h) + 4
    BY <1>1, <2>1 DEF PacketLength
  <2>3. ~OutOfStep(b)
    BY <1>1, <2>2 DEF OutOfStep, TPKT1_LENGTH
  <2>4. ASSUME ~Incomplete(b)
        PROVE  /\ FrameEnd(b) = Len(Frame(h)) /\ After(b) \o z = c
               /\ SubSeq(b, TPKT1_LENGTH + 1, FrameEnd(b)) = h
    <3>1. FrameEnd(b) = Len(h) + 4 /\ FrameEnd(b) <= Len(b)
      BY <2>2, <2>3, <2>4, Shorter
    <3>2. SubSeq(b, 5, Len(h) + 4) = h
      <4>1. ASSUME NEW j \in 1..Len(h) PROVE b[j + 4] = h[j]
        <5>1. j + 4 \in 1..Len(b) /\ j + 4 <= Len(Frame(h))
          BY <1>1, <3>1
        <5>2. b[j + 4] = Frame(h)[j + 4]
          BY <1>2, <5>1
        <5>3. (g \o h)[j + 4] = h[j]
          BY <1>1
        <5> QED
          BY <1>1, <5>2, <5>3
      <4>2. /\ SubSeq(b, 5, Len(h) + 4) \in Seq(Byte) /\ Len(SubSeq(b, 5, Len(h) + 4)) = Len(h)
            /\ \A j \in 1..Len(h) : SubSeq(b, 5, Len(h) + 4)[j] = b[j + 4]
        BY <1>1, <3>1
      <4> QED
        BY <1>1, <4>1, <4>2
    <3>3. SubSeq(b, Len(h) + 5, Len(b)) \o z = c
      <4> DEFINE f == SubSeq(b, 1, Len(h) + 4)
                 a == SubSeq(b, Len(h) + 5, Len(b))
      <4>1. f \o a = b /\ f \in Seq(Byte) /\ a \in Seq(Byte)
        <5>1. PICK n \in 0..Len(b) : n = Len(h) + 4 /\ n + 1 = Len(h) + 5
          BY <1>1, <3>1
        <5> QED
          BY <5>1, Cut
      <4>2. /\ Len(f) = Len(Frame(h))
            /\ \A k \in 1..Len(f) : f[k] = b[k] /\ k \in 1..Len(b) /\ k <= Len(Frame(h))
        BY <1>1, <3>1
      <4> HIDE DEF f, a
      <4>3. f = Frame(h)
        BY <1>1, <1>2, <4>1, <4>2, SeqEqual
      <4>4. Frame(h) \o (a \o z) = Frame(h) \o c /\ a \o z \in Seq(Byte)
        <5>0. f \in Seq(Byte) /\ a \in Seq(Byte) /\ z \in Seq(Byte)
          BY <4>1
        <5>1. (f \o a) \o z = f \o (a \o z) /\ a \o z \in Seq(Byte)
          BY ONLY <5>0, ByteConcats
        <5> QED
          BY <4>1, <4>3, <5>1, Zenon
      <4>5. a \o z = c
        BY <1>1, <4>4, ConcatSimplifications, Zenon
      <4> QED
        BY <4>5 DEF a
    <3> QED
      BY <1>1, <3>1, <3>2, <3>3 DEF After, TPKT1_LENGTH
  <2> QED
    BY <2>3, <2>4
<1> QED
  BY <1>4, <1>5

\* Given any first part b of a stream, onSessionRead hands on the payloads of the whole
\* frames of it; the rest, with what has yet to come, is the stream of the others.
THEOREM TakenRight ==
  ASSUME NEW b \in Seq(Byte), NEW z \in Seq(Byte), NEW s, Stream(b \o z, s)
  PROVE  /\ Taken[b].lost = FALSE /\ Taken[b].rest \in Seq(Byte)
         /\ \E t \in Seq(Payloads) : /\ Taken[b].payloads \in Seq(Payloads)
                                     /\ s = Taken[b].payloads \o t
                                     /\ Stream(Taken[b].rest \o z, t)
<1> DEFINE Right(x, y) ==
             /\ Taken[x].lost = FALSE /\ Taken[x].rest \in Seq(Byte)
             /\ \E t \in Seq(Payloads) : /\ Taken[x].payloads \in Seq(Payloads)
                                         /\ y = Taken[x].payloads \o t
                                         /\ Stream(Taken[x].rest \o z, t)
           S == {n \in Nat : \A x \in Seq(Byte), y \in Seq(Payloads) :
                               Len(x) < n /\ Stream(x \o z, y) => Right(x, y)}
<1>1. 0 \in S
  OBVIOUS
<1>2. ASSUME NEW n \in S, NEW x \in Seq(Byte), NEW y \in Seq(Payloads), Len(x) < n + 1,
             Stream(x \o z, y)
      PROVE  Right(x, y)
  <2>1. Taken[x] = TakenStep(Taken, x)
    BY TakenDef
  <2>2. CASE Incomplete(x) /\ ~OutOfStep(x)
    <3>1. Taken[x] = [payloads |-> <<>>, rest |-> x, lost |-> FALSE]
      BY <2>1, <2>2 DEF TakenStep, OutOfStep
    <3>2. y = <<>> \o y /\ <<>> \in Seq(Payloads)
      OBVIOUS
    <3> QED
      BY <1>2, <3>1, <3>2
  <2>3. CASE x \o z = <<>> /\ y = <<>>
    <3>1. x = <<>>
      BY <2>3, ConcatEqualIffEmpty
    <3>2. Incomplete(x) /\ ~OutOfStep(x)
      BY <3>1 DEF Incomplete, OutOfStep, TPKT1_LENGTH
    <3> QED
      BY <2>2, <3>2
  <2>4. ASSUME NEW h \in Payloads, NEW c \in Seq(Byte), NEW t \in Seq(Payloads),
               x \o z = Frame(h) \o c, y = <<h>> \o t, Stream(c, t), ~Incomplete(x)
        PROVE  Right(x, y)
    <3>1. /\ ~OutOfStep(x) /\ After(x) \o z = c
          /\ SubSeq(x, TPKT1_LENGTH + 1, FrameEnd(x)) = h
      BY <2>4, FrameRead
    <3>2. After(x) \in Seq(Byte) /\ Len(After(x)) < n
      BY <1>2, <2>4, <3>1, Shorter DEF TPKT1_LENGTH
    <3>3. Stream(After(x) \o z, t)
      BY <2>4, <3>1
    <3>4. Right(After(x), t)
      BY <3>2, <3>3
    <3>5. Taken[After(x)] \in Results
      BY <3>2, TakenDef
    <3>6. Taken[x] = [Taken[After(x)] EXCEPT !.payloads = <<h>> \o @]
      BY <2>1, <2>4, <3>1 DEF TakenStep
    <3>7. /\ Taken[x].payloads = <<h>> \o Taken[After(x)].payloads
          /\ Taken[x].rest = Taken[After(x)].rest /\ Taken[x].lost = Taken[After(x)].lost
      BY <3>5, <3>6 DEF Results
    <3>8. PICK u \in Seq(Payloads) : /\ Taken[After(x)].payloads \in Seq(Payloads)
                                     /\ t = Taken[After(x)].payloads \o u
                                     /\ Stream(Taken[After(x)].rest \o z, u)
      BY <3>4
    <3>9. <<h>> \in Seq(Payloads)
      OBVIOUS
    <3>10. /\ <<h>> \o Taken[After(x)].payloads \in Seq(Payloads)
           /\ y = (<<h>> \o Taken[After(x)].payloads) \o u
      <4>1. Taken[After(x)].payloads \in Seq(Payloads) /\ u \in Seq(Payloads)
        BY <3>8
      <4>2. <<h>> \o (Taken[After(x)].payloads \o u) = y
        BY <2>4, <3>8, Zenon
      <4> QED
        BY ONLY <3>9, <4>1, <4>2, PayloadConcats, Zenon
    <3> QED
      BY <3>4, <3>7, <3>8, <3>10
  <2>5. ASSUME NEW h \in Payloads, NEW c \in Seq(Byte), x \o z = Frame(h) \o c
        PROVE  ~OutOfStep(x)
    BY <2>5, FrameRead
  <2> HIDE DEF Right, S
  <2>6. \/ x \o z = <<>> /\ y = <<>>
        \/ \E h \in Payloads, c \in Seq(Byte), t \in Seq(Payloads) :
             x \o z = Frame(h) \o c /\ y = <<h>> \o t /\ Stream(c, t)
    <3>1. Stream(x \o z, y)
      BY <1>2
    <3> QED
      BY ONLY <3>1, StreamBegins, Zenon
  <2> QED
    BY <2>2, <2>3, <2>4, <2>5, <2>6, Zenon
<1> HIDE DEF Right
<1>3. \A n \in S : n + 1 \in S
  BY <1>2
<1>4. S = Nat
  BY <1>1, <1>3, Induction
<1>5. s \in Seq(Payloads) /\ Len(b) + 1 \in Nat /\ Len(b) < Len(b) + 1
  BY DEF Stream
<1>6. Right(b, s)
  BY <1>4, <1>5
<1> QED
  BY <1>6 DEF Right

-----------------------------------------------------------------------------
(* The invariant                                                            *)

\* Where the bytes can be: a connection not yet made has none, a server's end that is
\* gone has left the client's down.
Places == /\ bev = 0 => output = <<>>
          /\ bev # 0 => net[bev] # "none"
          /\ \A k \in Conns :
               /\ net[k] = "none" => /\ sent[k] = <<>> /\ got[k] = <<>> /\ wire[k] = <<>>
                                     /\ input[k] = <<>> /\ session[k] = "none"
               /\ session[k] = "gone" => net[k] = "down"
               /\ Len(sent[k]) <= total

\* The payloads x are those of the bytes in the server's input, on the wire and in the
\* client's output, or of what was in the output when the client freed it.
InFlight(k, x) ==
  \E z \in Seq(Byte) : (bev = k => z = output) /\ Stream(input[k] \o (wire[k] \o z), x)

\* What was sent is what the server was given, and then what is on its way.
Flow(k) ==
  \E x \in Seq(Payloads) : /\ got[k] \in Seq(Payloads)
                           /\ sent[k] = got[k] \o x
                           /\ session[k] # "gone" => InFlight(k, x)

AllFlow == \A k \in Conns : Flow(k)

IInv == TypeOK /\ Places /\ AllFlow /\ ~lost

LEMMA ConnsType == Conns \subseteq Nat \ {0} /\ MaxFrames \in Nat
BY ClientAssumption DEF Conns

\* A connection whose bytes are where they were.
LEMMA FlowSame ==
  ASSUME NEW k \in Conns, Flow(k),
         sent'[k] = sent[k], got'[k] = got[k], input'[k] = input[k],
         session'[k] # "gone" => session[k] # "gone" /\ wire'[k] = wire[k],
         bev' = k => bev = k /\ output' = output
  PROVE  Flow(k)'
<1>1. PICK x \in Seq(Payloads) : /\ got[k] \in Seq(Payloads) /\ sent[k] = got[k] \o x
                                 /\ session[k] # "gone" => InFlight(k, x)
  BY DEF Flow
<1>2. ASSUME session'[k] # "gone"
      PROVE  \E z \in Seq(Byte) : /\ bev' = k => z = output'
                                  /\ Stream(input'[k] \o (wire'[k] \o z), x)
  <2>1. PICK z \in Seq(Byte) : (bev = k => z = output) /\ Stream(input[k] \o (wire[k] \o z), x)
    BY <1>1, <1>2, Zenon DEF InFlight
  <2> QED
    BY <1>2, <2>1, Zenon
<1> QED
  BY <1>1, <1>2, Zenon DEF Flow, InFlight

LEMMA InitInv == Init => IInv
<1> SUFFICES ASSUME Init PROVE IInv
  OBVIOUS
<1>1. TypeOK
  <2>1. <<>> \in Seq(Byte) /\ <<>> \in Seq(Payloads) /\ <<>> \in Seq(Seq(Byte)) /\ {} \in SUBSET BOOLEAN
    OBVIOUS
  <2>2. 0 \in 0..MaxFrames
    BY ConnsType
  <2>3. /\ net \in [Conns -> {"none", "connecting", "up", "down"}]
        /\ session \in [Conns -> {"none", "open", "gone"}]
        /\ wire \in [Conns -> Seq(Byte)] /\ input \in [Conns -> Seq(Byte)]
        /\ sent \in [Conns -> Seq(Payloads)] /\ got \in [Conns -> Seq(Seq(Byte))]
        /\ asked \in [Conns -> SUBSET BOOLEAN] /\ owed \in [Conns -> 0..MaxFrames]
    BY <2>1, <2>2 DEF Init
  <2> QED
    BY <2>1, <2>2, <2>3 DEF Init, TypeOK
<1>2. Places
  BY ClientAssumption DEF Init, Places, Conns
<1>3. ASSUME NEW k \in Conns PROVE Flow(k)
  <2>1. /\ sent[k] = <<>> /\ got[k] = <<>> /\ input[k] = <<>> /\ wire[k] = <<>> /\ bev # k
    BY <1>3, ConnsType DEF Init
  <2>2. <<>> \in Seq(Payloads) /\ <<>> \in Seq(Byte) /\ <<>> = <<>> \o <<>>
    OBVIOUS
  <2>3. Stream(input[k] \o (wire[k] \o <<>>), <<>>)
    BY <2>1, <2>2, StreamEmpty, Zenon
  <2> QED
    BY <2>1, <2>2, <2>3, Zenon DEF Flow, InFlight
<1> QED
  BY <1>1, <1>2, <1>3 DEF IInv, AllFlow, Init

-----------------------------------------------------------------------------
(* The application's calls                                                  *)

LEMMA ConnectStep == ASSUME IInv, connect PROVE IInv'
<1>1. PICK k \in Conns : bev = 0 /\ net[k] = "none" /\ bev' = k /\ net' = [net EXCEPT ![k] = "connecting"]
  BY DEF connect
<1>2. /\ enabled' = TRUE
      /\ UNCHANGED <<isConnected, closing, output, pending, due, pc, wire, peer, calls>>
  BY DEF connect
<1>3. TypeOK'
  BY <1>1, <1>2 DEF IInv, TypeOK, peer, calls
<1>4. k # 0 /\ net'[k] = "connecting" /\ \A j \in Conns : j # k => net'[j] = net[j]
  BY <1>1, ConnsType DEF IInv, TypeOK
<1>5. Places'
  BY <1>1, <1>2, <1>4 DEF IInv, Places, peer, calls
<1>6. ASSUME NEW j \in Conns PROVE Flow(j)'
  <2>1. CASE j # k
    <3>1. Flow(j)
      BY DEF IInv, AllFlow
    <3> QED
      BY <1>1, <1>2, <2>1, <3>1, FlowSame DEF peer, calls
  <2>2. CASE j = k
    <3>1. /\ sent'[j] = <<>> /\ got'[j] = <<>> /\ input'[j] = <<>> /\ wire'[j] = <<>>
          /\ output' = <<>>
      BY <1>1, <1>2, <2>2 DEF IInv, Places, peer, calls
    <3>2. <<>> \in Seq(Payloads) /\ <<>> \in Seq(Byte) /\ <<>> = <<>> \o <<>>
      OBVIOUS
    <3>3. Stream(input'[j] \o (wire'[j] \o output'), <<>>)
      BY <3>1, <3>2, StreamEmpty, Zenon
    <3> QED
      BY <3>1, <3>2, <3>3, Zenon DEF Flow, InFlight
  <2> QED
    BY <2>1, <2>2
<1> QED
  BY <1>2, <1>3, <1>5, <1>6 DEF IInv, AllFlow, peer

LEMMA SendStep == ASSUME IInv, sendWithTPKT PROVE IInv'
<1>1. PICK p \in Payloads : /\ output' = output \o Header(Len(p)) \o p
                            /\ sent' = [sent EXCEPT ![bev] = Append(@, p)]
  BY DEF sendWithTPKT
<1>2. /\ bev # 0 /\ total < MaxFrames /\ total' = total + 1
      /\ UNCHANGED <<bev, isConnected, closing, enabled, pending, due, pc, net, wire, peer,
                     asked, owed>>
  BY DEF sendWithTPKT
<1>3. /\ bev \in Conns /\ output \in Seq(Byte) /\ sent \in [Conns -> Seq(Payloads)]
      /\ got \in [Conns -> Seq(Seq(Byte))] /\ total \in 0..MaxFrames
      /\ wire \in [Conns -> Seq(Byte)] /\ input \in [Conns -> Seq(Byte)]
  BY <1>2 DEF IInv, TypeOK
<1>4. output' = output \o Frame(p) /\ output' \in Seq(Byte)
  <2>1. Header(Len(p)) \in Seq(Byte) /\ p \in Seq(Byte)
    BY FrameType
  <2>2. output \in Seq(Byte)
    BY <1>3
  <2>3. /\ (output \o Header(Len(p))) \o p = output \o (Header(Len(p)) \o p)
        /\ output \o (Header(Len(p)) \o p) \in Seq(Byte)
    <3>1. Three(output, Header(Len(p)), p) /\ Header(Len(p)) \o p \in Seq(Byte)
      BY ONLY <2>1, <2>2, AssocThree, Join, Zenon
    <3> QED
      BY <2>2, <3>1, Join, Zenon DEF Three
  <2> QED
    BY <1>1, <2>3, Zenon DEF Frame
<1>5. /\ sent' \in [Conns -> Seq(Payloads)] /\ sent'[bev] = Append(sent[bev], p)
      /\ Len(sent'[bev]) = Len(sent[bev]) + 1
      /\ \A j \in Conns : j # bev => sent'[j] = sent[j]
  BY <1>1, <1>3
<1>6. TypeOK'
  BY <1>2, <1>3, <1>4, <1>5, ConnsType DEF IInv, TypeOK, peer
<1>7. Places'
  <2>1. ASSUME NEW j \in Conns PROVE Len(sent[j]) <= total /\ Len(sent[j]) \in Nat
    BY <1>3 DEF IInv, Places
  <2>2. ASSUME NEW j \in Conns PROVE Len(sent'[j]) <= total'
    <3>1. total' = total + 1 /\ total \in Nat
      BY <1>2, <1>3, ConnsType
    <3>2. CASE j = bev
      BY <1>5, <2>1, <3>1, <3>2
    <3>3. CASE j # bev
      BY <1>5, <2>1, <3>1, <3>3
    <3> QED
      BY <3>2, <3>3
  <2> QED
    BY <1>2, <1>3, <1>5, <2>2 DEF IInv, Places, peer
<1>8. ASSUME NEW j \in Conns PROVE Flow(j)'
  <2>1. Flow(j)
    BY DEF IInv, AllFlow
  <2>2. CASE j # bev
    BY <1>2, <1>5, <2>1, <2>2, FlowSame DEF peer
  <2>3. CASE j = bev
    <3>1. PICK x \in Seq(Payloads) : /\ got[j] \in Seq(Payloads) /\ sent[j] = got[j] \o x
                                     /\ session[j] # "gone" => InFlight(j, x)
      BY <2>1 DEF Flow
    <3>2. Append(x, p) \in Seq(Payloads) /\ sent'[j] = got[j] \o Append(x, p)
      <4>1. \A g \in Seq(Payloads) : /\ Append(x, p) \in Seq(Payloads)
                                     /\ Append(g \o x, p) = g \o Append(x, p)
        BY ONLY x \in Seq(Payloads), p \in Payloads
      <4> QED
        BY <1>5, <2>3, <3>1, <4>1, Zenon
    <3>3. ASSUME session[j] # "gone"
          PROVE  Stream(input[j] \o (wire[j] \o output'), Append(x, p))
      <4>1. Stream(input[j] \o (wire[j] \o output), x)
        BY <2>3, <3>1, <3>3, Zenon DEF InFlight
      <4>2. Stream((input[j] \o (wire[j] \o output)) \o Frame(p), Append(x, p))
        BY <4>1, StreamGrows
      <4>3. /\ input[j] \in Seq(Byte) /\ wire[j] \in Seq(Byte) /\ Frame(p) \in Seq(Byte)
            /\ output \in Seq(Byte)
        BY <1>3, FrameType
      <4>4. (input[j] \o (wire[j] \o output)) \o Frame(p) = input[j] \o (wire[j] \o (output \o Frame(p)))
        <5>1. Last(input[j], wire[j], output, Frame(p))
          BY ONLY <4>3, AssocLast, Zenon
        <5> QED
          BY <5>1, Zenon DEF Last
      <4> QED
        BY <1>4, <4>2, <4>4, Zenon
    <3>4. input'[j] = input[j] /\ wire'[j] = wire[j] /\ got'[j] = got[j] /\ session'[j] = session[j]
      BY <1>2 DEF peer
    <3>5. session'[j] # "gone" => InFlight(j, Append(x, p))'
      BY <1>4, <3>3, <3>4, Zenon DEF InFlight
    <3>6. \E y \in Seq(Payloads) : /\ got'[j] \in Seq(Payloads) /\ sent'[j] = got'[j] \o y
                                   /\ session'[j] # "gone" => InFlight(j, y)'
      BY <3>1, <3>2, <3>4, <3>5, Zenon
    <3> QED
      BY <3>6, Zenon DEF Flow, InFlight
  <2> QED
    BY <2>2, <2>3
<1> QED
  BY <1>2, <1>6, <1>7, <1>8 DEF IInv, AllFlow, peer

\* Steps that move no bytes.
LEMMA StillStep ==
  ASSUME IInv, TypeOK', UNCHANGED <<bev, output, wire, peer, total, sent>>,
         \A k \in Conns : net'[k] # net[k] => net'[k] = "down" /\ net[k] # "none"
  PROVE  IInv'
<1>1. Places'
  BY DEF IInv, Places, TypeOK, peer
<1>2. ASSUME NEW k \in Conns PROVE Flow(k)'
  <2>1. Flow(k)
    BY DEF IInv, AllFlow
  <2> QED
    BY <2>1, FlowSame DEF peer
<1> QED
  BY <1>1, <1>2 DEF IInv, AllFlow, peer

LEMMA ShutdownStep ==
  ASSUME IInv, NEW k \in Conns, k = bev, closeImpl(k)
  PROVE  /\ {closing', enabled', pending'} \subseteq BOOLEAN
         /\ net' \in [Conns -> {"none", "connecting", "up", "down"}]
         /\ \A j \in Conns : net'[j] # net[j] => net'[j] = "down" /\ net[j] # "none"
<1>1. net' = [net EXCEPT ![k] = "down"] /\ closing' = FALSE /\ enabled' = FALSE
  BY DEF closeImpl, Shutdown
<1>2. pending' \in BOOLEAN
  BY DEF closeImpl, Shutdown, IInv, TypeOK
<1>3. net[k] # "none"
  BY ConnsType DEF IInv, Places
<1> QED
  BY <1>1, <1>2, <1>3 DEF IInv, TypeOK

LEMMA CloseStep == ASSUME IInv, close PROVE IInv'
<1>1. PICK waiting \in BOOLEAN :
        /\ asked' = [asked EXCEPT ![bev] = @ \cup {waiting}]
        /\ IF MustWait(waiting) THEN closing' = TRUE /\ UNCHANGED <<enabled, pending, net>>
                                ELSE closeImpl(bev)
  BY DEF close
<1>2. /\ bev # 0 /\ bev \in Conns
      /\ owed' = IF asked[bev] = {} THEN [owed EXCEPT ![bev] = Len(sent[bev])] ELSE owed
      /\ UNCHANGED <<bev, isConnected, output, due, pc, wire, peer, total, sent>>
  BY DEF close, IInv, TypeOK
<1>3. asked' \in [Conns -> SUBSET BOOLEAN]
  BY <1>1, <1>2 DEF IInv, TypeOK
<1>4. owed' \in [Conns -> 0..MaxFrames]
  <2>1. Len(sent[bev]) \in Nat /\ Len(sent[bev]) <= total /\ total \in 0..MaxFrames
    BY <1>2 DEF IInv, TypeOK, Places
  <2>2. Len(sent[bev]) \in 0..MaxFrames
    BY <2>1, ConnsType
  <2> QED
    BY <1>2, <2>2 DEF IInv, TypeOK
<1>5. /\ {closing', enabled', pending'} \subseteq BOOLEAN
      /\ net' \in [Conns -> {"none", "connecting", "up", "down"}]
      /\ \A j \in Conns : net'[j] # net[j] => net'[j] = "down" /\ net[j] # "none"
  <2>1. CASE MustWait(waiting)
    BY <1>1, <2>1 DEF IInv, TypeOK
  <2>2. CASE ~MustWait(waiting)
    BY <1>1, <1>2, <2>2, ShutdownStep
  <2> QED
    BY <2>1, <2>2
<1>6. TypeOK'
  BY <1>2, <1>3, <1>4, <1>5 DEF IInv, TypeOK, peer
<1> QED
  BY <1>2, <1>5, <1>6, StillStep

-----------------------------------------------------------------------------
(* The client's loop                                                        *)

LEMMA ConnectedStep == ASSUME IInv, Connected PROVE IInv'
<1>1. TypeOK' /\ UNCHANGED <<bev, output, wire, peer, total, sent, net>>
  BY DEF IInv, TypeOK, Connected, peer, calls
<1> QED
  BY <1>1, StillStep

LEMMA FlushStep == ASSUME IInv, Flush PROVE IInv'
<1>1. PICK n \in 1..Len(output) :
        /\ wire' = [wire EXCEPT ![bev] = @ \o SubSeq(output, 1, n)]
        /\ output' = SubSeq(output, n + 1, Len(output))
        /\ due' = (due \/ n = Len(output))
  BY DEF Flush
<1>2. /\ bev # 0 /\ net[bev] = "up"
      /\ UNCHANGED <<bev, isConnected, closing, enabled, pending, pc, net, peer, calls>>
  BY DEF Flush
<1>3. /\ bev \in Conns /\ output \in Seq(Byte)
      /\ wire \in [Conns -> Seq(Byte)] /\ input \in [Conns -> Seq(Byte)]
  BY <1>2 DEF IInv, TypeOK
<1>4. /\ SubSeq(output, 1, n) \in Seq(Byte) /\ output' \in Seq(Byte)
      /\ SubSeq(output, 1, n) \o output' = output
  BY <1>1, <1>3, Cut
<1>5. /\ wire' \in [Conns -> Seq(Byte)] /\ wire'[bev] = wire[bev] \o SubSeq(output, 1, n)
      /\ \A j \in Conns : j # bev => wire'[j] = wire[j]
  <2>1. PICK w \in Seq(Byte) : w = wire[bev] \o SubSeq(output, 1, n)
    BY <1>3, <1>4, ByteConcats, Zenon
  <2>2. wire' = [wire EXCEPT ![bev] = w]
    BY <1>1, <2>1, Zenon
  <2> QED
    BY <1>3, <2>1, <2>2
<1>6. TypeOK'
  <2>1. due' \in BOOLEAN
    BY <1>1 DEF IInv, TypeOK
  <2> QED
    BY <1>2, <1>4, <1>5, <2>1 DEF IInv, TypeOK, peer, calls
<1>7. Places'
  BY <1>2, <1>3, <1>5 DEF IInv, Places, peer, calls
<1>8. ASSUME NEW j \in Conns PROVE Flow(j)'
  <2>1. Flow(j)
    BY DEF IInv, AllFlow
  <2>2. CASE j # bev
    BY <1>2, <1>5, <2>1, <2>2, FlowSame DEF peer, calls
  <2>3. CASE j = bev
    <3>1. PICK x \in Seq(Payloads) : /\ got[j] \in Seq(Payloads) /\ sent[j] = got[j] \o x
                                     /\ session[j] # "gone" => InFlight(j, x)
      BY <2>1 DEF Flow
    <3>2. wire'[j] \o output' = wire[j] \o output
      <4>1. wire[j] \in Seq(Byte) /\ SubSeq(output, 1, n) \in Seq(Byte) /\ output' \in Seq(Byte)
        BY <1>3, <1>4
      <4>2. (wire[j] \o SubSeq(output, 1, n)) \o output' = wire[j] \o (SubSeq(output, 1, n) \o output')
        <5>1. Three(wire[j], SubSeq(output, 1, n), output')
          BY ONLY <4>1, AssocThree, Zenon
        <5> QED
          BY <5>1, Zenon DEF Three
      <4> QED
        BY <1>4, <1>5, <2>3, <4>2, Zenon
    <3>3. ASSUME session[j] # "gone"
          PROVE  Stream(input[j] \o (wire'[j] \o output'), x)
      BY <2>3, <3>1, <3>2, <3>3, Zenon DEF InFlight
    <3>4. input'[j] = input[j] /\ sent'[j] = sent[j] /\ got'[j] = got[j] /\ session'[j] = session[j]
      BY <1>2 DEF peer, calls
    <3>5. session'[j] # "gone" => InFlight(j, x)'
      BY <1>4, <3>3, <3>4, Zenon DEF InFlight
    <3>6. \E y \in Seq(Payloads) : /\ got'[j] \in Seq(Payloads) /\ sent'[j] = got'[j] \o y
                                   /\ session'[j] # "gone" => InFlight(j, y)'
      BY <3>1, <3>4, <3>5, Zenon
    <3> QED
      BY <3>6, Zenon DEF Flow, InFlight
  <2> QED
    BY <2>2, <2>3
<1> QED
  BY <1>2, <1>6, <1>7, <1>8 DEF IInv, AllFlow, peer

LEMMA WriteStep == ASSUME IInv, WriteCallback PROVE IInv'
<1>1. due' = FALSE /\ checkClosing /\ UNCHANGED <<bev, isConnected, output, pc, wire, peer, calls>>
  BY DEF WriteCallback
<1>2. bev \in {0} \cup Conns
  BY DEF IInv, TypeOK
<1>3. CASE bev = 0 /\ closing /\ output = <<>>
  <2>1. net' = [net EXCEPT ![0] = "down"] /\ net \in [Conns -> {"none", "connecting", "up", "down"}]
    BY <1>1, <1>3 DEF checkClosing, closeImpl, Shutdown, IInv, TypeOK
  <2>2. net' = net
    BY <2>1, ConnsType
  <2>3. TypeOK'
    <3>1. {closing', enabled', pending'} \subseteq BOOLEAN
      BY <1>1, <1>3 DEF checkClosing, closeImpl, Shutdown, IInv, TypeOK
    <3> QED
      BY <1>1, <2>2, <3>1 DEF IInv, TypeOK, peer, calls
  <2> QED
    BY <1>1, <2>2, <2>3, StillStep DEF calls
<1>4. CASE bev # 0 /\ closing /\ output = <<>>
  <2>1. /\ {closing', enabled', pending'} \subseteq BOOLEAN
        /\ net' \in [Conns -> {"none", "connecting", "up", "down"}]
        /\ \A j \in Conns : net'[j] # net[j] => net'[j] = "down" /\ net[j] # "none"
    BY <1>1, <1>2, <1>4, ShutdownStep DEF checkClosing
  <2>2. TypeOK'
    BY <1>1, <2>1 DEF IInv, TypeOK, peer, calls
  <2> QED
    BY <1>1, <2>1, <2>2, StillStep DEF calls
<1>5. CASE ~(closing /\ output = <<>>)
  <2>1. UNCHANGED <<closing, enabled, net, pending>>
    BY <1>1, <1>5 DEF checkClosing
  <2>2. TypeOK'
    BY <1>1, <2>1 DEF IInv, TypeOK, peer, calls
  <2> QED
    BY <1>1, <2>1, <2>2, StillStep DEF calls
<1> QED
  BY <1>3, <1>4, <1>5

LEMMA EventStep == ASSUME IInv, HandleEvent PROVE IInv'
<1>1. TypeOK' /\ UNCHANGED <<bev, output, wire, peer, total, sent, net>>
  BY DEF IInv, TypeOK, HandleEvent, peer, calls
<1> QED
  BY <1>1, StillStep

LEMMA FreeStep == ASSUME IInv, HandleFree PROVE IInv'
<1>1. /\ bev' = 0 /\ output' = <<>> /\ pc' = "loop"
      /\ UNCHANGED <<isConnected, closing, enabled, pending, due, net, wire, peer, calls>>
  BY DEF HandleFree
<1>2. TypeOK' /\ Places'
  <2>1. <<>> \in Seq(Byte)
    OBVIOUS
  <2> QED
    BY <1>1, <2>1 DEF IInv, TypeOK, Places, peer, calls
<1>3. ASSUME NEW k \in Conns PROVE Flow(k)'
  <2>1. Flow(k) /\ k # 0
    BY ConnsType DEF IInv, AllFlow
  <2> QED
    BY <1>1, <2>1, FlowSame DEF peer, calls
<1> QED
  BY <1>1, <1>2, <1>3 DEF IInv, AllFlow, peer

-----------------------------------------------------------------------------
(* The network and the server                                               *)

LEMMA EstablishStep == ASSUME IInv, NEW k \in Conns, Establish(k) PROVE IInv'
<1>1. /\ net[k] = "connecting"
      /\ net' = [net EXCEPT ![k] = "up"] /\ session' = [session EXCEPT ![k] = "open"]
      /\ pending' = TRUE
      /\ UNCHANGED <<bev, isConnected, closing, output, enabled, due, pc, wire, input, got, lost,
                     calls>>
  BY DEF Establish
<1>2. TypeOK'
  BY <1>1 DEF IInv, TypeOK, calls
<1>3. /\ session[k] # "gone"
      /\ \A j \in Conns : j # k => session'[j] = session[j] /\ net'[j] = net[j]
      /\ session'[k] = "open" /\ net'[k] = "up"
  BY <1>1 DEF IInv, TypeOK, Places
<1>4. Places'
  BY <1>1, <1>3 DEF IInv, TypeOK, Places, calls
<1>5. ASSUME NEW j \in Conns PROVE Flow(j)'
  <2>1. Flow(j)
    BY DEF IInv, AllFlow
  <2> QED
    BY <1>1, <1>3, <2>1, FlowSame DEF calls
<1> QED
  BY <1>1, <1>2, <1>4, <1>5 DEF IInv, AllFlow

LEMMA RefuseStep == ASSUME IInv, NEW k \in Conns, Refuse(k) PROVE IInv'
<1>1. TypeOK' /\ UNCHANGED <<bev, output, wire, peer, total, sent>>
  BY DEF IInv, TypeOK, Refuse, socket, peer, calls
<1>2. \A j \in Conns : net'[j] # net[j] => net'[j] = "down" /\ net[j] # "none"
  BY DEF IInv, TypeOK, Refuse
<1> QED
  BY <1>1, <1>2, StillStep

LEMMA ServerClosesStep == ASSUME IInv, NEW k \in Conns, ServerCloses(k) PROVE IInv'
<1>1. /\ session[k] = "open" /\ session' = [session EXCEPT ![k] = "gone"]
      /\ net' = [net EXCEPT ![k] = "down"] /\ wire' = [wire EXCEPT ![k] = <<>>]
      /\ UNCHANGED <<socket, input, got, lost, calls>>
  BY DEF ServerCloses
<1>2. TypeOK'
  <2>1. <<>> \in Seq(Byte)
    OBVIOUS
  <2> QED
    BY <1>1, <2>1 DEF IInv, TypeOK, socket, calls
<1>3. /\ \A j \in Conns : j # k => /\ session'[j] = session[j] /\ net'[j] = net[j]
                                   /\ wire'[j] = wire[j]
      /\ session'[k] = "gone" /\ net'[k] = "down" /\ net[k] # "none"
  BY <1>1 DEF IInv, TypeOK, Places
<1>4. Places'
  BY <1>1, <1>3 DEF IInv, TypeOK, Places, socket, calls
<1>5. ASSUME NEW j \in Conns PROVE Flow(j)'
  <2>1. Flow(j)
    BY DEF IInv, AllFlow
  <2> QED
    BY <1>1, <1>3, <2>1, FlowSame DEF socket, calls
<1> QED
  BY <1>1, <1>2, <1>4, <1>5 DEF IInv, AllFlow

LEMMA ReceiveStep == ASSUME IInv, NEW k \in Conns, Receive(k) PROVE IInv'
<1>1. PICK n \in 1..Len(wire[k]) :
        /\ wire' = [wire EXCEPT ![k] = SubSeq(@, n + 1, Len(@))]
        /\ input' = [input EXCEPT ![k] = Taken[input[k] \o SubSeq(wire[k], 1, n)].rest]
        /\ got' = [got EXCEPT ![k] = @ \o Taken[input[k] \o SubSeq(wire[k], 1, n)].payloads]
        /\ lost' = (lost \/ Taken[input[k] \o SubSeq(wire[k], 1, n)].lost)
  BY DEF Receive
<1>2. session[k] = "open" /\ UNCHANGED <<socket, net, session, calls>>
  BY DEF Receive
<1>3. /\ wire \in [Conns -> Seq(Byte)] /\ input \in [Conns -> Seq(Byte)]
      /\ got \in [Conns -> Seq(Seq(Byte))] /\ sent \in [Conns -> Seq(Payloads)]
      /\ output \in Seq(Byte) /\ net[k] # "none"
  BY <1>2 DEF IInv, TypeOK, Places
<1>4. PICK f \in Seq(Byte), a \in Seq(Byte) :
        f = SubSeq(wire[k], 1, n) /\ a = SubSeq(wire[k], n + 1, Len(wire[k])) /\ f \o a = wire[k]
  <2>1. PICK w \in Seq(Byte) : w = wire[k]
    BY <1>3
  <2>2. n \in 0..Len(w)
    BY <2>1
  <2>3. /\ SubSeq(w, 1, n) \in Seq(Byte) /\ SubSeq(w, n + 1, Len(w)) \in Seq(Byte)
        /\ SubSeq(w, 1, n) \o SubSeq(w, n + 1, Len(w)) = w
    BY <2>2, Cut
  <2> QED
    BY <2>1, <2>3, Zenon
<1>5. PICK b \in Seq(Byte) : b = input[k] \o f
  <2>1. input[k] \in Seq(Byte)
    BY <1>3
  <2> QED
    BY <1>4, <2>1, ByteConcats
<1>6. Flow(k)
  BY DEF IInv, AllFlow
<1>7. PICK x \in Seq(Payloads), z \in Seq(Byte) :
        /\ got[k] \in Seq(Payloads) /\ sent[k] = got[k] \o x
        /\ bev = k => z = output
        /\ Stream(input[k] \o (wire[k] \o z), x)
  BY <1>2, <1>6, Zenon DEF Flow, InFlight
<1>8. a \o z \in Seq(Byte) /\ input[k] \o (wire[k] \o z) = b \o (a \o z)
  <2>1. input[k] \in Seq(Byte) /\ f \in Seq(Byte) /\ a \in Seq(Byte) /\ z \in Seq(Byte)
    BY <1>3
  <2>2. a \o z \in Seq(Byte) /\ input[k] \o ((f \o a) \o z) = (input[k] \o f) \o (a \o z)
    <3>1. Middle(input[k], f, a, z) /\ a \o z \in Seq(Byte)
      BY ONLY <2>1, AssocMiddle, Join, Zenon
    <3> QED
      BY <3>1, Zenon DEF Middle
  <2> QED
    BY <1>4, <1>5, <2>2, Zenon
<1>9. Stream(b \o (a \o z), x)
  BY <1>7, <1>8, Zenon
<1>10. /\ Taken[b].lost = FALSE /\ Taken[b].rest \in Seq(Byte)
       /\ \E t \in Seq(Payloads) : /\ Taken[b].payloads \in Seq(Payloads)
                                   /\ x = Taken[b].payloads \o t
                                   /\ Stream(Taken[b].rest \o (a \o z), t)
  BY <1>8, <1>9, TakenRight
<1>11. PICK y \in Seq(Payloads), t \in Seq(Payloads) :
         y = Taken[b].payloads /\ x = y \o t /\ Stream(Taken[b].rest \o (a \o z), t)
  BY <1>10, Zenon
<1>12. /\ wire' = [wire EXCEPT ![k] = a] /\ input' = [input EXCEPT ![k] = Taken[b].rest]
       /\ got' = [got EXCEPT ![k] = got[k] \o y] /\ lost' = lost
  <2>1. /\ wire' = [wire EXCEPT ![k] = a] /\ input' = [input EXCEPT ![k] = Taken[b].rest]
        /\ got' = [got EXCEPT ![k] = got[k] \o y]
    BY <1>1, <1>4, <1>5, <1>11, Zenon
  <2>2. lost' = (lost \/ Taken[b].lost)
    BY <1>1, <1>4, <1>5, Zenon
  <2>3. lost' = lost
    BY <1>10, <2>2, Zenon DEF IInv, TypeOK
  <2> QED
    BY <2>1, <2>3
<1>13. got[k] \o y \in Seq(Payloads) /\ got[k] \o y \in Seq(Seq(Byte))
       /\ (got[k] \o y) \o t = sent[k]
  <2>0. got[k] \in Seq(Payloads) /\ y \in Seq(Payloads) /\ t \in Seq(Payloads)
    BY <1>7
  <2>1. (got[k] \o y) \o t = got[k] \o (y \o t) /\ got[k] \o y \in Seq(Payloads)
    <3>1. Three(got[k], y, t) /\ got[k] \o y \in Seq(Payloads)
      BY ONLY <2>0, AssocThree, Join, Zenon
    <3> QED
      BY <3>1, Zenon DEF Three
  <2>2. Payloads \subseteq Seq(Byte)
    BY ClientAssumption
  <2>3. Seq(Payloads) \subseteq Seq(Seq(Byte))
    BY <2>2
  <2> QED
    BY <1>7, <1>11, <2>1, <2>3, Zenon
<1>14. /\ wire'[k] = a /\ input'[k] = Taken[b].rest /\ got'[k] = got[k] \o y
       /\ \A j \in Conns : j # k => wire'[j] = wire[j] /\ input'[j] = input[j] /\ got'[j] = got[j]
  BY <1>3, <1>12
<1>15. TypeOK'
  <2>1. /\ wire' \in [Conns -> Seq(Byte)] /\ input' \in [Conns -> Seq(Byte)]
        /\ got' \in [Conns -> Seq(Seq(Byte))]
    BY <1>3, <1>10, <1>12, <1>13
  <2> QED
    BY <1>2, <1>12, <2>1 DEF IInv, TypeOK, socket, calls
<1>16. Places'
  BY <1>2, <1>3, <1>14 DEF IInv, Places, socket, calls
<1>17. ASSUME NEW j \in Conns PROVE Flow(j)'
  <2>1. CASE j # k
    <3>1. Flow(j)
      BY DEF IInv, AllFlow
    <3> QED
      BY <1>2, <1>14, <2>1, <3>1, FlowSame DEF socket, calls
  <2>2. CASE j = k
    <3>1. bev' = k => z = output'
      BY <1>2, <1>7 DEF socket
    <3>2. Stream(input'[k] \o (wire'[k] \o z), t)
      BY <1>11, <1>14, Zenon
    <3>3. got'[k] \in Seq(Payloads) /\ sent'[k] = got'[k] \o t
      BY <1>2, <1>13, <1>14 DEF calls
    <3> QED
      BY <1>7, <2>2, <3>1, <3>2, <3>3, Zenon DEF Flow, InFlight
  <2> QED
    BY <2>1, <2>2
<1> QED
  BY <1>12, <1>15, <1>16, <1>17 DEF IInv, AllFlow

-----------------------------------------------------------------------------
(* The theorems                                                             *)

LEMMA NextInv == ASSUME IInv, [Next]_vars PROVE IInv'
<1>1. CASE Tick
  BY <1>1, ConnectStep, SendStep, CloseStep DEF Tick
<1>2. CASE LoopStep
  BY <1>2, ConnectedStep, FlushStep, WriteStep, EventStep, FreeStep DEF LoopStep
<1>3. ASSUME NEW k \in Conns, Establish(k) \/ Refuse(k) \/ ServerCloses(k) \/ Receive(k)
      PROVE  IInv'
  BY <1>3, EstablishStep, RefuseStep, ServerClosesStep, ReceiveStep
<1>4. CASE UNCHANGED vars
  <2>1. TypeOK' /\ UNCHANGED <<bev, output, wire, peer, total, sent, net>>
    BY <1>4 DEF IInv, TypeOK, vars, socket, peer, calls
  <2> QED
    BY <2>1, StillStep
<1> QED
  BY <1>1, <1>2, <1>3, <1>4 DEF Next

\* Along every behaviour, what the server has not been given yet is on its way, in order.
THEOREM Invariance == Spec => []IInv
<1>1. IInv /\ [Next]_vars => IInv'
  BY NextInv
<1> QED
  BY <1>1, InitInv, PTL DEF Spec

\* Numbers, sequences and histories stay in their ranges: what is owed when close() is
\* called is no more than what was sent over all connections, and what is left of the
\* input and handed on are bytes, whatever arrives.
THEOREM TypeCorrect == Spec => []TypeOK
<1>1. IInv => TypeOK
  BY DEF IInv
<1> QED
  BY <1>1, Invariance, PTL

\* Cut into any pieces, over any number of connections, with closes and failures at any
\* moment: the server's onRead is given payloads of sendWithTPKT, whole and in order, and
\* is never out of step.
THEOREM FramesWhole == Spec => []FramesIntact
<1>1. ASSUME IInv PROVE FramesIntact
  <2>1. ASSUME NEW k \in Conns PROVE IsPrefix(got[k], sent[k])
    <3>1. PICK x \in Seq(Payloads) : got[k] \in Seq(Payloads) /\ sent[k] = got[k] \o x
      BY <1>1 DEF IInv, AllFlow, Flow
    <3>2. Len(got[k]) <= Len(got[k] \o x) /\ got[k] = SubSeq(got[k] \o x, 1, Len(got[k]))
      <4>1. ASSUME NEW g \in Seq(Payloads)
            PROVE  Len(g) <= Len(g \o x) /\ g = SubSeq(g \o x, 1, Len(g))
        OBVIOUS
      <4> QED
        BY <3>1, <4>1
    <3> QED
      BY <3>1, <3>2, Zenon DEF IsPrefix
  <2> QED
    BY <1>1, <2>1 DEF IInv, FramesIntact
<1> QED
  BY <1>1, Invariance, PTL
=============================================================================
