--------------------------- MODULE TcpSocketProofs ---------------------------
(***************************************************************************)
(* Proofs about TcpSocket, for any set of application threads and any      *)
(* number of chunks sent.                                                  *)
(***************************************************************************)
EXTENDS TcpSocket, TLAPS

USE SocketAssumption DEF SocketAssumption

\* A chunk accepted is in the output buffer or was written.
Flow == written + output = accepted /\ owed <= accepted

ClosePC == {"set", "length", "clear", "impl", "disable", "shutdown"}

\* The places from which the connection is shut down without another look.
CommitPC == {"clear", "impl", "disable", "shutdown"}
Cut == FALSE \in asked
Flushed == Cut \/ written >= owed

\* Nothing is closed before the first close(), and what was owed then is written
\* when a thread commits itself to a shutdown.
Owing ==
  /\ asked = {} => ~closing /\ ~shut
  /\ \A a \in Callers : pc[a] \in ClosePC => asked # {}
  /\ \A a \in Callers : pc[a] \in CommitPC => Flushed
  /\ shut => Flushed

IInv == TypeOK /\ Flow /\ Owing

LEMMA InvInit == Init => IInv
<1> SUFFICES ASSUME Init PROVE IInv
  OBVIOUS
<1>1. 0 \in 0..MaxSends /\ asked \subseteq BOOLEAN
  BY DEF Init
<1>2. closing \in BOOLEAN /\ enabled \in BOOLEAN /\ shut \in BOOLEAN /\ gone \in BOOLEAN
  BY Zenon DEF Init
<1>3. TypeOK
  BY <1>1, <1>2 DEF Init, TypeOK
<1>4. \A a \in Callers : pc[a] = "idle"
  BY DEF Init
<1>5. Flow /\ Owing
  BY <1>4 DEF Init, Flow, Owing, ClosePC, CommitPC
<1> QED
  BY <1>3, <1>5 DEF IInv

-----------------------------------------------------------------------------
LEMMA TypeStep == TypeOK /\ Flow /\ [Next]_vars => TypeOK'
<1> SUFFICES ASSUME TypeOK, Flow, [Next]_vars PROVE TypeOK'
  OBVIOUS
<1> USE DEF TypeOK, Callers, Goto, history
<1>1. ASSUME NEW a \in Callers, SendTest(a) PROVE TypeOK'
  BY <1>1 DEF SendTest
<1>2. ASSUME NEW a \in Callers, SendWrite(a) PROVE TypeOK'
  BY <1>2 DEF SendWrite, Flow
<1>3. ASSUME NEW a \in Callers, CloseTest(a) PROVE TypeOK'
  BY <1>3 DEF CloseTest
<1>4. ASSUME NEW a \in Callers, CloseSet(a) \/ CloseImpl(a) \/ CloseDisable(a) \/ CloseShutdown(a)
      PROVE  TypeOK'
  BY <1>4 DEF CloseSet, CloseImpl, CloseDisable, CloseShutdown
<1>5. CASE Flush
  BY <1>5 DEF Flush, Flow
<1>6. CASE WriteCallback \/ CheckLength \/ CheckClear \/ HandleEvent
  BY <1>6 DEF WriteCallback, CheckLength, CheckClear, HandleEvent
<1>7. CASE UNCHANGED vars
  BY <1>7 DEF vars
<1> QED
  BY <1>1, <1>2, <1>3, <1>4, <1>5, <1>6, <1>7 DEF Next, Goes, LoopStep, Check

LEMMA FlowStep == IInv /\ [Next]_vars => Flow'
<1> SUFFICES ASSUME IInv, [Next]_vars PROVE Flow'
  OBVIOUS
<1> USE DEF IInv, TypeOK, Flow, history
<1>1. ASSUME NEW a \in Callers, SendWrite(a) PROVE Flow'
  BY <1>1 DEF SendWrite
<1>2. ASSUME NEW a \in Callers, CloseTest(a) PROVE Flow'
  BY <1>2 DEF CloseTest
<1>3. CASE Flush
  BY <1>3 DEF Flush
<1>4. CASE UNCHANGED <<accepted, written, owed, output>>
  BY <1>4
<1> QED
  BY <1>1, <1>2, <1>3, <1>4 DEF Next, Goes, LoopStep, Check, vars, SendTest, CloseSet,
     CloseImpl, CloseDisable, CloseShutdown, WriteCallback, CheckLength, CheckClear, HandleEvent

LEMMA OwingStep == IInv /\ [Next]_vars => Owing'
<1> SUFFICES ASSUME IInv, [Next]_vars PROVE Owing'
  OBVIOUS
<1> USE DEF IInv, history, Owing, Flushed, ClosePC, CommitPC, Goto
<1>0. /\ Loop \in Callers
      /\ pc \in [Callers -> {"idle", "write", "set", "length", "clear", "impl",
                              "disable", "shutdown"}]
      /\ written \in Nat /\ owed \in Nat /\ accepted \in Nat /\ output \in Nat
  BY DEF Callers, TypeOK
<1>a. asked' = asked => Cut' = Cut
  BY DEF Cut
<1> USE <1>0, <1>a
<1>1. ASSUME NEW a \in Callers, SendTest(a) \/ SendWrite(a) PROVE Owing'
  BY <1>1 DEF SendTest, SendWrite
<1>2. ASSUME NEW a \in Callers, CloseTest(a) PROVE Owing'
  <2>1. asked' # {} /\ UNCHANGED <<closing, shut, written>>
    BY <1>2 DEF CloseTest
  <2>2. \A b \in Callers : b # a => pc'[b] = pc[b]
    BY <1>2 DEF CloseTest
  <2>3. pc'[a] \in CommitPC => Cut' \/ output = 0
    <3>1. PICK waiting \in BOOLEAN : /\ asked' = asked \cup {waiting}
                                     /\ Goto(a, IF waiting /\ output > 0 THEN "set" ELSE "impl")
      BY <1>2 DEF CloseTest
    <3>2. CASE waiting = TRUE
      BY <3>1, <3>2
    <3>3. CASE waiting = FALSE
      BY <3>1, <3>3 DEF Cut
    <3> QED
      BY <3>2, <3>3
  <2>4. owed' <= accepted
    BY <1>2 DEF CloseTest, Flow
  <2>5. pc'[a] \in CommitPC => Flushed'
    BY <2>1, <2>3, <2>4, <1>2 DEF Flow, CloseTest
  \* After the first close() nothing is owed anew; before it nobody is closing.
  <2>6. CASE asked # {}
    <3>1. owed' = owed /\ (Cut => Cut')
      BY <1>2, <2>6 DEF CloseTest, Cut
    <3> QED
      BY <2>1, <2>2, <2>5, <3>1
  <2>7. CASE asked = {}
    <3>1. \A b \in Callers : b # a => pc'[b] \notin CommitPC
      BY <2>2, <2>7
    <3> QED
      BY <2>1, <2>5, <2>7, <3>1
  <2> QED
    BY <2>6, <2>7
<1>3. ASSUME NEW a \in Callers, CloseSet(a) PROVE Owing'
  BY <1>3 DEF CloseSet
<1>4. ASSUME NEW a \in Callers, CloseImpl(a) \/ CloseDisable(a) PROVE Owing'
  BY <1>4 DEF CloseImpl, CloseDisable
<1>5. ASSUME NEW a \in Callers, CloseShutdown(a) PROVE Owing'
  BY <1>5 DEF CloseShutdown
<1>6. CASE Flush
  <2>1. UNCHANGED <<closing, shut, asked, owed, pc>> /\ written' >= written /\ written' \in Nat
    BY <1>6 DEF Flush
  <2> QED
    BY <2>1
<1>7. CASE WriteCallback
  BY <1>7 DEF WriteCallback
<1>8. CASE CheckLength
  BY <1>8 DEF CheckLength, Flow
<1>9. CASE CheckClear
  BY <1>9 DEF CheckClear
<1>10. CASE HandleEvent \/ UNCHANGED vars
  BY <1>10 DEF HandleEvent, vars
<1> QED
  BY <1>1, <1>2, <1>3, <1>4, <1>5, <1>6, <1>7, <1>8, <1>9, <1>10 DEF Next, Goes, LoopStep, Check

LEMMA InvStep == IInv /\ [Next]_vars => IInv'
BY TypeStep, FlowStep, OwingStep DEF IInv

-----------------------------------------------------------------------------
\* Every variable of a TcpSocket stays in its type (tcpSocket.h:80-83), whatever the
\* threads call.
THEOREM TypeCorrect == Spec => []TypeOK
<1>1. IInv => TypeOK
  BY DEF IInv
<1> QED
  BY <1>1, InvInit, InvStep, PTL DEF Spec

\* close(true), from any thread and however often, cuts off nothing that send() had
\* accepted before it (tcpSocket.cpp:73-87, tcpSocket.cpp:112-119).
THEOREM CloseFlushes == Spec => []WaitingCloseFlushes
<1>1. IInv => WaitingCloseFlushes
  BY DEF IInv, Owing, Flushed, Cut, WaitingCloseFlushes
<1> QED
  BY <1>1, InvInit, InvStep, PTL DEF Spec
=============================================================================
