---------------------------- MODULE EventFdProofs ----------------------------
(***************************************************************************)
(* Proofs about EventFd, for any finite set of signals, any servers and    *)
(* any limit of the counter.                                               *)
(***************************************************************************)
EXTENDS EventFd, FiniteSetTheorems, TLAPS

USE SignalAssumption DEF SignalAssumption

InHand == UNION {held[r] : r \in Servers}

\* An accepted signal is in one place: the counter, the hand of one callback, or the count.
Placed ==
  /\ \A s \in counter \cup InHand \cup count : result[s] = "true"
  /\ counter \cap InHand = {} /\ count \cap (counter \cup InHand) = {}
  /\ \A q, r \in Servers : q # r => held[q] \cap held[r] = {}
  /\ \A r \in Servers : at[r] # "count" => held[r] = {}

IInv == TypeOK /\ Placed

LEMMA InvInit == Init => IInv
<1> SUFFICES ASSUME Init PROVE IInv
  OBVIOUS
<1>1. TypeOK
  BY FS_EmptySet DEF Init, TypeOK
<1>2. Placed
  BY DEF Init, Placed, InHand
<1> QED
  BY <1>1, <1>2 DEF IInv

-----------------------------------------------------------------------------
LEMMA TypeStep == TypeOK /\ [Next]_vars => TypeOK'
<1> SUFFICES ASSUME TypeOK, [Next]_vars PROVE TypeOK'
  OBVIOUS
<1>0. Cardinality({}) = 0 /\ Cardinality({}) <= Max
  BY FS_EmptySet
<1> USE DEF TypeOK, Returns
<1>1. ASSUME NEW s \in Signals, Send(s) PROVE TypeOK'
  <2>1. CASE open /\ Cardinality(counter) < Max
    <3>1. counter' = counter \cup {s}
      BY <1>1, <2>1 DEF Send
    <3>2. IsFiniteSet(counter) /\ Cardinality(counter) \in Nat
      BY FS_Subset, FS_CardinalityType
    <3>3. Cardinality(counter \cup {s}) \in {Cardinality(counter), Cardinality(counter) + 1}
      BY <3>2, FS_AddElement
    <3>4. Cardinality(counter') <= Max
      BY <2>1, <3>1, <3>2, <3>3
    <3> QED
      BY <1>1, <3>1, <3>4 DEF Send
  <2>2. CASE ~(open /\ Cardinality(counter) < Max)
    BY <1>1, <2>2 DEF Send
  <2> QED
    BY <2>1, <2>2
<1>2. ASSUME NEW r \in Servers, Construct(r) \/ Destroy(r) \/ Dispatch(r) \/ Count(r)
      PROVE  TypeOK'
  BY <1>2 DEF Construct, Destroy, Dispatch, Count
<1>3. ASSUME NEW r \in Servers, Read(r) PROVE TypeOK'
  BY <1>3, <1>0 DEF Read
<1>4. CASE Close
  BY <1>4 DEF Close
<1>5. CASE UNCHANGED vars
  BY <1>5 DEF vars
<1> QED
  BY <1>1, <1>2, <1>3, <1>4, <1>5 DEF Next, Serve

LEMMA PlacedStep == IInv /\ [Next]_vars => Placed'
<1> SUFFICES ASSUME IInv, [Next]_vars PROVE Placed'
  OBVIOUS
<1> USE DEF IInv, TypeOK, Placed, InHand, Returns
<1>1. ASSUME NEW s \in Signals, Send(s) PROVE Placed'
  BY <1>1 DEF Send
<1>2. ASSUME NEW r \in Servers, Read(r) PROVE Placed'
  <2>1. CASE open /\ counter # {}
    <3>1. held' = [held EXCEPT ![r] = counter] /\ counter' = {} /\ at' = [at EXCEPT ![r] = "count"]
      BY <1>2, <2>1 DEF Read
    <3>2. InHand' = InHand \cup counter
      BY <1>2, <3>1 DEF Read
    <3> QED
      BY <1>2, <3>1, <3>2 DEF Read
  <2>2. CASE ~(open /\ counter # {})
    BY <1>2, <2>2 DEF Read
  <2> QED
    BY <2>1, <2>2
<1>3. ASSUME NEW r \in Servers, Count(r) PROVE Placed'
  <2>1. InHand' = InHand \ held[r] /\ held[r] \subseteq InHand
    BY <1>3 DEF Count
  <2> QED
    BY <1>3, <2>1 DEF Count
<1>4. ASSUME NEW r \in Servers, Construct(r) \/ Destroy(r) \/ Dispatch(r) PROVE Placed'
  BY <1>4 DEF Construct, Destroy, Dispatch
<1>5. CASE Close \/ UNCHANGED vars
  BY <1>5 DEF Close, vars
<1> QED
  BY <1>1, <1>2, <1>3, <1>4, <1>5 DEF Next, Serve

LEMMA InvStep == IInv /\ [Next]_vars => IInv'
BY TypeStep, PlacedStep DEF IInv

-----------------------------------------------------------------------------
LEMMA PromiseStep == IInv /\ [Next]_vars => [Promise!Next]_(Promise!vars)
<1> SUFFICES ASSUME IInv, [Next]_vars PROVE [Promise!Next]_(Promise!vars)
  OBVIOUS
<1> USE DEF IInv, TypeOK, Placed, InHand, Returns
<1>1. ASSUME NEW s \in Signals, Send(s) PROVE Promise!Raise(s) \/ UNCHANGED Promise!vars
  <2>1. CASE open /\ Cardinality(counter) < Max
    BY <1>1, <2>1 DEF Send, Promise!Raise
  <2>2. CASE ~(open /\ Cardinality(counter) < Max)
    BY <1>1, <2>2 DEF Send, Promise!vars
  <2> QED
    BY <2>1, <2>2
<1>2. ASSUME NEW r \in Servers, Read(r) PROVE UNCHANGED Promise!vars
  <2>1. CASE open /\ counter # {}
    <3>1. held' = [held EXCEPT ![r] = counter] /\ counter' = {} /\ count' = count
      BY <1>2, <2>1 DEF Read
    <3>2. held[r] = {}
      BY <1>2 DEF Read
    <3>3. (counter \cup InHand)' = counter \cup InHand
      BY <3>1, <3>2
    <3> QED
      BY <3>1, <3>3 DEF Promise!vars
  <2>2. CASE ~(open /\ counter # {})
    BY <1>2, <2>2 DEF Read, Promise!vars
  <2> QED
    BY <2>1, <2>2
<1>3. ASSUME NEW r \in Servers, Count(r) PROVE Promise!See(held[r])
  <2>1. InHand' = InHand \ held[r] /\ held[r] \subseteq InHand
    BY <1>3 DEF Count
  <2> QED
    BY <1>3, <2>1 DEF Count, Promise!See
<1>4. ASSUME NEW r \in Servers, Construct(r) \/ Destroy(r) \/ Dispatch(r)
      PROVE  UNCHANGED Promise!vars
  BY <1>4 DEF Construct, Destroy, Dispatch, Promise!vars
<1>5. CASE Close \/ UNCHANGED vars
  BY <1>5 DEF Close, vars, Promise!vars
<1>6. ASSUME NEW s \in Signals, Promise!Raise(s) PROVE Promise!Next
  BY <1>6 DEF Promise!Next
<1>7. ASSUME NEW r \in Servers, Promise!See(held[r]) PROVE Promise!Next
  <2>1. held[r] \in SUBSET Signals
    OBVIOUS
  <2> QED
    BY <1>7, <2>1 DEF Promise!Next, Promise!See
<1>8. CASE \E s \in Signals : Send(s)
  BY <1>1, <1>6, <1>8
<1>9. CASE \E r \in Servers : Construct(r) \/ Destroy(r) \/ Serve(r)
  BY <1>2, <1>3, <1>4, <1>7, <1>9, Zenon DEF Serve
<1> QED
  BY <1>5, <1>8, <1>9, Zenon DEF Next

-----------------------------------------------------------------------------
\* The fields of client and servers keep their types, and the kernel's counter its limit
\* (eventClient.h:49-58), for any number of calls and servers.
THEOREM TypeCorrect == Spec => []TypeOK
<1>1. IInv => TypeOK
  BY DEF IInv
<1> QED
  BY <1>1, InvInit, InvStep, PTL DEF Spec

\* Every signal that send() accepted is counted at most once and never before it was
\* made, whatever loops race for it (eventServer.h:48, eventFdExample.cpp:32-43).
THEOREM RefinesPromise == Spec => KeepsSignals
<1>1. Init => Promise!Init
  BY DEF Init, Promise!Init
<1> QED
  BY <1>1, InvInit, InvStep, PromiseStep, PTL DEF Spec, KeepsSignals, Promise!Spec
=============================================================================
