------------------------ MODULE TcpDescriptorProofs ------------------------
(***************************************************************************)
(* No descriptor is lost: DescriptorKept for any number of slavers,        *)
(* connections and application threads.  IInv (TcpServerProofs) says what  *)
(* is true of what a queue or a map holds; Kept says the converse, that    *)
(* every open descriptor is held by one of them.                           *)
(***************************************************************************)
EXTENDS TcpServerProofs

USE TcpAssumption DEF TcpAssumption

InQueue(c) == \E k \in DOMAIN actions[Home(c)] : actions[Home(c)][k].sock = c
Waits(c) == InQueue(c) \/ \E s \in Servers : Accepting(s, c)
Placed(c) == c \in sessions[Home(c)] \/ c \in dropped

KeptOne(c) == /\ bev[c] \in {"none", "on", "failed"}
              /\ bev[c] = "none" => Waits(c)
              /\ bev[c] = "on" => Placed(c)
Kept == \A c \in open : KeptOne(c)

-----------------------------------------------------------------------------
LEMMA HomeIsDisp ==
  ASSUME TypeOK, NEW c \in Conns
  PROVE  Home(c) \in Disps
<1>1. id[c] \in Nat /\ ServerOf[c] \in Servers
  BY DEF TypeOK
<1>2. Slavers # 0 => 1 + (id[c] % Slavers) \in 0..Slavers
  <2>1. ASSUME NEW i \in Nat, NEW n \in Nat, n # 0 PROVE i % n \in 0..(n - 1)
    BY <2>1
  <2> QED
    BY <1>1, <2>1
<1> QED
  BY <1>1, <1>2 DEF Home, GetSessionDispatcher, Disps, Master

\* What is in a queue stays in it when one more action is pushed onto a queue,
LEMMA PushedKeeps ==
  ASSUME TypeOK, NEW d \in Disps, NEW n \in Nat, NEW c \in Conns \cup {None}, NEW e \in Disps
  PROVE  /\ \A k \in DOMAIN actions[e] : /\ k \in DOMAIN Pushed(d, n, c)[e]
                                         /\ Pushed(d, n, c)[e][k] = actions[e][k]
         /\ \E k \in DOMAIN Pushed(d, n, c)[d] : Pushed(d, n, c)[d][k].sock = c
<1> DEFINE a == [id |-> n, sock |-> c]
<1>1. actions[e] \in Seq(Action) /\ actions[d] \in Seq(Action) /\ a \in Action
  BY DEF TypeOK, Action
<1>2. /\ Pushed(d, n, c)[e] = IF e = d THEN Append(actions[e], a) ELSE actions[e]
      /\ Pushed(d, n, c)[d] = Append(actions[d], a)
  BY DEF Pushed, TypeOK
<1>3. a.sock = c
  OBVIOUS
<1> HIDE DEF a
<1>4. \A k \in DOMAIN actions[e] : k \in DOMAIN Append(actions[e], a)
                                     /\ Append(actions[e], a)[k] = actions[e][k]
  BY <1>1, AppendProperties
<1>5. /\ Len(actions[d]) + 1 \in DOMAIN Append(actions[d], a)
      /\ Append(actions[d], a)[Len(actions[d]) + 1] = a
  BY <1>1, AppendProperties
<1> QED
  BY <1>2, <1>3, <1>4, <1>5

\* and all but the oldest when that one is taken.
LEMMA PoppedKeeps ==
  ASSUME TypeOK, NEW d \in Disps, actions[d] # <<>>, NEW k \in DOMAIN actions[d], k # 1
  PROVE  k - 1 \in DOMAIN Tail(actions[d]) /\ Tail(actions[d])[k - 1] = actions[d][k]
<1>1. actions[d] \in Seq(Action)
  BY DEF TypeOK
<1>2. /\ Len(actions[d]) \in Nat /\ DOMAIN actions[d] = 1..Len(actions[d])
      /\ Len(Tail(actions[d])) = Len(actions[d]) - 1 /\ Tail(actions[d]) \in Seq(Action)
      /\ \A i \in 1..Len(Tail(actions[d])) : Tail(actions[d])[i] = actions[d][i + 1]
  BY <1>1, HeadTailProperties
<1>3. DOMAIN Tail(actions[d]) = 1..Len(Tail(actions[d])) /\ k - 1 \in 1..Len(Tail(actions[d]))
  BY <1>2
<1> QED
  BY <1>2, <1>3

\* A connection no step of the accept callback or of its dispatcher's frame is about
\* keeps its place.
LEMMA KeptStays ==
  ASSUME NEW c, KeptOne(c), id'[c] = id[c], bev'[c] = bev[c],
         \A s \in Servers : Accepting(s, c) => Accepting(s, c)' \/ InQueue(c)',
         InQueue(c) => InQueue(c)',
         c \in sessions[Home(c)] => Placed(c)',
         dropped \subseteq dropped'
  PROVE  KeptOne(c)'
BY DEF KeptOne, Waits, Placed

-----------------------------------------------------------------------------
LEMMA KeptAccept ==
  ASSUME IInv, Kept, NEW s \in Servers, Accept(s)
  PROVE  Kept'
<1> USE MasterIsDisp
<1>1. PICK c \in Conns : /\ number[c] = None /\ open' = open \cup {c}
                         /\ \E n \in Numbers : number' = [number EXCEPT ![c] = n]
                         /\ work' = [work EXCEPT ![Master(s)] = [conn |-> c, gen |-> gen]]
  BY DEF Accept
<1>2. /\ pc[Master(s)] = "poll" /\ pc' = [pc EXCEPT ![Master(s)] = "number"]
      /\ UNCHANGED <<id, actions, sessions, bev, dropped>>
  BY DEF Accept, Goto
<1>3. \A t \in Servers : t # s => /\ pc'[Master(t)] = pc[Master(t)]
                                 /\ work'[Master(t)] = work[Master(t)]
  BY <1>1, <1>2 DEF Master, IInv, TInv, TypeOK
<1>4. KeptOne(c)'
  <2>1. bev'[c] = "none"
    BY <1>1, <1>2 DEF IInv, Numbered
  <2>2. Accepting(s, c)'
    BY <1>1, <1>2 DEF Accepting, IInv, TInv, TypeOK
  <2> QED
    BY <2>1, <2>2 DEF KeptOne, Waits
<1>5. ASSUME NEW e \in open PROVE KeptOne(e)'
  <2>1. \A t \in Servers : Accepting(t, e) => Accepting(t, e)'
    BY <1>2, <1>3 DEF Accepting
  <2>2. (InQueue(e) => InQueue(e)') /\ (e \in sessions[Home(e)] => Placed(e)')
    BY <1>2 DEF InQueue, Home, Placed
  <2> QED
    BY <1>2, <2>1, <2>2, KeptStays DEF Kept
<1> QED
  BY <1>1, <1>4, <1>5 DEF Kept

LEMMA KeptAcceptNumber ==
  ASSUME IInv, Kept, NEW s \in Servers, AcceptNumber(s)
  PROVE  Kept'
<1> USE MasterIsDisp
<1>0. PICK c \in Conns : c = work[Master(s)].conn
  BY DEF AcceptNumber, IInv, TInv, Busy
<1>1. /\ pc[Master(s)] = "number" /\ pc' = [pc EXCEPT ![Master(s)] = "push"]
      /\ id' = [id EXCEPT ![c] = work[Master(s)].gen + 1]
      /\ UNCHANGED <<open, actions, sessions, bev, dropped, work>>
  BY <1>0 DEF AcceptNumber, Goto, kernel
<1>2. bev[c] = "none"
  BY <1>0, <1>1 DEF IInv, Numbered, TInv, Busy
<1>3. \A t \in Servers : \A e \in Conns : Accepting(t, e) => Accepting(t, e)'
  BY <1>1 DEF Accepting, IInv, TInv, TypeOK
<1>4. KeptOne(c)'
  <2>1. Accepting(s, c)
    BY <1>0, <1>1 DEF Accepting
  <2>2. Accepting(s, c)'
    BY <1>2, <1>3, <2>1
  <2> QED
    BY <1>1, <1>2, <2>2 DEF KeptOne, Waits
<1>5. ASSUME NEW e \in open, e # c PROVE KeptOne(e)'
  <2>1. e \in Conns /\ id'[e] = id[e]
    BY <1>1, <1>2, <1>5 DEF IInv, TInv, TypeOK
  <2>2. (InQueue(e) => InQueue(e)') /\ (e \in sessions[Home(e)] => Placed(e)')
    BY <1>1, <2>1 DEF InQueue, Home, Placed
  <2> QED
    BY <1>1, <1>3, <2>1, <2>2, KeptStays DEF Kept
<1> QED
  BY <1>1, <1>4, <1>5 DEF Kept

LEMMA KeptAcceptPush ==
  ASSUME IInv, Kept, NEW s \in Servers, AcceptPush(s)
  PROVE  Kept'
<1> USE MasterIsDisp
<1>0. PICK c \in Conns : c = work[Master(s)].conn
  BY DEF AcceptPush, IInv, TInv, Busy
<1>1. /\ pc[Master(s)] = "push" /\ pc' = [pc EXCEPT ![Master(s)] = "poll"]
      /\ actions' = Pushed(Home(c), id[c], c)
      /\ UNCHANGED <<open, id, sessions, bev, dropped, work>>
  BY <1>0 DEF AcceptPush, Goto, kernel
<1>2. TypeOK /\ id[c] \in Nat
  BY <1>1 DEF IInv, TInv, Busy, TypeOK
<1>3. \A e \in Conns : Home(e) \in Disps /\ Home(e)' = Home(e)
  BY <1>1, <1>2, HomeIsDisp DEF Home
<1> SUFFICES ASSUME NEW e \in open PROVE KeptOne(e)'
  BY <1>1 DEF Kept
<1>4. e \in Conns /\ KeptOne(e)
  BY DEF Kept, IInv, TInv, TypeOK
<1>5. InQueue(e) => InQueue(e)'
  <2> SUFFICES ASSUME NEW k \in DOMAIN actions[Home(e)], actions[Home(e)][k].sock = e
               PROVE  InQueue(e)'
    BY DEF InQueue
  <2>1. k \in DOMAIN actions'[Home(e)] /\ actions'[Home(e)][k] = actions[Home(e)][k]
    BY <1>1, <1>2, <1>3, <1>4, PushedKeeps
  <2> QED
    BY <1>3, <1>4, <2>1 DEF InQueue
<1>6. \A t \in Servers : Accepting(t, e) => Accepting(t, e)' \/ InQueue(e)'
  <2> SUFFICES ASSUME NEW t \in Servers, Accepting(t, e), ~Accepting(t, e)' PROVE InQueue(e)'
    OBVIOUS
  <2>1. e = c
    BY <1>0, <1>1, <1>2 DEF Accepting, TypeOK
  <2>2. \E k \in DOMAIN actions'[Home(e)] : actions'[Home(e)][k].sock = e
    BY <1>1, <1>2, <1>3, <2>1, PushedKeeps
  <2> QED
    BY <1>3, <1>4, <2>2 DEF InQueue
<1>7. e \in sessions[Home(e)] => Placed(e)'
  BY <1>1, <1>3, <1>4 DEF Placed
<1> QED
  BY <1>1, <1>4, <1>5, <1>6, <1>7, KeptStays

\* The steps that move no connection.
LEMMA KeptQuiet ==
  ASSUME IInv, Kept, UNCHANGED <<open, id, actions, sessions, bev, dropped, work>>,
         \A s \in Servers : pc[Master(s)] \in {"number", "push"} => pc'[Master(s)] = pc[Master(s)]
  PROVE  Kept'
<1> SUFFICES ASSUME NEW e \in open PROVE KeptOne(e)'
  BY DEF Kept
<1>1. KeptOne(e)
  BY DEF Kept
<1>2. \A s \in Servers : Accepting(s, e) => Accepting(s, e)'
  BY DEF Accepting
<1>3. (InQueue(e) => InQueue(e)') /\ (e \in sessions[Home(e)] => Placed(e)')
  BY DEF InQueue, Home, Placed
<1> QED
  BY <1>1, <1>2, <1>3, KeptStays

-----------------------------------------------------------------------------
\* A frame takes the oldest action of d: the connections queued there but not named
\* by it stay queued.
LEMMA PoppedWaits ==
  ASSUME IInv, NEW d \in Disps, actions[d] # <<>>, UNCHANGED <<id, pc, work>>,
         \A e \in Disps : e # d => actions'[e] = actions[e],
         \/ actions'[d] = Tail(actions[d])
         \/ \E a \in Action : actions'[d] = Append(Tail(actions[d]), a),
         NEW c \in Conns, c # Head(actions[d]).sock
  PROVE  /\ InQueue(c) => InQueue(c)'
         /\ \A s \in Servers : Accepting(s, c) => Accepting(s, c)'
<1>1. \A s \in Servers : Accepting(s, c) => Accepting(s, c)'
  BY DEF Accepting
<1>2. TypeOK /\ Home(c)' = Home(c)
  BY DEF IInv, TInv, Home
<1>3. Home(c) \in Disps
  BY <1>2, HomeIsDisp
<1>4. ASSUME NEW k \in DOMAIN actions[Home(c)], actions[Home(c)][k].sock = c PROVE InQueue(c)'
  <2>1. CASE Home(c) # d
    BY <1>2, <1>3, <1>4, <2>1 DEF InQueue
  <2>2. CASE Home(c) = d
    <3>1. k # 1
      BY <1>2, <1>4, <2>2, PoppedAt
    <3>2. k - 1 \in DOMAIN Tail(actions[d]) /\ Tail(actions[d])[k - 1] = actions[d][k]
      BY <1>2, <1>4, <2>2, <3>1, PoppedKeeps
    <3>3. Tail(actions[d]) \in Seq(Action)
      BY <1>2, HeadTailProperties DEF TypeOK
    <3>4. \A a \in Action : /\ k - 1 \in DOMAIN Append(Tail(actions[d]), a)
                            /\ Append(Tail(actions[d]), a)[k - 1] = Tail(actions[d])[k - 1]
      BY <3>2, <3>3, AppendProperties
    <3>5. k - 1 \in DOMAIN actions'[d] /\ actions'[d][k - 1] = actions[d][k]
      BY <3>2, <3>4
    <3> QED
      BY <1>2, <1>4, <2>2, <3>5 DEF InQueue
  <2> QED
    BY <2>1, <2>2
<1> QED
  BY <1>1, <1>4 DEF InQueue

LEMMA KeptFrameAttach ==
  ASSUME IInv, Kept, NEW d \in Disps, FrameAttach(d)
  PROVE  Kept'
<1>0. PICK c \in Conns : c = Head(actions[d]).sock
  BY HeadIsDue DEF FrameAttach
<1>1. /\ actions[d] # <<>> /\ c # None
      /\ bev' = [bev EXCEPT ![c] = "on"]
      /\ sessions' = [sessions EXCEPT ![d] = Erased(@, Head(actions[d]).id) \cup {c}]
      /\ dropped \subseteq dropped'
      /\ \/ actions' = [actions EXCEPT ![d] = Tail(@)]
         \/ actions' = [actions EXCEPT ![d] =
                           Append(Tail(@), [id |-> Head(actions[d]).id, sock |-> None])]
      /\ UNCHANGED <<open, id, work, pc>>
  BY <1>0 DEF FrameAttach, kernel
<1>2. /\ Head(actions[d]).id = id[c] /\ id[c] # 0 /\ id[c] \in Nat /\ Home(c) = d
  BY <1>0, <1>1, HeadIsDue DEF EntryOk, AddOk
<1>3. /\ bev'[c] = "on" /\ \A e \in Conns : e # c => bev'[e] = bev[e]
      /\ sessions'[d] = sessions[d] \cup {c}
      /\ \A e \in Disps : e # d => sessions'[e] = sessions[e]
  BY <1>1, <1>2, AddedOnly DEF IInv, TInv, TypeOK
<1>4. [id |-> Head(actions[d]).id, sock |-> None] \in Action
  BY <1>2 DEF Action
<1>5. /\ \A e \in Disps : e # d => actions'[e] = actions[e]
      /\ \/ actions'[d] = Tail(actions[d])
         \/ \E a \in Action : actions'[d] = Append(Tail(actions[d]), a)
  BY <1>1, <1>4 DEF IInv, TInv, TypeOK
<1>6. KeptOne(c)'
  BY <1>1, <1>2, <1>3 DEF KeptOne, Placed, Home
<1>7. ASSUME NEW e \in open, e # c PROVE KeptOne(e)'
  <2>1. e \in Conns /\ KeptOne(e) /\ Home(e) \in Disps
    BY HomeIsDisp DEF Kept, IInv, TInv, TypeOK
  <2>2. /\ InQueue(e) => InQueue(e)'
        /\ \A s \in Servers : Accepting(s, e) => Accepting(s, e)'
    BY <1>0, <1>1, <1>5, <1>7, <2>1, PoppedWaits
  <2>3. e \in sessions[Home(e)] => Placed(e)'
    BY <1>1, <1>3, <2>1 DEF Placed, Home
  <2> QED
    BY <1>1, <1>3, <1>7, <2>1, <2>2, <2>3, KeptStays
<1> QED
  BY <1>1, <1>6, <1>7 DEF Kept

LEMMA KeptFrameAttachFails ==
  ASSUME IInv, Kept, NEW d \in Disps, FrameAttachFails(d)
  PROVE  Kept'
<1>0. PICK c \in Conns : c = Head(actions[d]).sock
  BY HeadIsDue DEF FrameAttachFails
<1>1. /\ actions[d] # <<>>
      /\ bev' = [bev EXCEPT ![c] = "failed"]
      /\ actions' = [actions EXCEPT ![d] = Tail(@)]
      /\ UNCHANGED <<open, id, sessions, dropped, work, pc>>
  BY <1>0 DEF FrameAttachFails, kernel
<1>2. /\ bev'[c] = "failed" /\ \A e \in Conns : e # c => bev'[e] = bev[e]
      /\ actions'[d] = Tail(actions[d])
      /\ \A e \in Disps : e # d => actions'[e] = actions[e]
  BY <1>1 DEF IInv, TInv, TypeOK
<1>3. KeptOne(c)'
  BY <1>2 DEF KeptOne
<1>4. ASSUME NEW e \in open, e # c PROVE KeptOne(e)'
  <2>1. e \in Conns /\ KeptOne(e)
    BY DEF Kept, IInv, TInv, TypeOK
  <2>2. /\ InQueue(e) => InQueue(e)'
        /\ \A s \in Servers : Accepting(s, e) => Accepting(s, e)'
    BY <1>0, <1>1, <1>2, <1>4, <2>1, PoppedWaits
  <2>3. e \in sessions[Home(e)] => Placed(e)'
    BY <1>1 DEF Placed, Home
  <2> QED
    BY <1>1, <1>2, <1>4, <2>1, <2>2, <2>3, KeptStays
<1> QED
  BY <1>1, <1>3, <1>4 DEF Kept

\* A removal puts out of the map the session of the one connection with its id, and
\* the application asked for it if that connection is still open.
LEMMA KeptFrameErase ==
  ASSUME IInv, Kept, NEW d \in Disps, FrameErase(d)
  PROVE  Kept'
<1>1. /\ actions[d] # <<>> /\ Head(actions[d]).sock = None
      /\ sessions' = [sessions EXCEPT ![d] = Erased(@, Head(actions[d]).id)]
      /\ actions' = [actions EXCEPT ![d] = Tail(@)]
      /\ UNCHANGED <<open, id, bev, dropped, work, pc>>
  BY DEF FrameErase, kernel
<1>2. PICK r \in Conns : id[r] = Head(actions[d]).id /\ Removable(r)
  BY <1>1, HeadIsDue DEF EntryOk, RemoveOk
<1>3. id[r] # 0
  BY <1>2 DEF IInv, Numbered, Removable
<1>4. /\ actions'[d] = Tail(actions[d])
      /\ \A e \in Disps : e # d => actions'[e] = actions[e]
  BY <1>1 DEF IInv, TInv, TypeOK
<1> SUFFICES ASSUME NEW e \in open PROVE KeptOne(e)'
  BY <1>1 DEF Kept
<1>5. e \in Conns /\ KeptOne(e) /\ Home(e) \in Disps /\ e # None
  BY HomeIsDisp DEF Kept, IInv, TInv, TypeOK
<1>6. /\ InQueue(e) => InQueue(e)'
      /\ \A s \in Servers : Accepting(s, e) => Accepting(s, e)'
  BY <1>1, <1>4, <1>5, PoppedWaits
<1>7. bev[e] = "on" => Placed(e)'
  <2> SUFFICES ASSUME bev[e] = "on", e \notin dropped PROVE e \in sessions'[Home(e)]
    BY <1>1 DEF Placed, Home
  <2>1. e \in sessions[Home(e)]
    BY <1>5 DEF KeptOne, Placed
  <2>2. e # r
    BY <1>2 DEF Removable
  <2>3. id[e] # Head(actions[d]).id
    BY <1>2, <1>3, <1>5, <2>2 DEF IInv, UniqueIds
  <2> QED
    BY <1>1, <1>5, <2>1, <2>3 DEF Erased, IInv, TInv, TypeOK
<1> QED
  BY <1>1, <1>5, <1>6, <1>7 DEF KeptOne, Waits

-----------------------------------------------------------------------------
LEMMA KeptHandleEvent ==
  ASSUME IInv, Kept, NEW d \in Disps, HandleEvent(d)
  PROVE  Kept'
<1>1. PICK c \in eof : /\ bev' = [bev EXCEPT ![c] = "closed"]
                       /\ open' = open \ {c}
                       /\ work' = [work EXCEPT ![d] = [conn |-> c, gen |-> 0]]
  BY DEF HandleEvent
<1>2. /\ pc[d] = "poll" /\ pc' = [pc EXCEPT ![d] = "remove"]
      /\ UNCHANGED <<id, actions, sessions, dropped>>
  BY DEF HandleEvent, Goto
<1> SUFFICES ASSUME NEW e \in open, e # c PROVE KeptOne(e)'
  BY <1>1 DEF Kept
<1>3. KeptOne(e) /\ bev'[e] = bev[e]
  BY <1>1 DEF Kept, IInv, TInv, TypeOK
<1>4. \A s \in Servers : Accepting(s, e) => Accepting(s, e)'
  BY <1>1, <1>2, MasterIsDisp DEF Accepting, IInv, TInv, TypeOK
<1>5. (InQueue(e) => InQueue(e)') /\ (e \in sessions[Home(e)] => Placed(e)')
  BY <1>2 DEF InQueue, Home, Placed
<1> QED
  BY <1>2, <1>3, <1>4, <1>5, KeptStays

\* Queueing a removal leaves what waits where it is.
LEMMA KeptPushed ==
  ASSUME IInv, NEW d \in Disps, NEW c \in Conns, actions' = Pushed(d, id[c], None),
         UNCHANGED <<id, sessions, work>>, dropped \subseteq dropped',
         \A s \in Servers : pc[Master(s)] \in {"number", "push"} => pc'[Master(s)] = pc[Master(s)],
         NEW e \in Conns, KeptOne(e), bev'[e] = bev[e]
  PROVE  KeptOne(e)'
<1>1. TypeOK /\ id[c] \in Nat /\ Home(e)' = Home(e)
  BY DEF IInv, TInv, TypeOK, Home
<1>2. Home(e) \in Disps
  BY <1>1, HomeIsDisp
<1>3. \A s \in Servers : Accepting(s, e) => Accepting(s, e)'
  BY DEF Accepting
<1>4. ASSUME NEW k \in DOMAIN actions[Home(e)], actions[Home(e)][k].sock = e PROVE InQueue(e)'
  <2>1. k \in DOMAIN actions'[Home(e)] /\ actions'[Home(e)][k] = actions[Home(e)][k]
    BY <1>1, <1>2, PushedKeeps
  <2> QED
    BY <1>1, <1>4, <2>1 DEF InQueue
<1>5. InQueue(e) => InQueue(e)'
  BY <1>4 DEF InQueue
<1>6. e \in sessions[Home(e)] => Placed(e)'
  BY <1>1 DEF Placed
<1> QED
  BY <1>3, <1>5, <1>6, KeptStays

LEMMA KeptHandleRemove ==
  ASSUME IInv, Kept, NEW d \in Disps, HandleRemove(d)
  PROVE  Kept'
<1>0. PICK c \in Conns : c = work[d].conn
  BY DEF HandleRemove, IInv, TInv, Busy
<1>1. /\ pc[d] = "remove" /\ pc' = [pc EXCEPT ![d] = "poll"]
      /\ bev' = [bev EXCEPT ![c] = "off"] /\ actions' = Pushed(d, id[c], None)
      /\ UNCHANGED <<open, id, sessions, dropped, work>>
  BY <1>0 DEF HandleRemove, Goto, kernel
<1>2. c \notin open
  BY <1>0, <1>1 DEF IInv, Maps, Kept, KeptOne
<1>3. \A s \in Servers : pc[Master(s)] \in {"number", "push"} => pc'[Master(s)] = pc[Master(s)]
  BY <1>1, MasterIsDisp DEF IInv, TInv, TypeOK
<1> SUFFICES ASSUME NEW e \in open PROVE KeptOne(e)'
  BY <1>1 DEF Kept
<1>4. e \in Conns /\ KeptOne(e) /\ bev'[e] = bev[e]
  BY <1>1, <1>2 DEF Kept, IInv, TInv, TypeOK
<1> QED
  BY <1>1, <1>3, <1>4, KeptPushed

LEMMA KeptUserRemoves ==
  ASSUME IInv, Kept, NEW u \in Users, UserRemoves(u)
  PROVE  Kept'
<1>0. PICK c \in Conns : c = ref[u]
  BY DEF UserRemoves, IInv, TInv, TypeOK
<1>1. /\ actions' = Pushed(Home(c), id[c], None) /\ dropped' = dropped \cup {c}
      /\ UNCHANGED <<open, id, sessions, bev, work, pc>>
  BY <1>0 DEF UserRemoves, kernel
<1>2. Home(c) \in Disps
  BY HomeIsDisp DEF IInv, TInv
<1> SUFFICES ASSUME NEW e \in open PROVE KeptOne(e)'
  BY <1>1 DEF Kept
<1>3. e \in Conns /\ KeptOne(e)
  BY DEF Kept, IInv, TInv, TypeOK
<1> QED
  BY <1>1, <1>2, <1>3, KeptPushed

LEMMA KeptInit == Init => Kept
BY DEF Init, Kept

LEMMA KeptStep == IInv /\ Kept /\ [Next]_vars => Kept'
<1> SUFFICES ASSUME IInv, Kept, [Next]_vars PROVE Kept'
  OBVIOUS
<1>1. ASSUME NEW s \in Servers, AcceptCallback(s) PROVE Kept'
  BY <1>1, KeptAccept, KeptAcceptNumber, KeptAcceptPush DEF AcceptCallback
<1>2. ASSUME NEW d \in Disps, DispStep(d) PROVE Kept'
  <2>1. CASE FrameBegin(d) \/ FrameEnd(d) \/ LoopEnd(d)
    <3>1. UNCHANGED <<open, id, actions, sessions, bev, dropped, work>>
      BY <2>1 DEF FrameBegin, FrameEnd, LoopEnd, kernel
    <3>2. \A s \in Servers : pc[Master(s)] \in {"number", "push"} => pc'[Master(s)] = pc[Master(s)]
      BY <2>1, MasterIsDisp DEF FrameBegin, FrameEnd, LoopEnd, Goto, IInv, TInv, TypeOK
    <3> QED
      BY <3>1, <3>2, KeptQuiet
  <2> QED
    BY <1>2, <2>1, KeptFrameAttach, KeptFrameAttachFails, KeptFrameErase, KeptHandleEvent,
       KeptHandleRemove DEF DispStep, OnFrame
<1>3. ASSUME NEW u \in Users, User(u) PROVE Kept'
  <2>1. CASE UserGets(u) \/ UserReleases(u) \/ UserCloses(u)
    BY <2>1, KeptQuiet DEF UserGets, UserReleases, UserCloses, kernel
  <2> QED
    BY <1>3, <2>1, KeptUserRemoves DEF User
<1>4. CASE \/ \E s \in Servers : Stop(s)
           \/ \E c \in Conns : PeerCloses(c)
           \/ UNCHANGED vars
  BY <1>4, KeptQuiet DEF Stop, PeerCloses, vars, kernel
<1> QED
  BY <1>1, <1>2, <1>3, <1>4 DEF Next

-----------------------------------------------------------------------------
\* What is queued is queued once and not in the accept callback's hands (IInv), and
\* what is open is held somewhere (Kept).
LEMMA KeptOnce == IInv /\ Kept => DescriptorKept
<1> SUFFICES ASSUME IInv, Kept, NEW c \in open
             PROVE  \/ bev[c] = "none" /\ Carried(c) # {} /\ Queued(c) = {}
                    \/ bev[c] = "none" /\ Carried(c) = {} /\ \E i \in Queued(c) : Queued(c) = {i}
                    \/ bev[c] = "on" /\ Queued(c) = {} /\ (c \in sessions[Home(c)] \/ c \in dropped)
                    \/ bev[c] = "failed"
  BY DEF DescriptorKept
<1>1. c \in Conns /\ Home(c) \in Disps /\ KeptOne(c) /\ c # None
  BY HomeIsDisp DEF IInv, TInv, TypeOK, Kept
<1>2. \A k \in Queued(c) : bev[c] = "none" /\ Carried(c) = {}
  BY <1>1 DEF Queued, Carried, IInv, Queues, EntryOk, AddOk, Accepting
<1>3. \A i, j \in Queued(c) : i = j
  BY <1>1 DEF Queued, IInv, Once
<1>4. bev[c] = "none" => Queued(c) # {} \/ Carried(c) # {}
  BY <1>1 DEF KeptOne, Waits, InQueue, Queued, Carried, Accepting
<1> QED
  BY <1>1, <1>2, <1>3, <1>4 DEF KeptOne, Placed

\* From accept to evutil_closesocket every descriptor has one place (tcpServer.cpp:139,
\* tcpServerDispatcher.cpp:54, tcpSession.cpp:75); the ways out of the map are those of
\* DescriptorKept.
THEOREM NoneLost == ASSUME \A s, t \in Servers : s = t PROVE Spec => []DescriptorKept
BY InvInit, InvStep, KeptInit, KeptStep, KeptOnce, PTL DEF Spec
=============================================================================
