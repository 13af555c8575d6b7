--------------------------- MODULE TcpServerProofs ---------------------------
(***************************************************************************)
(* Proofs about TcpServer, for any number of connections, slavers,         *)
(* descriptor numbers and application threads.  TypeCorrect holds for any  *)
(* number of servers; the rest for one, whose master thread is then the    *)
(* only one that numbers connections.                                      *)
(***************************************************************************)
EXTENDS TcpServer, SequenceTheorems, TLAPS

\* A master in the accept callback, and a dispatcher in handleEvent, have a
\* connection at hand.
Busy == \A d \in Disps : pc[d] \in {"number", "push", "remove"} => work[d].conn \in Conns

TInv == TypeOK /\ Busy

USE TcpAssumption DEF TcpAssumption

LEMMA MasterIsDisp == \A s \in Servers : Master(s) \in Disps
  BY DEF Master, Disps

LEMMA TypeInit == Init => TInv
  BY DEF Init, TInv, TypeOK, Busy, kernel, Action

\* Queueing keeps the queues well formed.
LEMMA PushedType ==
  ASSUME TypeOK, NEW d, NEW i \in Nat, NEW c \in Conns \cup {None}
  PROVE  Pushed(d, i, c) \in [Disps -> Seq(Action)]
<1> DEFINE a == [id |-> i, sock |-> c]
<1>1. a \in Action
  BY DEF Action
<1>2. \A e \in Disps : Append(actions[e], a) \in Seq(Action)
  <2> TAKE e \in Disps
  <2>1. actions[e] \in Seq(Action)
    BY DEF TypeOK
  <2> HIDE DEF a
  <2> QED
    BY <1>1, <2>1
<1>3. Pushed(d, i, c) = [actions EXCEPT ![d] = Append(@, a)]
  BY DEF Pushed
<1>4. actions \in [Disps -> Seq(Action)]
  BY DEF TypeOK
<1> HIDE DEF a
<1> QED
  BY <1>2, <1>3, <1>4

\* So does taking the oldest action, which is one.
LEMMA PoppedType ==
  ASSUME TypeOK, NEW d \in Disps, actions[d] # <<>>
  PROVE  /\ Head(actions[d]) \in Action
         /\ [actions EXCEPT ![d] = Tail(@)] \in [Disps -> Seq(Action)]
         /\ \A i \in Nat : [actions EXCEPT ![d] = Append(Tail(@), [id |-> i, sock |-> None])]
                             \in [Disps -> Seq(Action)]
<1>1. actions[d] \in Seq(Action) /\ Tail(actions[d]) \in Seq(Action) /\ Head(actions[d]) \in Action
  BY DEF TypeOK
<1>2. \A i \in Nat : [id |-> i, sock |-> None] \in Action
  BY DEF Action
<1> QED
  BY <1>1, <1>2 DEF TypeOK

LEMMA TypeStep == TInv /\ [Next]_vars => TInv'
<1> SUFFICES ASSUME TInv, [Next]_vars PROVE TInv'
  OBVIOUS
<1> USE MasterIsDisp DEF TInv, TypeOK, Busy, kernel, Goto
<1>1. ASSUME NEW s \in Servers, Accept(s) PROVE TInv'
  BY <1>1 DEF Accept
<1>2. ASSUME NEW s \in Servers, AcceptNumber(s) PROVE TInv'
  BY <1>2 DEF AcceptNumber
<1>3. ASSUME NEW s \in Servers, AcceptPush(s) PROVE TInv'
  BY <1>3, PushedType DEF AcceptPush
<1>4. ASSUME NEW d \in Disps, FrameBegin(d) PROVE TInv'
  BY <1>4 DEF FrameBegin
<1>5. ASSUME NEW d \in Disps, FrameAttach(d) PROVE TInv'
  <2> DEFINE a == Head(actions[d])
  <2>1. a \in Action /\ a.sock # None
    BY <1>5, PoppedType DEF FrameAttach
  <2>2. a.sock \in Conns /\ a.id \in Nat
    BY <2>1 DEF Action
  <2>3. /\ bev' = [bev EXCEPT ![a.sock] = "on"]
        /\ sessions' = [sessions EXCEPT ![d] = Erased(@, a.id) \cup {a.sock}]
        /\ \/ actions' = [actions EXCEPT ![d] = Tail(@)] /\ UNCHANGED dropped
           \/ /\ actions' = [actions EXCEPT ![d] = Append(Tail(@), [id |-> a.id, sock |-> None])]
              /\ dropped' = dropped \cup {a.sock}
        /\ actions[d] # <<>>
        /\ UNCHANGED <<gen, id, kernel, ref, told, work, pc>>
    BY <1>5 DEF FrameAttach
  <2> HIDE DEF a
  <2>4. actions' \in [Disps -> Seq(Action)]
    <3>1. /\ [actions EXCEPT ![d] = Tail(@)] \in [Disps -> Seq(Action)]
          /\ \A i \in Nat : [actions EXCEPT ![d] = Append(Tail(@), [id |-> i, sock |-> None])]
                              \in [Disps -> Seq(Action)]
      BY <2>3, PoppedType
    <3>2. CASE actions' = [actions EXCEPT ![d] = Tail(@)]
      BY <3>1, <3>2
    <3>3. CASE actions' = [actions EXCEPT ![d] = Append(Tail(@), [id |-> a.id, sock |-> None])]
      BY <2>2, <3>1, <3>3, Zenon
    <3> QED
      BY <2>3, <3>2, <3>3
  <2>5. dropped' \subseteq Conns
    BY <2>2, <2>3
  <2>6. sessions' \in [Disps -> SUBSET Conns]
    BY <2>2, <2>3 DEF Erased
  <2>7. bev' \in [Conns -> {"none", "on", "closed", "off", "failed"}]
    BY <2>2, <2>3
  <2> QED
    BY <2>3, <2>4, <2>5, <2>6, <2>7
<1>6. ASSUME NEW d \in Disps, FrameAttachFails(d) PROVE TInv'
  BY <1>6, PoppedType DEF FrameAttachFails
<1>7. ASSUME NEW d \in Disps, FrameErase(d) PROVE TInv'
  BY <1>7, PoppedType DEF FrameErase, Erased
<1>8. ASSUME NEW d \in Disps, FrameEnd(d) PROVE TInv'
  BY <1>8 DEF FrameEnd
<1>9. ASSUME NEW d \in Disps, HandleEvent(d) PROVE TInv'
  <2>1. PICK c \in eof : /\ bev' = [bev EXCEPT ![c] = "closed"]
                         /\ open' = open \ {c}
                         /\ work' = [work EXCEPT ![d] = [conn |-> c, gen |-> 0]]
    BY <1>9 DEF HandleEvent
  <2>2. work' \in [Disps -> [conn : Conns \cup {None}, gen : Nat]] /\ work'[d].conn \in Conns
    BY <2>1
  <2>3. \A e \in Disps : e # d => work'[e] = work[e]
    BY <2>1
  <2> QED
    BY <1>9, <2>1, <2>2, <2>3 DEF HandleEvent
<1>10. ASSUME NEW d \in Disps, HandleRemove(d) PROVE TInv'
  BY <1>10, PushedType DEF HandleRemove
<1>11. ASSUME NEW d \in Disps, LoopEnd(d) PROVE TInv'
  BY <1>11 DEF LoopEnd
<1>12. ASSUME NEW c \in Conns, PeerCloses(c) PROVE TInv'
  BY <1>12 DEF PeerCloses
<1>13. ASSUME NEW u \in Users, UserGets(u) PROVE TInv'
  BY <1>13 DEF UserGets
<1>14. ASSUME NEW u \in Users, UserReleases(u) PROVE TInv'
  BY <1>14 DEF UserReleases
<1>15. ASSUME NEW u \in Users, UserCloses(u) PROVE TInv'
  BY <1>15 DEF UserCloses
<1>16. ASSUME NEW u \in Users, UserRemoves(u) PROVE TInv'
  BY <1>16, PushedType DEF UserRemoves
<1>17. ASSUME NEW s \in Servers, Stop(s) PROVE TInv'
  BY <1>17 DEF Stop
<1>18. CASE UNCHANGED vars
  BY <1>18 DEF vars
<1> QED
  BY <1>1, <1>2, <1>3, <1>4, <1>5, <1>6, <1>7, <1>8, <1>9, <1>10, <1>11, <1>12, <1>13,
     <1>14, <1>15, <1>16, <1>17, <1>18
     DEF Next, AcceptCallback, OnFrame, DispStep, User

\* Every field keeps its type, however many servers, dispatchers and threads.
THEOREM TypeCorrect == Spec => []TypeOK
<1>1. TInv => TypeOK
  BY DEF TInv
<1> QED
  BY TypeInit, TypeStep, <1>1, PTL DEF Spec

-----------------------------------------------------------------------------
(* With one server the ids are unique, and everything queued for a           *)
(* dispatcher is due to it.                                                  *)

\* The connection s is accepting, if it is.
Accepting(s, c) == pc[Master(s)] \in {"number", "push"} /\ work[Master(s)].conn = c

\* A connection is numbered before anything else happens to it, and the id the
\* generator gives next is larger than every id given.
Numbered ==
  /\ \A c \in Conns : id[c] <= gen /\ (bev[c] # "none" => id[c] # 0)
                        /\ (id[c] # 0 => number[c] # None)
  /\ \A s \in Servers : pc[Master(s)] = "number" =>
       LET w == work[Master(s)] IN w.gen = gen /\ id[w.conn] = 0 /\ number[w.conn] # None
  /\ \A s \in Servers : pc[Master(s)] = "push" =>
       LET c == work[Master(s)].conn IN id[c] # 0 /\ bev[c] = "none"

\* An add is queued with the connection's dispatcher, before it is attached.
AddOk(d, a) == /\ a.id = id[a.sock] /\ id[a.sock] # 0 /\ bev[a.sock] = "none"
               /\ Home(a.sock) = d
               /\ \A s \in Servers : ~Accepting(s, a.sock)

\* A removal is queued with the dispatcher that attached the session it names, and
\* that session has been disconnected or was asked to go.
Removable(c) == bev[c] = "off" \/ (bev[c] \in {"on", "closed"} /\ c \in dropped)
RemoveOk(d, a) == \E c \in Conns : id[c] = a.id /\ Home(c) = d /\ Removable(c)

EntryOk(d, a) == IF a.sock = None THEN RemoveOk(d, a) ELSE AddOk(d, a)
Queues == \A d \in Disps : \A i \in DOMAIN actions[d] : EntryOk(d, actions[d][i])

Once == \A d \in Disps : \A i, j \in DOMAIN actions[d] :
          actions[d][i].sock # None /\ actions[d][i].sock = actions[d][j].sock => i = j

\* Only attached sessions are in the maps or in hand, each with its own dispatcher.
Attached(c) == bev[c] \in {"on", "closed", "off"}
Maps ==
  /\ \A d \in Disps : \A c \in sessions[d] : Attached(c) /\ Home(c) = d
  /\ \A u \in Users : ref[u] # None => Attached(ref[u])
  /\ \A c \in Conns : bev[c] # "none" => Home(c) \in Disps
  /\ \A d \in Disps : pc[d] = "remove" =>
       bev[work[d].conn] = "closed" /\ Home(work[d].conn) = d

\* One master thread increments the generator: no id is given twice.
UniqueIds == \A c, e \in Conns : id[c] = id[e] /\ id[c] # 0 => c = e

IInv == TInv /\ Numbered /\ UniqueIds /\ Queues /\ Once /\ Maps

\* What a queue holds after one more action was pushed onto it,
LEMMA PushedAt ==
  ASSUME TypeOK, NEW d, NEW n \in Nat, NEW c \in Conns \cup {None},
         NEW e \in Disps, NEW k \in DOMAIN Pushed(d, n, c)[e]
  PROVE  \/ k \in DOMAIN actions[e] /\ Pushed(d, n, c)[e][k] = actions[e][k]
         \/ /\ e = d /\ k = Len(actions[e]) + 1
            /\ Pushed(d, n, c)[e][k] = [id |-> n, sock |-> c]
<1> DEFINE a == [id |-> n, sock |-> c]
<1>1. actions[e] \in Seq(Action) /\ a \in Action
  BY DEF TypeOK, Action
<1>2. Pushed(d, n, c)[e] = IF e = d THEN Append(actions[e], a) ELSE actions[e]
  BY DEF Pushed, TypeOK
<1> HIDE DEF a
<1>3. CASE e = d
  <2>1. k \in 1..(Len(actions[e]) + 1)
    BY <1>1, <1>2, <1>3, AppendProperties
  <2>2. Append(actions[e], a)[k] = IF k <= Len(actions[e]) THEN actions[e][k] ELSE a
    BY <1>1, <2>1, AppendProperties
  <2> QED
    BY <1>1, <1>2, <1>3, <2>1, <2>2 DEF a
<1> QED
  BY <1>2, <1>3

LEMMA EntryType ==
  ASSUME TypeOK, NEW d \in Disps, NEW k \in DOMAIN actions[d]
  PROVE  actions[d][k].sock \in Conns \cup {None} /\ actions[d][k].id \in Nat
<1>1. actions[d] \in Seq(Action)
  BY DEF TypeOK
<1>2. actions[d][k] \in Action
  BY <1>1, ElementOfSeq
<1> QED
  BY <1>2 DEF Action

\* and after its oldest action was taken.
LEMMA PoppedAt ==
  ASSUME TypeOK, NEW d \in Disps, actions[d] # <<>>
  PROVE  /\ 1 \in DOMAIN actions[d] /\ actions[d][1] = Head(actions[d])
         /\ \A k \in DOMAIN Tail(actions[d]) :
              k + 1 \in DOMAIN actions[d] /\ Tail(actions[d])[k] = actions[d][k + 1]
<1>1. actions[d] \in Seq(Action)
  BY DEF TypeOK
<1> QED
  BY <1>1, HeadTailProperties

\* What is due to a dispatcher stays due to it.
LEMMA RemovalStays ==
  ASSUME IInv, NEW d, NEW a, RemoveOk(d, a),
         \A c \in Conns : id[c] # 0 => id'[c] = id[c],
         \A c \in Conns : Removable(c) => Removable(c)'
  PROVE  RemoveOk(d, a)'
<1>1. PICK c \in Conns : id[c] = a.id /\ Home(c) = d /\ Removable(c)
  BY DEF RemoveOk
<1>2. id[c] # 0
  BY <1>1 DEF IInv, Numbered, Removable
<1> QED
  BY <1>1, <1>2 DEF RemoveOk, Home

Rest == Numbered /\ UniqueIds /\ Queues /\ Once /\ Maps

\* The steps that move neither ids, queues, maps nor sessions disturb nothing.
LEMMA Quiet ==
  ASSUME IInv, UNCHANGED <<gen, id, number, actions, sessions, bev, dropped, work>>,
         \A u \in Users : ref'[u] # None => Attached(ref'[u]),
         \A d \in Disps : pc'[d] \in {"number", "push", "remove"} => pc'[d] = pc[d]
  PROVE  Rest'
<1>1. \A c \in Conns : Home(c)' = Home(c)
  BY DEF Home
<1>2. Numbered' /\ UniqueIds'
  BY MasterIsDisp DEF IInv, Numbered, UniqueIds
<1>3. Queues'
  BY MasterIsDisp DEF IInv, Queues, EntryOk, AddOk, RemoveOk, Removable, Accepting, Home
<1>4. Once'
  BY DEF IInv, Once
<1>5. Maps'
  BY <1>1 DEF IInv, Maps, Attached, Home
<1> QED
  BY <1>2, <1>3, <1>4, <1>5 DEF Rest

LEMMA AcceptRest ==
  ASSUME IInv, TInv', \A s, t \in Servers : s = t, NEW s \in Servers, AcceptCallback(s)
  PROVE  Rest'
<1> USE MasterIsDisp
<1>1. CASE Accept(s)
  <2>1. PICK c \in Conns, n \in Numbers :
          /\ number[c] = None /\ number' = [number EXCEPT ![c] = n]
          /\ work' = [work EXCEPT ![Master(s)] = [conn |-> c, gen |-> gen]]
    BY <1>1 DEF Accept
  <2>2. /\ pc[Master(s)] = "poll" /\ pc' = [pc EXCEPT ![Master(s)] = "number"]
        /\ UNCHANGED <<gen, id, actions, sessions, bev, dropped, ref>>
    BY <1>1 DEF Accept, Goto
  <2>3. id[c] = 0 /\ bev[c] = "none"
    BY <2>1 DEF IInv, Numbered, TInv, TypeOK
  <2>4. work'[Master(s)].conn = c /\ work'[Master(s)].gen = gen /\ pc'[Master(s)] = "number"
    BY <2>1, <2>2 DEF IInv, TInv, TypeOK
  <2>5. Numbered'
    BY <2>1, <2>2, <2>3, <2>4 DEF IInv, Numbered, TInv, TypeOK
  <2>6. UniqueIds' /\ Once'
    BY <2>2 DEF IInv, UniqueIds, Once
  <2>7. Queues'
    BY <2>2, <2>3, <2>4 DEF IInv, Queues, EntryOk, AddOk, RemoveOk, Removable, Accepting, Home
  <2>8. Maps'
    BY <2>1, <2>2 DEF IInv, Maps, Attached, Home, TInv, TypeOK
  <2> QED
    BY <2>5, <2>6, <2>7, <2>8 DEF Rest
<1>2. CASE AcceptNumber(s)
  <2> DEFINE c == work[Master(s)].conn
  <2>1. /\ pc[Master(s)] = "number" /\ pc' = [pc EXCEPT ![Master(s)] = "push"]
        /\ gen' = work[Master(s)].gen + 1
        /\ id' = [id EXCEPT ![c] = work[Master(s)].gen + 1]
        /\ UNCHANGED <<number, actions, sessions, bev, dropped, ref, work>>
    BY <1>2 DEF AcceptNumber, Goto, kernel
  <2>2. /\ c \in Conns /\ work[Master(s)].gen = gen /\ gen \in Nat
        /\ id[c] = 0 /\ number[c] # None /\ bev[c] = "none"
    BY <2>1 DEF IInv, Numbered, TInv, Busy, TypeOK
  <2> HIDE DEF c
  <2>3. /\ gen' = gen + 1 /\ id'[c] = gen + 1
        /\ \A e \in Conns : e # c => id'[e] = id[e]
        /\ \A e \in Conns : id[e] \in Nat /\ id[e] <= gen
    BY <2>1, <2>2 DEF IInv, Numbered, TInv, TypeOK
  <2>4. Numbered'
    <3>1. pc'[Master(s)] = "push" /\ work'[Master(s)].conn = c
      BY <2>1 DEF IInv, TInv, TypeOK, c
    <3> QED
      BY <2>1, <2>2, <2>3, <3>1 DEF IInv, Numbered
  <2>5. UniqueIds'
    BY <2>2, <2>3 DEF IInv, UniqueIds
  <2>6. Once'
    BY <2>1 DEF IInv, Once
  <2>7. Queues'
    <3> SUFFICES ASSUME NEW d \in Disps, NEW k \in DOMAIN actions[d]
                 PROVE  EntryOk(d, actions[d][k])'
      BY <2>1 DEF Queues
    <3>1. EntryOk(d, actions[d][k]) /\ actions'[d][k] = actions[d][k]
      BY <2>1 DEF IInv, Queues
    <3>2. CASE actions[d][k].sock = None
      BY <2>1, <2>2, <2>3, <3>1, <3>2, RemovalStays DEF EntryOk, RemoveOk, Removable
    <3>3. CASE actions[d][k].sock # None
      <4>1. pc'[Master(s)] = "push" /\ work' = work /\ Accepting(s, c)
        BY <2>1 DEF IInv, TInv, TypeOK, c, Accepting
      <4>2. actions[d][k].sock # c
        BY <3>1, <3>3, <4>1 DEF EntryOk, AddOk
      <4>3. actions[d][k].sock \in Conns
        BY <3>3, EntryType DEF IInv, TInv
      <4> QED
        BY <2>1, <2>3, <3>1, <3>3, <4>1, <4>2, <4>3 DEF EntryOk, AddOk, Accepting, Home, c
    <3> QED
      BY <3>2, <3>3
  <2>8. Maps'
    <3>1. \A e \in Conns : bev[e] # "none" => Home(e)' = Home(e)
      BY <2>2, <2>3 DEF Home
    <3>2. \A d \in Disps : pc'[d] = "remove" => pc[d] = "remove"
      BY <2>1
    <3> QED
      BY <2>1, <2>2, <3>1, <3>2 DEF IInv, Maps, Attached, TInv, TypeOK, Busy
  <2> QED
    BY <2>4, <2>5, <2>6, <2>7, <2>8 DEF Rest
<1>3. CASE AcceptPush(s)
  <2> DEFINE c == work[Master(s)].conn
             h == Home(c)
  <2>1. /\ pc[Master(s)] = "push" /\ pc' = [pc EXCEPT ![Master(s)] = "poll"]
        /\ actions' = Pushed(h, id[c], c)
        /\ UNCHANGED <<gen, id, number, sessions, bev, dropped, ref, work>>
    BY <1>3 DEF AcceptPush, Goto, kernel
  <2>2. c \in Conns /\ id[c] \in Nat /\ id[c] # 0 /\ bev[c] = "none" /\ Accepting(s, c)
    BY <2>1 DEF IInv, Numbered, TInv, Busy, TypeOK, Accepting
  <2>3. \A t \in Servers : \A e \in Conns : Accepting(t, e)' => Accepting(t, e) /\ e # c
    BY <2>1 DEF Accepting, IInv, TInv, TypeOK
  <2>4. TypeOK /\ c # None
    BY <2>2 DEF IInv, TInv
  <2> HIDE DEF c, h
  <2>5. Numbered' /\ UniqueIds'
    BY <2>1 DEF IInv, Numbered, UniqueIds, TInv, TypeOK
  <2>6. ASSUME NEW d \in Disps, NEW k \in DOMAIN actions'[d]
        PROVE  \/ k \in DOMAIN actions[d] /\ actions'[d][k] = actions[d][k]
               \/ d = h /\ k = Len(actions[d]) + 1 /\ actions'[d][k] = [id |-> id[c], sock |-> c]
    BY <2>1, <2>2, <2>4, <2>6, PushedAt
  <2>7. \A d \in Disps : \A k \in DOMAIN actions[d] : actions[d][k].sock # c
    <3> SUFFICES ASSUME NEW d \in Disps, NEW k \in DOMAIN actions[d], actions[d][k].sock = c
                 PROVE  FALSE
      OBVIOUS
    <3>1. EntryOk(d, actions[d][k])
      BY DEF IInv, Queues
    <3> QED
      BY <2>2, <2>4, <3>1 DEF EntryOk, AddOk
  <2>8. Queues'
    <3> SUFFICES ASSUME NEW d \in Disps, NEW k \in DOMAIN actions'[d]
                 PROVE  EntryOk(d, actions[d][k])'
      BY DEF Queues
    <3>1. CASE k \in DOMAIN actions[d] /\ actions'[d][k] = actions[d][k]
      <4>1. EntryOk(d, actions[d][k])
        BY <3>1 DEF IInv, Queues
      <4>2. actions[d][k].sock \in Conns \cup {None}
        BY <3>1, <2>4, EntryType
      <4> QED
        BY <2>1, <2>3, <3>1, <4>1, <4>2 DEF EntryOk, AddOk, RemoveOk, Removable, Home
    <3>2. CASE d = h /\ actions'[d][k] = [id |-> id[c], sock |-> c]
      BY <2>1, <2>2, <2>3, <2>4, <3>2 DEF EntryOk, AddOk, Home, h
    <3> QED
      BY <2>6, <3>1, <3>2
  <2>9. Once'
    BY <2>4, <2>6, <2>7 DEF IInv, Once
  <2>10. Maps'
    BY <2>1 DEF IInv, Maps, Attached, Home, TInv, TypeOK
  <2> QED
    BY <2>5, <2>8, <2>9, <2>10 DEF Rest
<1> QED
  BY <1>1, <1>2, <1>3 DEF AcceptCallback

\* A frame that takes an action: the other entries of the queue stay due, if what
\* it does to the sessions leaves their marks alone.
LEMMA PoppedQueues ==
  ASSUME IInv, NEW d \in Disps, actions[d] # <<>>, UNCHANGED <<id, pc, work>>,
         \A c \in Conns : Removable(c) => Removable(c)',
         \A c \in Conns : bev[c] = "none" /\ c # Head(actions[d]).sock => bev'[c] = "none"
  PROVE  \A e \in Disps : \A k \in DOMAIN actions[e] :
           e # d \/ k # 1 => EntryOk(e, actions[e][k]) /\ \A a : a = actions[e][k] => EntryOk(e, a)'
<1> SUFFICES ASSUME NEW e \in Disps, NEW k \in DOMAIN actions[e], e # d \/ k # 1,
                    NEW a, a = actions[e][k]
             PROVE  EntryOk(e, actions[e][k]) /\ EntryOk(e, a)'
  OBVIOUS
<1>1. EntryOk(e, a) /\ EntryOk(e, actions[e][k])
  BY DEF IInv, Queues
<1>2. TypeOK /\ a.sock \in Conns \cup {None}
  BY EntryType DEF IInv, TInv
<1>3. CASE a.sock = None
  BY <1>1, <1>3, RemovalStays DEF EntryOk
<1>4. CASE a.sock # None
  <2>1. 1 \in DOMAIN actions[d] /\ Head(actions[d]) = actions[d][1]
    BY <1>2, PoppedAt
  <2>2. EntryOk(d, actions[d][1])
    BY <2>1 DEF IInv, Queues
  <2>3. a.sock # Head(actions[d]).sock
    <3>1. CASE e = d
      BY <1>4, <2>1, <3>1 DEF IInv, Once
    <3>2. CASE e # d
      BY <1>1, <1>4, <2>1, <2>2, <3>2 DEF EntryOk, AddOk
    <3> QED
      BY <3>1, <3>2
  <2> QED
    BY <1>1, <1>2, <1>4, <2>3 DEF EntryOk, AddOk, Accepting, Home
<1> QED
  BY <1>1, <1>3, <1>4

\* What a frame does to a queue: it drops the head, and may append a removal.
Takes(d, n) == \/ actions' = [actions EXCEPT ![d] = Tail(@)]
               \/ actions' = [actions EXCEPT ![d] = Append(Tail(@), [id |-> n, sock |-> None])]

LEMMA TakenQueues ==
  ASSUME IInv, NEW d \in Disps, actions[d] # <<>>, UNCHANGED <<id, pc, work>>,
         \A c \in Conns : Removable(c) => Removable(c)',
         \A c \in Conns : bev[c] = "none" /\ c # Head(actions[d]).sock => bev'[c] = "none",
         NEW n \in Nat, Takes(d, n),
         actions' = [actions EXCEPT ![d] = Tail(@)] \/ \A a : a.id = n => RemoveOk(d, a)'
  PROVE  Queues' /\ Once'
<1> DEFINE r == [id |-> n, sock |-> None]
           Tl == Tail(actions[d])
<1>1. TypeOK /\ r \in Action /\ actions[d] \in Seq(Action) /\ Tl \in Seq(Action)
  <2>1. TypeOK /\ actions[d] \in Seq(Action)
    BY DEF IInv, TInv, TypeOK
  <2>2. r \in Action
    BY DEF Action
  <2> QED
    BY <2>1, <2>2, HeadTailProperties
<1>2. /\ \A e \in Disps : e # d => actions'[e] = actions[e]
      /\ \/ actions'[d] = Tl
         \/ actions'[d] = Append(Tl, r) /\ \A a : a.id = n => RemoveOk(d, a)'
  BY <1>1 DEF Takes, TypeOK
<1>3. \A k \in DOMAIN Tl : /\ k + 1 \in DOMAIN actions[d] /\ k + 1 # 1
                           /\ Tl[k] = actions[d][k + 1]
  <2>1. \A k \in DOMAIN Tl : k \in Nat /\ k # 0
    BY <1>1
  <2> QED
    BY <1>1, <2>1, PoppedAt
<1>4. r.id = n /\ r.sock = None
  OBVIOUS
<1> HIDE DEF r, Tl
<1>5. ASSUME NEW k \in DOMAIN actions'[d]
      PROVE  \/ k \in DOMAIN Tl /\ actions'[d][k] = Tl[k]
             \/ actions'[d][k] = r /\ \A a : a.id = n => RemoveOk(d, a)'
  <2>1. CASE actions'[d] = Tl
    BY <1>5, <2>1
  <2>2. CASE actions'[d] = Append(Tl, r) /\ \A a : a.id = n => RemoveOk(d, a)'
    <3>1. k \in 1..(Len(Tl) + 1)
      BY <1>1, <1>5, <2>2, AppendProperties
    <3>2. Append(Tl, r)[k] = IF k <= Len(Tl) THEN Tl[k] ELSE r
      BY <1>1, <3>1, AppendProperties
    <3> QED
      BY <1>1, <2>2, <3>1, <3>2
  <2> QED
    BY <1>2, <2>1, <2>2
<1>6. \A e \in Disps : \A k \in DOMAIN actions[e] :
           e # d \/ k # 1 => \A a : a = actions[e][k] => EntryOk(e, a)'
  BY PoppedQueues
<1>7. ASSUME NEW e \in Disps, NEW k \in DOMAIN actions'[e], NEW a, a = actions'[e][k]
      PROVE  EntryOk(e, a)'
  <2>1. CASE e # d
    BY <1>2, <1>6, <1>7, <2>1
  <2>2. CASE e = d /\ k \in DOMAIN Tl /\ actions'[d][k] = Tl[k]
    BY <1>3, <1>6, <1>7, <2>2
  <2>3. CASE e = d /\ actions'[d][k] = r /\ \A b : b.id = n => RemoveOk(d, b)'
    BY <1>4, <1>7, <2>3 DEF EntryOk
  <2> QED
    BY <1>5, <1>7, <2>1, <2>2, <2>3
<1>8. Queues'
  BY <1>7 DEF Queues, EntryOk, AddOk, RemoveOk, Removable, Accepting, Home
<1>9. Once'
  <2> SUFFICES ASSUME NEW e \in Disps, NEW k \in DOMAIN actions'[e], NEW j \in DOMAIN actions'[e],
                      actions'[e][k].sock # None, actions'[e][k].sock = actions'[e][j].sock
               PROVE  k = j
    BY DEF Once
  <2>1. CASE e # d
    BY <1>2, <2>1 DEF IInv, Once
  <2>2. CASE e = d
    <3>1. k \in DOMAIN Tl /\ j \in DOMAIN Tl /\ actions'[d][k] = Tl[k] /\ actions'[d][j] = Tl[j]
      BY <1>4, <1>5, <2>2
    <3>2. k + 1 = j + 1
      BY <1>3, <2>2, <3>1 DEF IInv, Once
    <3>3. k \in Nat /\ j \in Nat
      BY <1>1, <3>1
    <3> QED
      BY <3>2, <3>3
  <2> QED
    BY <2>1, <2>2
<1> QED
  BY <1>8, <1>9

\* The action a frame takes is due to its dispatcher.
LEMMA HeadIsDue ==
  ASSUME IInv, NEW d \in Disps, actions[d] # <<>>
  PROVE  /\ EntryOk(d, Head(actions[d])) /\ Head(actions[d]).id \in Nat
         /\ Head(actions[d]).sock \in Conns \cup {None}
<1>1. 1 \in DOMAIN actions[d] /\ actions[d][1] = Head(actions[d])
  BY PoppedAt DEF IInv, TInv
<1> QED
  BY <1>1, EntryType DEF IInv, TInv, Queues

\* What an add does to the map: it brings in one session and puts none out.
LEMMA AddedOnly ==
  ASSUME IInv, NEW d \in Disps, NEW c \in Conns, id[c] # 0
  PROVE  Erased(sessions[d], id[c]) \cup {c} = sessions[d] \cup {c}
  BY DEF IInv, TInv, TypeOK, UniqueIds, Erased

LEMMA FrameAttachRest ==
  ASSUME IInv, TInv', NEW d \in Disps, FrameAttach(d)
  PROVE  Rest'
<1> DEFINE c == Head(actions[d]).sock
           n == Head(actions[d]).id
<1>1. /\ actions[d] # <<>> /\ c # None /\ pc[d] = "frame"
      /\ bev' = [bev EXCEPT ![c] = "on"]
      /\ sessions' = [sessions EXCEPT ![d] = Erased(@, n) \cup {c}]
      /\ \/ actions' = [actions EXCEPT ![d] = Tail(@)] /\ UNCHANGED dropped
         \/ /\ actions' = [actions EXCEPT ![d] = Append(Tail(@), [id |-> n, sock |-> None])]
            /\ dropped' = dropped \cup {c}
      /\ UNCHANGED <<gen, id, number, ref, work, pc>>
  BY DEF FrameAttach, kernel
<1>2. /\ c \in Conns /\ n = id[c] /\ n # 0 /\ n \in Nat /\ bev[c] = "none" /\ Home(c) = d
      /\ \A s \in Servers : ~Accepting(s, c)
  BY <1>1, HeadIsDue DEF EntryOk, AddOk
<1>3. Takes(d, n) /\ dropped \subseteq dropped'
  BY <1>1 DEF Takes
<1> HIDE DEF n
<1>4. /\ bev'[c] = "on" /\ \A e \in Conns : e # c => bev'[e] = bev[e]
  BY <1>1, <1>2 DEF IInv, TInv, TypeOK
<1>5. \A e \in Conns : Removable(e) => Removable(e)'
  BY <1>2, <1>3, <1>4 DEF Removable
<1>6. actions' = [actions EXCEPT ![d] = Tail(@)] \/ \A a : a.id = n => RemoveOk(d, a)'
  BY <1>1, <1>2, <1>4 DEF RemoveOk, Removable, Home
<1>7. Queues' /\ Once'
  <2>1. \A e \in Conns : bev[e] = "none" /\ e # Head(actions[d]).sock => bev'[e] = "none"
    BY <1>4
  <2> QED
    BY <1>1, <1>2, <1>3, <1>5, <1>6, <2>1, TakenQueues
<1>8. Numbered'
  <2>1. \A s \in Servers : pc[Master(s)] = "push" => work[Master(s)].conn # c
    BY <1>2 DEF Accepting
  <2>2. \A s \in Servers : pc[Master(s)] = "push" => work[Master(s)].conn \in Conns
    BY MasterIsDisp DEF IInv, TInv, Busy
  <2> HIDE DEF c
  <2> QED
    BY <1>1, <1>2, <1>4, <2>1, <2>2 DEF IInv, Numbered
<1>9. UniqueIds'
  BY <1>1 DEF IInv, UniqueIds
<1>10. Maps'
  <2>1. sessions'[d] = sessions[d] \cup {c} /\ \A e \in Disps : e # d => sessions'[e] = sessions[e]
    BY <1>1, <1>2, AddedOnly DEF IInv, TInv, TypeOK
  <2>2. \A e \in Conns : Attached(e) => Attached(e)' /\ e # c
    BY <1>2, <1>4 DEF Attached
  <2>3. \A e \in Conns : (e = c => Attached(e)') /\ Home(e)' = Home(e)
    BY <1>1, <1>4 DEF Attached, Home
  <2>4. \A e \in Disps : sessions[e] \subseteq Conns
    BY DEF IInv, TInv, TypeOK
  <2>5. \A e \in Disps : pc[e] = "remove" => work[e].conn \in Conns
    BY DEF IInv, TInv, Busy
  <2>6. \A u \in Users : ref[u] # None => ref[u] \in Conns
    BY DEF IInv, TInv, TypeOK
  <2> HIDE DEF c
  <2>7. \A e \in Disps : \A x \in sessions'[e] : Attached(x)' /\ Home(x)' = e
    BY <1>2, <2>1, <2>2, <2>3, <2>4 DEF IInv, Maps
  <2>8. \A u \in Users : ref'[u] # None => Attached(ref[u])'
    BY <1>1, <2>2, <2>6 DEF IInv, Maps
  <2>9. \A x \in Conns : bev'[x] # "none" => Home(x)' \in Disps
    BY <1>2, <1>4, <2>3 DEF IInv, Maps
  <2>10. \A e \in Disps : pc'[e] = "remove" =>
            bev'[work'[e].conn] = "closed" /\ Home(work[e].conn)' = e
    BY <1>1, <1>2, <1>4, <2>3, <2>5 DEF IInv, Maps
  <2> QED
    BY <1>1, <2>7, <2>8, <2>9, <2>10 DEF Maps, Attached, Home
<1> QED
  BY <1>7, <1>8, <1>9, <1>10 DEF Rest

LEMMA FrameAttachFailsRest ==
  ASSUME IInv, TInv', NEW d \in Disps, FrameAttachFails(d)
  PROVE  Rest'
<1> DEFINE c == Head(actions[d]).sock
<1>1. /\ actions[d] # <<>> /\ c # None
      /\ bev' = [bev EXCEPT ![c] = "failed"]
      /\ actions' = [actions EXCEPT ![d] = Tail(@)]
      /\ UNCHANGED <<gen, id, number, sessions, dropped, ref, work, pc>>
  BY DEF FrameAttachFails, kernel
<1>2. /\ c \in Conns /\ id[c] # 0 /\ bev[c] = "none" /\ Home(c) = d
      /\ \A s \in Servers : ~Accepting(s, c)
  BY <1>1, HeadIsDue DEF EntryOk, AddOk
<1>3. bev'[c] = "failed" /\ \A e \in Conns : e # c => bev'[e] = bev[e]
  BY <1>1, <1>2 DEF IInv, TInv, TypeOK
<1>4. \A e \in Conns : Removable(e) => Removable(e)'
  BY <1>1, <1>2, <1>3 DEF Removable
<1>5. Takes(d, 0)
  BY <1>1 DEF Takes
<1>6. \A e \in Conns : bev[e] = "none" /\ e # Head(actions[d]).sock => bev'[e] = "none"
  BY <1>3
<1>7. Queues' /\ Once'
  BY <1>1, <1>4, <1>5, <1>6, TakenQueues
<1>8. Numbered'
  <2>1. \A s \in Servers : pc[Master(s)] = "push" =>
           work[Master(s)].conn # c /\ work[Master(s)].conn \in Conns
    BY <1>2, MasterIsDisp DEF Accepting, IInv, TInv, Busy
  <2> HIDE DEF c
  <2> QED
    BY <1>1, <1>2, <1>3, <2>1 DEF IInv, Numbered
<1>9. UniqueIds'
  BY <1>1 DEF IInv, UniqueIds
<1>10. Maps'
  <2>1. \A e \in Conns : Home(e)' = Home(e) /\ (Attached(e) => Attached(e)' /\ e # c)
    BY <1>1, <1>2, <1>3 DEF Attached, Home
  <2>2. /\ \A e \in Disps : sessions[e] \subseteq Conns
        /\ \A e \in Disps : pc[e] = "remove" => work[e].conn \in Conns
        /\ \A u \in Users : ref[u] # None => ref[u] \in Conns
    BY DEF IInv, TInv, TypeOK, Busy
  <2> HIDE DEF c
  <2> QED
    BY <1>1, <1>2, <1>3, <2>1, <2>2 DEF IInv, Maps, Attached, Home
<1> QED
  BY <1>7, <1>8, <1>9, <1>10 DEF Rest

LEMMA FrameEraseRest ==
  ASSUME IInv, TInv', NEW d \in Disps, FrameErase(d)
  PROVE  Rest'
<1>1. /\ actions[d] # <<>>
      /\ sessions' = [sessions EXCEPT ![d] = Erased(@, Head(actions[d]).id)]
      /\ actions' = [actions EXCEPT ![d] = Tail(@)]
      /\ UNCHANGED <<gen, id, number, bev, dropped, ref, work, pc>>
  BY DEF FrameErase, kernel
<1>2. Takes(d, 0)
  BY <1>1 DEF Takes
<1>3. Queues' /\ Once'
  <2>1. \A c \in Conns : Removable(c) => Removable(c)'
    BY <1>1 DEF Removable
  <2> QED
    BY <1>1, <1>2, <2>1, TakenQueues
<1>4. Numbered' /\ UniqueIds'
  BY <1>1 DEF IInv, Numbered, UniqueIds
<1>5. Maps'
  <2>1. \A e \in Disps : sessions'[e] \subseteq sessions[e]
    BY <1>1 DEF Erased, IInv, TInv, TypeOK
  <2> QED
    BY <1>1, <2>1 DEF IInv, Maps, Attached, Home
<1> QED
  BY <1>3, <1>4, <1>5 DEF Rest

\* Queueing a removal that is due leaves every queue in order.
LEMMA PushedQueues ==
  ASSUME IInv, NEW d, NEW n \in Nat, actions' = Pushed(d, n, None), UNCHANGED id,
         \A c \in Conns : Removable(c) => Removable(c)',
         \A c \in Conns : bev[c] = "none" => bev'[c] = "none",
         \A s \in Servers : \A c \in Conns : Accepting(s, c)' => Accepting(s, c),
         \A a : a.id = n => RemoveOk(d, a)'
  PROVE  Queues' /\ Once'
<1>1. TypeOK
  BY DEF IInv, TInv
<1>2. ASSUME NEW e \in Disps, NEW k \in DOMAIN actions'[e]
      PROVE  \/ k \in DOMAIN actions[e] /\ actions'[e][k] = actions[e][k]
             \/ e = d /\ actions'[e][k] = [id |-> n, sock |-> None]
  BY <1>1, <1>2, PushedAt
<1>3. ASSUME NEW e \in Disps, NEW k \in DOMAIN actions'[e] PROVE EntryOk(e, actions[e][k])'
  <2>1. CASE k \in DOMAIN actions[e] /\ actions'[e][k] = actions[e][k]
    <3>1. EntryOk(e, actions[e][k]) /\ actions[e][k].sock \in Conns \cup {None}
      BY <1>1, <2>1, EntryType DEF IInv, Queues
    <3>2. CASE actions[e][k].sock = None
      <4>1. \A a : RemoveOk(e, a) => RemoveOk(e, a)'
        BY RemovalStays
      <4> QED
        BY <2>1, <3>1, <3>2, <4>1 DEF EntryOk, RemoveOk, Removable, Home
    <3>3. CASE actions[e][k].sock # None
      BY <2>1, <3>1, <3>3 DEF EntryOk, AddOk, Home
    <3> QED
      BY <3>2, <3>3
  <2>2. CASE e = d /\ actions'[e][k] = [id |-> n, sock |-> None]
    BY <2>2 DEF EntryOk, RemoveOk, Removable, Home
  <2> QED
    BY <1>2, <1>3, <2>1, <2>2
<1>4. Queues'
  BY <1>3 DEF Queues
<1>5. Once'
  BY <1>2 DEF IInv, Once
<1> QED
  BY <1>4, <1>5

LEMMA HandleEventRest ==
  ASSUME IInv, TInv', NEW d \in Disps, HandleEvent(d)
  PROVE  Rest'
<1>1. PICK c \in eof : /\ bev[c] = "on" /\ Home(c) = d
                       /\ bev' = [bev EXCEPT ![c] = "closed"]
                       /\ work' = [work EXCEPT ![d] = [conn |-> c, gen |-> 0]]
  BY DEF HandleEvent
<1>2. /\ pc[d] = "poll" /\ pc' = [pc EXCEPT ![d] = "remove"]
      /\ UNCHANGED <<gen, id, number, actions, sessions, dropped, ref>>
  BY DEF HandleEvent, Goto
<1>3. /\ c \in Conns /\ bev'[c] = "closed" /\ work'[d].conn = c /\ pc'[d] = "remove"
      /\ \A e \in Conns : e # c => bev'[e] = bev[e]
      /\ \A e \in Disps : e # d => work'[e] = work[e] /\ pc'[e] = pc[e]
  BY <1>1, <1>2 DEF IInv, TInv, TypeOK
<1>4. \A e \in Conns : Home(e)' = Home(e) /\ (Removable(e) => Removable(e)')
                         /\ (Attached(e) => Attached(e)')
  BY <1>1, <1>2, <1>3 DEF Home, Removable, Attached
<1>5. \A s \in Servers : pc'[Master(s)] \in {"number", "push"} =>
         pc[Master(s)] = pc'[Master(s)] /\ work'[Master(s)] = work[Master(s)]
  BY <1>3, MasterIsDisp
<1>6. Numbered'
  <2>1. \A s \in Servers : pc[Master(s)] \in {"number", "push"} => work[Master(s)].conn \in Conns
    BY MasterIsDisp DEF IInv, TInv, Busy
  <2> QED
    BY <1>1, <1>2, <1>3, <1>5, <2>1 DEF IInv, Numbered
<1>7. UniqueIds' /\ Once'
  BY <1>2 DEF IInv, UniqueIds, Once
<1>8. Queues'
  <2> SUFFICES ASSUME NEW e \in Disps, NEW k \in DOMAIN actions[e]
               PROVE  EntryOk(e, actions[e][k])'
    BY <1>2 DEF Queues
  <2>1. EntryOk(e, actions[e][k]) /\ actions[e][k].sock \in Conns \cup {None}
    BY EntryType DEF IInv, TInv, Queues
  <2>2. CASE actions[e][k].sock = None
    <3>1. \A a : RemoveOk(e, a) => RemoveOk(e, a)'
      BY <1>2, <1>4, RemovalStays
    <3> QED
      BY <1>2, <2>1, <2>2, <3>1 DEF EntryOk, RemoveOk, Removable, Home
  <2>3. CASE actions[e][k].sock # None
    BY <1>1, <1>2, <1>3, <1>5, <2>1, <2>3 DEF EntryOk, AddOk, Accepting, Home
  <2> QED
    BY <2>2, <2>3
<1>9. Maps'
  <2>1. /\ \A e \in Disps : sessions[e] \subseteq Conns
        /\ \A e \in Disps : pc[e] = "remove" => work[e].conn \in Conns
        /\ \A u \in Users : ref[u] # None => ref[u] \in Conns
    BY DEF IInv, TInv, TypeOK, Busy
  <2>2. \A e \in Disps : pc'[e] = "remove" =>
          bev'[work'[e].conn] = "closed" /\ Home(work[e].conn)' = e
    BY <1>1, <1>2, <1>3, <2>1 DEF IInv, Maps, Home
  <2>3. \A e \in Disps : \A x \in sessions'[e] : Attached(x)' /\ Home(x)' = e
    BY <1>2, <1>4, <2>1 DEF IInv, Maps
  <2>4. \A u \in Users : ref'[u] # None => Attached(ref[u])'
    BY <1>2, <1>4, <2>1 DEF IInv, Maps, Attached
  <2>5. \A x \in Conns : bev'[x] # "none" => Home(x)' \in Disps
    BY <1>1, <1>3, <1>4 DEF IInv, Maps
  <2> QED
    BY <2>2, <2>3, <2>4, <2>5 DEF Maps
<1> QED
  BY <1>6, <1>7, <1>8, <1>9 DEF Rest

LEMMA HandleRemoveRest ==
  ASSUME IInv, TInv', NEW d \in Disps, HandleRemove(d)
  PROVE  Rest'
<1> DEFINE c == work[d].conn
<1>1. /\ pc[d] = "remove" /\ pc' = [pc EXCEPT ![d] = "poll"]
      /\ bev' = [bev EXCEPT ![c] = "off"] /\ actions' = Pushed(d, id[c], None)
      /\ UNCHANGED <<gen, id, number, sessions, dropped, ref, work>>
  BY DEF HandleRemove, Goto, kernel
<1>2. c \in Conns /\ id[c] \in Nat /\ bev[c] = "closed" /\ Home(c) = d
  BY <1>1 DEF IInv, TInv, TypeOK, Busy, Maps
<1>3. /\ bev'[c] = "off" /\ pc'[d] = "poll"
      /\ \A e \in Conns : e # c => bev'[e] = bev[e]
      /\ \A e \in Disps : e # d => pc'[e] = pc[e]
  BY <1>1, <1>2 DEF IInv, TInv, TypeOK
<1> HIDE DEF c
<1>4. \A e \in Conns : Home(e)' = Home(e) /\ (Removable(e) => Removable(e)')
                         /\ (Attached(e) => Attached(e)')
  BY <1>1, <1>2, <1>3 DEF Home, Removable, Attached
<1>5. \A s \in Servers : pc'[Master(s)] \in {"number", "push"} => pc[Master(s)] = pc'[Master(s)]
  BY <1>3, MasterIsDisp
<1>6. Numbered'
  <2>1. \A s \in Servers : pc[Master(s)] \in {"number", "push"} => work[Master(s)].conn \in Conns
    BY MasterIsDisp DEF IInv, TInv, Busy
  <2> QED
    BY <1>1, <1>2, <1>3, <1>5, <2>1 DEF IInv, Numbered
<1>7. UniqueIds'
  BY <1>1 DEF IInv, UniqueIds
<1>8. Queues' /\ Once'
  <2>1. \A a : a.id = id[c] => RemoveOk(d, a)'
    BY <1>1, <1>2, <1>3 DEF RemoveOk, Removable, Home
  <2>2. \A s \in Servers : \A e \in Conns : Accepting(s, e)' => Accepting(s, e)
    BY <1>1, <1>5 DEF Accepting
  <2>3. \A e \in Conns : bev[e] = "none" => bev'[e] = "none"
    BY <1>2, <1>3
  <2> QED
    BY <1>1, <1>2, <1>4, <2>1, <2>2, <2>3, PushedQueues
<1>9. Maps'
  <2>1. /\ \A e \in Disps : sessions[e] \subseteq Conns
        /\ \A e \in Disps : pc[e] = "remove" => work[e].conn \in Conns
        /\ \A u \in Users : ref[u] # None => ref[u] \in Conns
    BY DEF IInv, TInv, TypeOK, Busy
  <2>2. \A e \in Disps : pc'[e] = "remove" => e # d /\ work[e].conn # c
    BY <1>2, <1>3 DEF IInv, Maps
  <2>3. \A e \in Disps : pc'[e] = "remove" =>
          bev'[work'[e].conn] = "closed" /\ Home(work[e].conn)' = e
    BY <1>1, <1>3, <2>1, <2>2 DEF IInv, Maps, Home
  <2>4. \A e \in Disps : \A x \in sessions'[e] : Attached(x)' /\ Home(x)' = e
    BY <1>1, <1>4, <2>1 DEF IInv, Maps
  <2>5. \A u \in Users : ref'[u] # None => Attached(ref[u])'
    BY <1>1, <1>4, <2>1 DEF IInv, Maps, Attached
  <2>6. \A x \in Conns : bev'[x] # "none" => Home(x)' \in Disps
    BY <1>2, <1>3, <1>4 DEF IInv, Maps
  <2> QED
    BY <2>3, <2>4, <2>5, <2>6 DEF Maps
<1> QED
  BY <1>6, <1>7, <1>8, <1>9 DEF Rest

LEMMA UserRemovesRest ==
  ASSUME IInv, TInv', NEW u \in Users, UserRemoves(u)
  PROVE  Rest'
<1> DEFINE c == ref[u]
<1>1. /\ c # None /\ actions' = Pushed(Home(c), id[c], None) /\ dropped' = dropped \cup {c}
      /\ UNCHANGED <<gen, id, number, sessions, bev, ref, work, pc>>
  BY DEF UserRemoves, kernel
<1>2. c \in Conns /\ id[c] \in Nat /\ Attached(c)
  BY <1>1 DEF IInv, TInv, TypeOK, Maps
<1> HIDE DEF c
<1>3. \A e \in Conns : Removable(e) => Removable(e)'
  BY <1>1 DEF Removable
<1>4. \A d, a : d = Home(c) /\ a.id = id[c] => RemoveOk(d, a)'
  BY <1>1, <1>2 DEF RemoveOk, Removable, Attached, Home
<1>5. Queues' /\ Once'
  <2>1. \A s \in Servers : \A e \in Conns : Accepting(s, e)' => Accepting(s, e)
    BY <1>1 DEF Accepting
  <2>2. \A e \in Conns : bev[e] = "none" => bev'[e] = "none"
    BY <1>1
  <2>3. \A d : d = Home(c) => Queues' /\ Once'
    BY <1>1, <1>2, <1>3, <1>4, <2>1, <2>2, PushedQueues
  <2> QED
    BY <2>3
<1>6. Numbered' /\ UniqueIds'
  BY <1>1 DEF IInv, Numbered, UniqueIds
<1>7. Maps'
  BY <1>1 DEF IInv, Maps, Attached, Home
<1> QED
  BY <1>5, <1>6, <1>7 DEF Rest

-----------------------------------------------------------------------------
(* The theorems for one server, whose master thread alone numbers.           *)

LEMMA InvInit == Init => IInv
<1> SUFFICES ASSUME Init PROVE IInv
  OBVIOUS
<1>1. TInv
  BY TypeInit
<1> USE DEF Init, kernel
<1>2. Numbered /\ UniqueIds
  BY MasterIsDisp DEF Numbered, UniqueIds
<1>3. Queues /\ Once
  <2>1. \A d \in Disps : DOMAIN actions[d] = {}
    OBVIOUS
  <2> QED
    BY <2>1 DEF Queues, Once
<1>4. Maps
  BY DEF Maps
<1> QED
  BY <1>1, <1>2, <1>3, <1>4 DEF IInv

LEMMA InvStep ==
  ASSUME \A s, t \in Servers : s = t
  PROVE  IInv /\ [Next]_vars => IInv'
<1> SUFFICES ASSUME IInv, [Next]_vars PROVE IInv'
  OBVIOUS
<1>1. TInv'
  BY TypeStep DEF IInv
<1>2. ASSUME NEW s \in Servers, AcceptCallback(s) PROVE Rest'
  BY <1>1, <1>2, AcceptRest
<1>3. ASSUME NEW d \in Disps, DispStep(d) PROVE Rest'
  <2>1. CASE FrameBegin(d) \/ FrameEnd(d) \/ LoopEnd(d)
    <3>1. \A e \in Disps : pc'[e] \in {"number", "push", "remove"} => pc'[e] = pc[e]
      BY <2>1 DEF FrameBegin, FrameEnd, LoopEnd, Goto, IInv, TInv, TypeOK
    <3>2. UNCHANGED <<gen, id, number, actions, sessions, bev, dropped, ref, work>>
      BY <2>1 DEF FrameBegin, FrameEnd, LoopEnd, kernel
    <3> QED
      BY <3>1, <3>2, Quiet DEF IInv, Maps
  <2>2. CASE FrameAttach(d)
    BY <1>1, <2>2, FrameAttachRest
  <2>3. CASE FrameAttachFails(d)
    BY <1>1, <2>3, FrameAttachFailsRest
  <2>4. CASE FrameErase(d)
    BY <1>1, <2>4, FrameEraseRest
  <2>5. CASE HandleEvent(d)
    BY <1>1, <2>5, HandleEventRest
  <2>6. CASE HandleRemove(d)
    BY <1>1, <2>6, HandleRemoveRest
  <2> QED
    BY <1>3, <2>1, <2>2, <2>3, <2>4, <2>5, <2>6 DEF DispStep, OnFrame
<1>4. ASSUME NEW u \in Users, User(u) PROVE Rest'
  <2>1. CASE UserGets(u)
    <3>1. PICK d \in Disps : \E c \in sessions[d] : ref' = [ref EXCEPT ![u] = c]
      BY <2>1 DEF UserGets
    <3>2. PICK c \in sessions[d] : ref' = [ref EXCEPT ![u] = c]
      BY <3>1
    <3>3. Attached(c)
      BY DEF IInv, Maps
    <3>4. \A v \in Users : ref'[v] # None => Attached(ref'[v])
      BY <3>2, <3>3 DEF IInv, Maps, TInv, TypeOK
    <3> QED
      BY <2>1, <3>4, Quiet DEF UserGets, kernel
  <2>2. CASE UserReleases(u)
    <3>1. \A v \in Users : ref'[v] # None => Attached(ref'[v])
      BY <2>2 DEF UserReleases, IInv, Maps, TInv, TypeOK
    <3> QED
      BY <2>2, <3>1, Quiet DEF UserReleases, kernel
  <2>3. CASE UserCloses(u)
    BY <2>3, Quiet DEF UserCloses, IInv, Maps
  <2>4. CASE UserRemoves(u)
    BY <1>1, <2>4, UserRemovesRest
  <2> QED
    BY <1>4, <2>1, <2>2, <2>3, <2>4 DEF User
<1>5. CASE \/ \E s \in Servers : Stop(s)
           \/ \E c \in Conns : PeerCloses(c)
           \/ UNCHANGED vars
  <2>1. UNCHANGED <<gen, id, number, actions, sessions, bev, dropped, ref, work, pc>>
    BY <1>5 DEF Stop, PeerCloses, vars, kernel
  <2>2. \A u \in Users : ref'[u] # None => Attached(ref'[u])
    BY <2>1 DEF IInv, Maps
  <2>3. \A d \in Disps : pc'[d] \in {"number", "push", "remove"} => pc'[d] = pc[d]
    BY <2>1
  <2>4. UNCHANGED <<gen, id, number, actions, sessions, bev, dropped, work>>
    BY <2>1
  <2> QED
    BY <1>1, <2>2, <2>3, <2>4, Quiet DEF IInv, Rest
<1> QED
  BY <1>1, <1>2, <1>3, <1>4, <1>5 DEF Next, IInv, Rest

\* A queued removal names a session its dispatcher has attached, whichever threads
\* queue removals and in whatever order.
THEOREM RemovalBehindAdd == ASSUME \A s, t \in Servers : s = t PROVE Spec => []RemovalFollowsAdd
<1>1. IInv => RemovalFollowsAdd
  BY DEF IInv, Queues, EntryOk, RemoveOk, Removable, RemovalFollowsAdd
<1> QED
  BY InvInit, InvStep, <1>1, PTL DEF Spec

-----------------------------------------------------------------------------
(* The server implements SessionLife.                                        *)

PhaseMap == [c \in Conns |-> Phase(c)]

\* Steps that leave the sessions and their marks alone are invisible.
LEMMA PhasesStay ==
  ASSUME UNCHANGED <<id, sessions, bev>>
  PROVE  PhaseMap' = PhaseMap
  BY DEF PhaseMap, Phase, Home

\* A step that changes one connection's phase only is the move of that connection.
LEMMA OnePhase ==
  ASSUME NEW c \in Conns, \A e \in Conns : e # c => Phase(e)' = Phase(e), NEW p, Phase(c)' = p
  PROVE  PhaseMap' = [PhaseMap EXCEPT ![c] = p]
  BY DEF PhaseMap

\* Numbering a connection moves its home, before it has one that counts.
LEMMA LifeAccept ==
  ASSUME IInv, NEW s \in Servers, AcceptCallback(s)
  PROVE  PhaseMap' = PhaseMap /\ dropped' = dropped
<1>1. CASE Accept(s) \/ AcceptPush(s)
  BY <1>1, PhasesStay DEF Accept, AcceptPush
<1>2. CASE AcceptNumber(s)
  <2>1. /\ id[work[Master(s)].conn] = 0 /\ pc[Master(s)] = "number"
        /\ id' = [id EXCEPT ![work[Master(s)].conn] = work[Master(s)].gen + 1]
        /\ UNCHANGED <<sessions, bev, dropped>>
    BY <1>2 DEF AcceptNumber, IInv, Numbered
  <2>2. \A e \in Conns : bev[e] # "none" => id'[e] = id[e]
    BY <2>1 DEF IInv, Numbered, TInv, TypeOK
  <2>3. \A e \in Conns : Phase(e)' = Phase(e)
    BY <2>1, <2>2 DEF Phase, Home
  <2> QED
    BY <2>1, <2>3 DEF PhaseMap
<1> QED
  BY <1>1, <1>2 DEF AcceptCallback

LEMMA LifeFrameAttach ==
  ASSUME IInv, NEW d \in Disps, FrameAttach(d)
  PROVE  Life!Next
<1> DEFINE c == Head(actions[d]).sock
           n == Head(actions[d]).id
<1>1. /\ actions[d] # <<>> /\ c # None
      /\ bev' = [bev EXCEPT ![c] = "on"]
      /\ sessions' = [sessions EXCEPT ![d] = Erased(@, n) \cup {c}]
      /\ dropped' \in {dropped, dropped \cup {c}}
      /\ UNCHANGED id
  BY DEF FrameAttach
<1>2. c \in Conns /\ n = id[c] /\ n # 0 /\ bev[c] = "none" /\ Home(c) = d
  BY <1>1, HeadIsDue DEF EntryOk, AddOk
<1> HIDE DEF c, n
<1>3. /\ sessions'[d] = sessions[d] \cup {c} /\ \A e \in Disps : e # d => sessions'[e] = sessions[e]
      /\ bev'[c] = "on" /\ \A e \in Conns : e # c => bev'[e] = bev[e]
  BY <1>1, <1>2, AddedOnly DEF IInv, TInv, TypeOK
<1>4. \A e \in Conns : e # c => Phase(e)' = Phase(e)
  BY <1>1, <1>3 DEF Phase, Home, IInv, Maps
<1>5. \A e \in Conns : e = c => Phase(e) = "waiting" /\ Phase(e)' = "serving"
  BY <1>1, <1>2, <1>3 DEF Phase, Home
<1>6. PICK e \in Conns : e = c
  BY <1>2
<1>7. PhaseMap' = [PhaseMap EXCEPT ![e] = "serving"]
  BY <1>4, <1>5, <1>6, OnePhase
<1> QED
  BY <1>1, <1>5, <1>6, <1>7 DEF PhaseMap, Life!Next, Life!Serve, Life!Moves

LEMMA LifeFrameAttachFails ==
  ASSUME IInv, NEW d \in Disps, FrameAttachFails(d)
  PROVE  Life!Next
<1> DEFINE c == Head(actions[d]).sock
<1>1. /\ actions[d] # <<>> /\ c # None
      /\ bev' = [bev EXCEPT ![c] = "failed"]
      /\ UNCHANGED <<id, sessions, dropped>>
  BY DEF FrameAttachFails
<1>2. c \in Conns /\ bev[c] = "none" /\ Home(c) = d
  BY <1>1, HeadIsDue DEF EntryOk, AddOk
<1>3. c \notin sessions[d]
  BY <1>2 DEF IInv, Maps, Attached
<1> HIDE DEF c
<1>4. bev'[c] = "failed" /\ \A e \in Conns : e # c => bev'[e] = bev[e]
  BY <1>1, <1>2 DEF IInv, TInv, TypeOK
<1>5. \A e \in Conns : e # c => Phase(e)' = Phase(e)
  BY <1>1, <1>4 DEF Phase, Home
<1>6. \A e \in Conns : e = c => Phase(e) = "waiting" /\ Phase(e)' = "gone"
  BY <1>1, <1>2, <1>3, <1>4 DEF Phase, Home
<1>7. PICK e \in Conns : e = c
  BY <1>2
<1>8. PhaseMap' = [PhaseMap EXCEPT ![e] = "gone"]
  BY <1>5, <1>6, <1>7, OnePhase
<1> QED
  BY <1>1, <1>6, <1>7, <1>8 DEF PhaseMap, Life!Next, Life!Refuse, Life!Moves

\* A removal takes the session it names, if that is still in the map, and no other.
LEMMA LifeFrameErase ==
  ASSUME IInv, NEW d \in Disps, FrameErase(d)
  PROVE  Life!Next \/ (PhaseMap' = PhaseMap /\ dropped' = dropped)
<1>1. /\ actions[d] # <<>> /\ Head(actions[d]).sock = None
      /\ sessions' = [sessions EXCEPT ![d] = Erased(@, Head(actions[d]).id)]
      /\ UNCHANGED <<id, bev, dropped>>
  BY DEF FrameErase
<1>2. PICK c \in Conns : id[c] = Head(actions[d]).id /\ Home(c) = d /\ Removable(c)
  BY <1>1, HeadIsDue DEF EntryOk, RemoveOk
<1>3. id[c] # 0 /\ bev[c] # "none"
  BY <1>2 DEF IInv, Numbered, Removable
<1>4. sessions'[d] = sessions[d] \ {c} /\ \A e \in Disps : e # d => sessions'[e] = sessions[e]
  <2>1. \A x \in sessions[d] : x \in Conns
    BY DEF IInv, TInv, TypeOK
  <2>2. Erased(sessions[d], id[c]) = sessions[d] \ {c}
    BY <1>3, <2>1 DEF Erased, IInv, UniqueIds
  <2> QED
    BY <1>1, <1>2, <2>2 DEF IInv, TInv, TypeOK
<1>5. \A e \in Conns : e # c => Phase(e)' = Phase(e)
  BY <1>1, <1>4 DEF Phase, Home, IInv, Maps
<1>6. Phase(c)' = "gone"
  BY <1>1, <1>2, <1>3, <1>4 DEF Phase, Home
<1>7. PhaseMap' = [PhaseMap EXCEPT ![c] = "gone"]
  BY <1>5, <1>6, OnePhase
<1>8. CASE c \notin sessions[d]
  <2>1. Phase(c) = "gone"
    BY <1>2, <1>3, <1>8 DEF Phase
  <2> QED
    BY <1>1, <1>7, <2>1 DEF PhaseMap
<1>9. CASE c \in sessions[d] /\ bev[c] = "off"
  <2>1. Phase(c) = "leaving"
    BY <1>2, <1>9 DEF Phase
  <2> QED
    BY <1>1, <1>7, <2>1 DEF PhaseMap, Life!Next, Life!Release, Life!Moves
<1>10. CASE c \in sessions[d] /\ bev[c] \in {"on", "closed"} /\ c \in dropped
  <2>1. Phase(c) = "serving"
    BY <1>2, <1>10 DEF Phase
  <2> QED
    BY <1>1, <1>7, <1>10, <2>1 DEF PhaseMap, Life!Next, Life!Drop, Life!Moves
<1> QED
  BY <1>2, <1>8, <1>9, <1>10 DEF Removable

LEMMA LifeDisp ==
  ASSUME IInv, NEW d \in Disps, DispStep(d)
  PROVE  Life!Next \/ (PhaseMap' = PhaseMap /\ dropped' = dropped)
<1>1. CASE FrameBegin(d) \/ FrameEnd(d) \/ LoopEnd(d)
  BY <1>1, PhasesStay DEF FrameBegin, FrameEnd, LoopEnd
<1>2. CASE HandleEvent(d)
  <2>1. PICK c \in Conns : bev[c] = "on" /\ bev' = [bev EXCEPT ![c] = "closed"]
    BY <1>2 DEF HandleEvent, IInv, TInv, TypeOK
  <2>2. UNCHANGED <<id, sessions, dropped>>
    BY <1>2 DEF HandleEvent
  <2>3. \A e \in Conns : Phase(e)' = Phase(e)
    BY <2>1, <2>2 DEF Phase, Home, IInv, TInv, TypeOK
  <2> QED
    BY <2>2, <2>3 DEF PhaseMap
<1>3. CASE HandleRemove(d)
  <2>1. PICK c \in Conns : bev[c] = "closed" /\ bev' = [bev EXCEPT ![c] = "off"]
    BY <1>3 DEF HandleRemove, IInv, TInv, Busy, Maps
  <2>2. UNCHANGED <<id, sessions, dropped>>
    BY <1>3 DEF HandleRemove
  <2>3. bev'[c] = "off" /\ \A e \in Conns : e # c => bev'[e] = bev[e]
    BY <2>1 DEF IInv, TInv, TypeOK
  <2>4. \A e \in Conns : e # c => Phase(e)' = Phase(e)
    BY <2>2, <2>3 DEF Phase, Home
  <2>5. CASE c \in sessions[Home(c)]
    <3>1. Phase(c) = "serving" /\ Phase(c)' = "leaving"
      BY <2>1, <2>2, <2>3, <2>5 DEF Phase, Home
    <3>2. PhaseMap' = [PhaseMap EXCEPT ![c] = "leaving"]
      BY <2>4, <3>1, OnePhase
    <3> QED
      BY <2>2, <3>1, <3>2 DEF PhaseMap, Life!Next, Life!Depart, Life!Moves
  <2>6. CASE c \notin sessions[Home(c)]
    <3>1. Phase(c)' = Phase(c)
      BY <2>1, <2>2, <2>3, <2>6 DEF Phase, Home
    <3> QED
      BY <2>2, <2>4, <3>1 DEF PhaseMap
  <2> QED
    BY <2>5, <2>6
<1> QED
  BY <1>1, <1>2, <1>3, LifeFrameAttach, LifeFrameAttachFails, LifeFrameErase DEF DispStep, OnFrame

LEMMA LifeUser ==
  ASSUME IInv, NEW u \in Users, User(u)
  PROVE  Life!Next \/ (PhaseMap' = PhaseMap /\ dropped' = dropped)
<1>1. CASE UserGets(u) \/ UserReleases(u) \/ UserCloses(u)
  BY <1>1, PhasesStay DEF UserGets, UserReleases, UserCloses
<1>2. CASE UserRemoves(u)
  <2>1. PICK c \in Conns : c = ref[u]
    BY <1>2 DEF UserRemoves, IInv, TInv, TypeOK
  <2>2. /\ UNCHANGED <<id, sessions, bev>> /\ dropped' = dropped \cup {c} /\ Attached(c)
    BY <1>2, <2>1 DEF UserRemoves, IInv, Maps
  <2>3. PhaseMap' = PhaseMap /\ PhaseMap[c] # "waiting"
    BY <2>2, PhasesStay DEF PhaseMap, Phase, Attached
  <2> QED
    BY <2>2, <2>3 DEF PhaseMap, Life!Next, Life!Ask
<1> QED
  BY <1>1, <1>2 DEF User

LEMMA LifeStep == IInv /\ [Next]_vars => [Life!Next]_(Life!vars)
<1> SUFFICES ASSUME IInv, [Next]_vars
             PROVE  Life!Next \/ (PhaseMap' = PhaseMap /\ dropped' = dropped)
  BY DEF Life!vars, PhaseMap
<1>1. CASE \/ \E s \in Servers : Stop(s)
           \/ \E c \in Conns : PeerCloses(c)
           \/ UNCHANGED vars
  <2>1. UNCHANGED <<id, sessions, bev>> /\ dropped' = dropped
    BY <1>1 DEF Stop, PeerCloses, vars
  <2> QED
    BY <2>1, PhasesStay
<1> QED
  BY <1>1, LifeAccept, LifeDisp, LifeUser DEF Next

LEMMA LifeInit == Init => Life!Init
  BY DEF Init, Life!Init, Phase

\* A TcpServer gives every connection one life: attached once, in the map until it
\* was disconnected or the application asked for its removal, then gone for good.
THEOREM RefinesLife == ASSUME \A s, t \in Servers : s = t PROVE Spec => LivesOnce
  BY InvInit, InvStep, LifeInit, LifeStep, PTL DEF Spec, LivesOnce, Life!Spec
=============================================================================
