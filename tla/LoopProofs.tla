----------------------------- MODULE LoopProofs -----------------------------
(***************************************************************************)
(* Proofs about Loop, for any sets of user threads and of std::threads and *)
(* any bound on active callbacks.  TypeCorrect holds for any number of     *)
(* start() calls that pass the status test; the rest for one such call.    *)
(***************************************************************************)
EXTENDS Loop, TLAPS

\* At most one thread is past the re-entrance test of event_base_loop, and a
\* pass that still runs callbacks has one to run.
OneInPass ==
  /\ \A p, q \in Procs : pc[p] \in {"top", "proc"} /\ pc[q] \in {"top", "proc"} => p = q
  /\ \A p \in Procs : pc[p] \in {"top", "proc"} => base.running
  /\ \A p \in Procs : pc[p] = "proc" => base.active > 0

TInv == TypeOK /\ OneInPass

USE LoopAssumption DEF LoopAssumption

LEMMA TypeInit == Init => TInv
<1> SUFFICES ASSUME Init PROVE TInv
  OBVIOUS
<1>1. base \in Base /\ 0 \in 0..MaxStarts
  BY DEF Init, Base
<1>2. \A p \in Procs : pc[p] \in {"idle", "unborn"}
  BY DEF Init
<1>3. pc \in [Procs -> UserPC \cup ThreadPC]
  BY DEF Init, UserPC, ThreadPC
<1>4. TypeOK
  BY <1>1, <1>3 DEF Init, TypeOK, Status
<1> QED
  BY <1>2, <1>4 DEF TInv, OneInPass

\* A callback takes itself off the active ones, and leaves the loop's own flags.
LEMMA CallbackKeeps ==
  ASSUME TypeOK, NEW p \in Procs, LoopCallback(p), base.active > 0
  PROVE  /\ base' \in Base /\ asked' \subseteq BOOLEAN /\ asked \subseteq asked'
         /\ base'.active = base.active - 1
         /\ base'.running = base.running /\ base'.freed = base.freed
         /\ base'.brk => base.brk \/ FALSE \in asked'
<1> DEFINE after == [base EXCEPT !.active = @ - 1]
<1>1. /\ after \in Base /\ after.active = base.active - 1
      /\ after.running = base.running /\ after.freed = base.freed /\ after.brk = base.brk
  BY DEF TypeOK, Base
<1>2. \/ asked' = asked /\ \E e \in BOOLEAN : base' = [after EXCEPT !.events = e]
      \/ \E w \in BOOLEAN : base' = EndLoop(after, w) /\ asked' = asked \cup {w}
  BY Zenon DEF LoopCallback
<1> HIDE DEF after
<1>3. CASE asked' = asked /\ \E e \in BOOLEAN : base' = [after EXCEPT !.events = e]
  BY <1>1, <1>3 DEF TypeOK, Base
<1>4. CASE \E w \in BOOLEAN : base' = EndLoop(after, w) /\ asked' = asked \cup {w}
  BY <1>1, <1>4 DEF TypeOK, Base, EndLoop
<1> QED
  BY <1>2, <1>3, <1>4

LEMMA TypeStep == TInv /\ [Next]_vars => TInv'
<1> SUFFICES ASSUME TInv, [Next]_vars PROVE TInv'
  OBVIOUS
<1> USE DEF TInv, TypeOK, OneInPass, Base, Procs, Goto, EndLoop
<1>0. \A l \in UserPC \cup ThreadPC : \A p \in Procs :
        [pc EXCEPT ![p] = l] \in [Procs -> UserPC \cup ThreadPC]
  OBVIOUS
<1>s. /\ {"idle", "start", "store", "exit", "break", "join", "dtor.stop", "dtor.wait",
          "dtor.delete", "dtor.free", "gone", "run", "leave", "enter", "top", "proc",
          "unborn", "exited", "dead"} \subseteq UserPC \cup ThreadPC
      /\ {"Init", "Running", "Finished"} = Status
  BY DEF UserPC, ThreadPC, InRun, InLoop, Status
<1>1. ASSUME NEW u \in Users, StartCheck(u) PROVE TInv'
  BY <1>1, <1>0, <1>s DEF StartCheck, CanCall
<1>2. ASSUME NEW u \in Users, StartSpawn(u) PROVE TInv'
  BY <1>2, <1>0, <1>s DEF StartSpawn
<1>3. ASSUME NEW u \in Users, StartStore(u) PROVE TInv'
  BY <1>3, <1>0, <1>s DEF StartStore
<1>4. ASSUME NEW u \in Users, StopCheck(u) PROVE TInv'
  BY <1>4, <1>0, <1>s DEF StopCheck, CanCall, Back
<1>5. ASSUME NEW u \in Users, StopAct(u) PROVE TInv'
  BY <1>5, <1>0, <1>s DEF StopAct, Back
<1>6. ASSUME NEW u \in Users, WaitCheck(u) PROVE TInv'
  BY <1>6, <1>0, <1>s DEF WaitCheck, CanCall, Back
<1>7. ASSUME NEW u \in Users, WaitJoin(u) PROVE TInv'
  BY <1>7, <1>0, <1>s DEF WaitJoin, Back, Die
<1>8. ASSUME NEW u \in Users, UserEvents(u) PROVE TInv'
  BY <1>8 DEF UserEvents
<1>9. ASSUME NEW p \in Procs, RunBegin(p) PROVE TInv'
  BY <1>9, <1>0, <1>s DEF RunBegin
<1>10. ASSUME NEW p \in Procs, LoopEnter(p) PROVE TInv'
  <2>1. CASE base.running
    BY <1>10, <1>0, <1>s, <2>1 DEF LoopEnter
  <2>2. CASE ~base.running
    <3>1. /\ base' \in Base /\ base'.running /\ base'.active = base.active
          /\ pc' = [pc EXCEPT ![p] = "top"]
      BY <1>10, <2>2 DEF LoopEnter
    <3>2. \A q \in Procs : pc'[q] \in {"top", "proc"} => q = p
      BY <2>2, <3>1
    <3> QED
      BY <1>10, <1>0, <1>s, <3>1, <3>2 DEF LoopEnter
  <2> QED
    BY <2>1, <2>2
<1>11. ASSUME NEW p \in Procs, LoopDispatch(p) PROVE TInv'
  <2> PICK n \in base.active..MaxActive :
        /\ base' = [base EXCEPT !.active = n, !.term = base.exit, !.exit = FALSE]
        /\ pc' = [pc EXCEPT ![p] = IF n = 0 THEN "top" ELSE "proc"]
    BY <1>11 DEF LoopDispatch
  <2>1. base.active \in 0..MaxActive /\ n \in 0..MaxActive
    OBVIOUS
  <2>2. base' \in Base /\ base'.active = n /\ base'.running = base.running
    BY <2>1
  <2>3. pc' \in [Procs -> UserPC \cup ThreadPC]
    BY <1>0, <1>s
  <2>4. /\ pc[p] = "top" /\ base.running
        /\ \A q \in Procs : q # p => pc'[q] \notin {"top", "proc"}
    BY <1>11 DEF LoopDispatch
  <2>5. OneInPass'
    BY <2>1, <2>2, <2>3, <2>4
  <2> QED
    BY <1>11, <2>2, <2>3, <2>5 DEF LoopDispatch
<1>12. ASSUME NEW p \in Procs, LoopCallback(p) PROVE TInv'
  <2>0. pc[p] = "proc"
    BY <1>12 DEF LoopCallback
  <2>1. base.active \in 1..MaxActive /\ base.running
    BY <2>0
  <2>3. pc' = [pc EXCEPT ![p] = IF base'.active = 0 \/ base'.brk THEN "top" ELSE "proc"]
    BY <1>12 DEF LoopCallback
  <2>a. base.active > 0
    BY <2>1
  <2>4. base' \in Base /\ base'.running /\ asked' \subseteq BOOLEAN
    BY <1>12, <2>1, <2>a, CallbackKeeps, Zenon
  <2>5. base'.active \in 0..MaxActive
    BY <2>4
  <2>6. pc' \in [Procs -> UserPC \cup ThreadPC]
    BY <2>3, <1>0, <1>s
  <2>7. \A q \in Procs : q # p => pc'[q] \notin {"top", "proc"}
    BY <2>0, <2>3
  <2>8. pc'[p] = "proc" => base'.active > 0
    <3>1. pc'[p] = IF base'.active = 0 \/ base'.brk THEN "top" ELSE "proc"
      BY <2>3
    <3> QED
      BY <2>5, <3>1
  <2>9. OneInPass'
    BY <2>4, <2>7, <2>8
  <2> QED
    BY <1>12, <2>4, <2>6, <2>9 DEF LoopCallback
<1>13. ASSUME NEW p \in Procs, LoopReturn(p) PROVE TInv'
  BY <1>13, <1>0, <1>s DEF LoopReturn
<1>14. ASSUME NEW p \in Procs, RunEnd(p) PROVE TInv'
  BY <1>14, <1>0, <1>s DEF RunEnd
<1>15. CASE DtorBegin
  BY <1>15, <1>0, <1>s DEF DtorBegin
<1>16. CASE DtorDelete
  BY <1>16, <1>0, <1>s DEF DtorDelete, Die
<1>17. CASE DtorFree
  BY <1>17, <1>0, <1>s DEF DtorFree
<1>18. CASE UNCHANGED vars
  BY <1>18 DEF vars
<1> QED
  BY <1>1, <1>2, <1>3, <1>4, <1>5, <1>6, <1>7, <1>8, <1>9, <1>10, <1>11, <1>12, <1>13,
     <1>14, <1>15, <1>16, <1>17, <1>18 DEF Next, Call, InCall, Dtor, Run

\* Type correctness of every field and program counter, for any discipline of
\* the callers: in particular no callback is run that is not active.
THEOREM TypeCorrect == Spec => []TypeOK
<1>1. TInv => TypeOK
  BY DEF TInv
<1> QED
  BY TypeInit, TypeStep, <1>1, PTL DEF Spec

-----------------------------------------------------------------------------
(***************************************************************************)
(* One start().  The inductive invariant says where the one thread that    *)
(* may run _run is (Holds), that status reports it, that the std::thread   *)
(* made for it stays joinable until it has ended, and that ~Loop works on  *)
(* its own and passes the delete only when that thread is gone.            *)
(***************************************************************************)
Holds(p) == pc[p] \in InRun \cup {"start"}
DtorPC == {"dtor.stop", "dtor.wait", "dtor.delete", "dtor.free", "gone"}

\* A user thread in a start() that passed the status test.
Starting == {"start", "store"} \cup InRun

OneStart ==
  /\ starts = 0 => /\ thread = NULL
                   /\ \A p \in Procs : ~Holds(p) /\ pc[p] \notin {"store", "exited"}
  /\ \A p, q \in Procs : Holds(p) /\ Holds(q) => p = q
  /\ \A u, v \in Users : pc[u] \in Starting /\ pc[v] \in Starting => u = v

StatusReports ==
  \A p \in Procs : /\ pc[p] \in {"start", "run"} => status = "Init"
                   /\ pc[p] \in InLoop \cup {"leave"} => status = "Running"
                   /\ pc[p] = "exited" => status = "Finished"

Handles ==
  /\ \A u \in Users : /\ pc[u] # "unborn" /\ pc[u] # "exited"
                      /\ pc[u] \in Starting => thread = NULL
                      /\ pc[u] = "join" => thread # NULL
  /\ \A t \in Threads : /\ pc[t] \in ThreadPC
                        /\ pc[t] \in InRun => t \in joinable
                        /\ \/ pc[t] \in {"unborn", "dead"} \/ t = thread
                           \/ \E u \in Users : pc[u] = "store" /\ made[u] = t

DtorAlone ==
  /\ \A u \in Users : pc[u] \in DtorPC => dtor /\ u = Owner
  /\ dtor => /\ pc[Owner] \in DtorPC \cup {"exit", "join", "dead"}
             /\ \A u \in Users : u # Owner => pc[u] \in {"idle", "dead"}
             /\ pc[Owner] \notin {"dtor.free", "gone", "dead"} => thread # NULL
  /\ pc[Owner] = "dtor.delete" => status = "Finished"
  /\ pc[Owner] \in {"dtor.free", "gone"} => \A p \in Procs : pc[p] \notin InRun
  /\ base.freed => pc[Owner] = "gone"

SInv == OneStart /\ StatusReports /\ Handles /\ DtorAlone
IInv == TInv /\ SInv

LEMMA OneStartInit == Init => SInv
  BY DEF Init, SInv, OneStart, StatusReports, Handles, DtorAlone, Holds, DtorPC, Procs,
         Starting, ThreadPC, InRun, InLoop

LEMMA OneStartStep ==
  ASSUME MaxStarts <= 1, IInv, [Next]_vars PROVE SInv'
<1> USE DEF IInv, TInv, TypeOK, SInv, OneStart, StatusReports, Handles, DtorAlone, Holds,
            DtorPC, Procs, Starting, ThreadPC, InRun, InLoop, Goto
<1>1. ASSUME NEW u \in Users, StartCheck(u) PROVE SInv'
  BY <1>1 DEF StartCheck, CanCall
<1>2. ASSUME NEW u \in Users, StartSpawn(u) PROVE SInv'
  BY <1>2 DEF StartSpawn
<1>3. ASSUME NEW u \in Users, StartStore(u) PROVE SInv'
  BY <1>3 DEF StartStore
<1>4. ASSUME NEW u \in Users, StopCheck(u) PROVE SInv'
  BY <1>4 DEF StopCheck, CanCall, Back
<1>5. ASSUME NEW u \in Users, StopAct(u) PROVE SInv'
  BY <1>5 DEF StopAct, Back, EndLoop
<1>6. ASSUME NEW u \in Users, WaitCheck(u) PROVE SInv'
  BY <1>6 DEF WaitCheck, CanCall, Back
<1>7. ASSUME NEW u \in Users, WaitJoin(u) PROVE SInv'
  BY <1>7 DEF WaitJoin, Back, Die
<1>8. ASSUME NEW u \in Users, UserEvents(u) PROVE SInv'
  BY <1>8 DEF UserEvents
<1>9. ASSUME NEW p \in Procs, RunBegin(p) PROVE SInv'
  BY <1>9 DEF RunBegin
<1>10. ASSUME NEW p \in Procs, LoopEnter(p) PROVE SInv'
  <2>1. /\ pc[p] = "enter" /\ base'.freed = base.freed
        /\ \E l \in {"leave", "top"} : pc' = [pc EXCEPT ![p] = l]
    <3>1. CASE base.running
      BY <1>10, <3>1 DEF LoopEnter
    <3>2. CASE ~base.running
      <4>1. base' = [base EXCEPT !.running = TRUE, !.term = FALSE, !.brk = FALSE]
        BY <1>10, <3>2, Zenon DEF LoopEnter
      <4>2. base'.freed = base.freed
        BY <4>1 DEF Base
      <4> QED
        BY <1>10, <3>2, <4>2, Zenon DEF LoopEnter
    <3> QED
      BY <3>1, <3>2
  <2> QED
    BY <1>10, <2>1 DEF LoopEnter
<1>11. ASSUME NEW p \in Procs, LoopDispatch(p) PROVE SInv'
  BY <1>11 DEF LoopDispatch
<1>12. ASSUME NEW p \in Procs, LoopCallback(p) PROVE SInv'
  <2>1. pc[p] = "proc" /\ \E l \in {"proc", "top"} : pc' = [pc EXCEPT ![p] = l]
    BY <1>12 DEF LoopCallback
  <2>2. base.active > 0
    BY <2>1 DEF OneInPass
  <2>3. base'.freed = base.freed
    BY <1>12, <2>2, CallbackKeeps, Zenon
  <2>4. UNCHANGED <<status, thread, joinable, made, starts, dtor>>
    BY <1>12 DEF LoopCallback
  <2> QED
    BY <2>1, <2>3, <2>4
<1>13. ASSUME NEW p \in Procs, LoopReturn(p) PROVE SInv'
  BY <1>13 DEF LoopReturn
<1>14. ASSUME NEW p \in Procs, RunEnd(p) PROVE SInv'
  BY <1>14 DEF RunEnd
<1>15. CASE DtorBegin
  BY <1>15 DEF DtorBegin
<1>16. CASE DtorDelete
  BY <1>16 DEF DtorDelete, Die
<1>17. CASE DtorFree
  BY <1>17 DEF DtorFree
<1>18. CASE UNCHANGED vars
  BY <1>18 DEF vars
<1> QED
  BY <1>1, <1>2, <1>3, <1>4, <1>5, <1>6, <1>7, <1>8, <1>9, <1>10, <1>11, <1>12, <1>13, <1>14, <1>15, <1>16, <1>17, <1>18 DEF Next, Call, InCall, Dtor, Run

LEMMA Invariance == ASSUME MaxStarts <= 1 PROVE Spec => []IInv
<1>1. Init => IInv
  BY TypeInit, OneStartInit DEF IInv
<1>2. IInv /\ [Next]_vars => IInv'
  BY TypeStep, OneStartStep DEF IInv
<1> QED
  BY <1>1, <1>2, PTL DEF Spec

\* join() throws, and ~Loop terminates the process, only when the loop is over.
LEMMA DiesOutside ==
  ASSUME IInv
  PROVE  /\ \A u \in Users : pc[u] = "join" /\ thread \notin joinable => Inside = {}
         /\ pc[Owner] = "dtor.delete" => Inside = {}
<1> USE DEF IInv, SInv, Handles, DtorAlone, StatusReports, Inside, Procs, InLoop, InRun
<1>1. ASSUME NEW u \in Users, pc[u] = "join", thread \notin joinable PROVE Inside = {}
  <2>1. \A v \in Users : pc[v] \notin Starting
    BY <1>1
  <2>2. \A t \in Threads : pc[t] \notin InRun
    BY <1>1, <2>1 DEF Starting
  <2> QED
    BY <2>1, <2>2 DEF Starting
<1>2. ASSUME pc[Owner] = "dtor.delete" PROVE Inside = {}
  BY <1>2
<1> QED
  BY <1>1, <1>2

\* Every action but RunBegin, RunEnd and DtorFree is a stuttering step of the promise.
Unpromised == UNCHANGED <<status, Inside, base.freed>>

LEMMA OthersStutter ==
  ASSUME IInv, [Next]_vars,
         ~DtorFree, \A p \in Procs : ~RunBegin(p) /\ ~RunEnd(p)
  PROVE  Unpromised
<1> USE DEF Unpromised, IInv, TInv, TypeOK, Base, Procs, InLoop, InRun, Goto, Inside
<1>1. ASSUME NEW u \in Users, StartCheck(u) PROVE Unpromised
  BY <1>1 DEF StartCheck, CanCall
<1>2. ASSUME NEW u \in Users, StartSpawn(u) PROVE Unpromised
  BY <1>2 DEF StartSpawn
<1>3. ASSUME NEW u \in Users, StartStore(u) PROVE Unpromised
  BY <1>3 DEF StartStore
<1>4. ASSUME NEW u \in Users, StopCheck(u) PROVE Unpromised
  BY <1>4 DEF StopCheck, CanCall, Back
<1>5. ASSUME NEW u \in Users, StopAct(u) PROVE Unpromised
  BY <1>5 DEF StopAct, Back, EndLoop
<1>6. ASSUME NEW u \in Users, WaitCheck(u) PROVE Unpromised
  BY <1>6 DEF WaitCheck, CanCall, Back
<1>7. ASSUME NEW u \in Users, WaitJoin(u) PROVE Unpromised
  <2>1. CASE thread \in joinable
    BY <1>7, <2>1 DEF WaitJoin, Back
  <2>2. CASE thread \notin joinable
    <3>1. Inside = {} /\ Die("join") /\ UNCHANGED <<status, base, asked>>
      BY <1>7, <2>2, DiesOutside DEF WaitJoin
    <3> QED
      BY <3>1 DEF Die
  <2> QED
    BY <2>1, <2>2
<1>8. ASSUME NEW u \in Users, UserEvents(u) PROVE Unpromised
  BY <1>8 DEF UserEvents
<1>9. ASSUME NEW p \in Procs, LoopEnter(p) PROVE Unpromised
  BY <1>9 DEF LoopEnter
<1>10. ASSUME NEW p \in Procs, LoopDispatch(p) PROVE Unpromised
  BY <1>10 DEF LoopDispatch
<1>11. ASSUME NEW p \in Procs, LoopCallback(p) PROVE Unpromised
  <2>1. base.active > 0
    BY <1>11 DEF LoopCallback, OneInPass
  <2>2. base'.freed = base.freed
    BY <1>11, <2>1, CallbackKeeps, Zenon
  <2>3. pc[p] = "proc" /\ \E l \in {"proc", "top"} : pc' = [pc EXCEPT ![p] = l]
    BY <1>11 DEF LoopCallback
  <2>4. status' = status
    BY <1>11 DEF LoopCallback
  <2> QED
    BY <2>2, <2>3, <2>4
<1>12. ASSUME NEW p \in Procs, LoopReturn(p) PROVE Unpromised
  BY <1>12 DEF LoopReturn
<1>13. CASE DtorBegin
  BY <1>13 DEF DtorBegin
<1>14. CASE DtorDelete
  <2>1. CASE thread \in joinable
    <3>1. Inside = {} /\ Die("terminate") /\ UNCHANGED <<status, base, asked>>
      BY <1>14, <2>1, DiesOutside DEF DtorDelete
    <3> QED
      BY <3>1 DEF Die
  <2>2. CASE thread \notin joinable
    BY <1>14, <2>2 DEF DtorDelete
  <2> QED
    BY <2>1, <2>2
<1>15. CASE UNCHANGED vars
  BY <1>15 DEF vars
<1> QED
  BY <1>1, <1>2, <1>3, <1>4, <1>5, <1>6, <1>7, <1>8, <1>9, <1>10, <1>11, <1>12, <1>13,
     <1>14, <1>15 DEF Next, Call, InCall, Dtor, Run

\* The loop keeps the promise of LoopPromise: each of its steps is a step of
\* that specification or leaves status, the threads inside and the base alone.
THEOREM RefinesPromise == ASSUME MaxStarts <= 1 PROVE Spec => KeepsPromise
<1>1. Init => Promise!Init
  BY DEF Init, Promise!Init, Inside, Procs, InLoop
<1>2. IInv /\ IInv' /\ [Next]_vars => [Promise!Next]_(Promise!vars)
  <2> SUFFICES ASSUME IInv, IInv', [Next]_vars PROVE [Promise!Next]_(Promise!vars)
    OBVIOUS
  <2>1. ASSUME NEW p \in Procs, RunBegin(p) PROVE Promise!Begin(p)
    <3> USE <2>1 DEF RunBegin, Goto, IInv, TInv, TypeOK, SInv, Procs, InRun, InLoop
    <3>1. status = "Init" /\ status' = "Running" /\ base'.freed = base.freed
      BY DEF StatusReports, Base
    <3>2. ~base.freed
      BY DEF DtorAlone, DtorPC
    <3>3. Inside' = {p}
      BY DEF Inside, StatusReports
    <3> QED
      BY <3>1, <3>2, <3>3 DEF Promise!Begin
  <2>2. ASSUME NEW p \in Procs, RunEnd(p) PROVE Promise!End(p)
    BY <2>2 DEF RunEnd, Promise!End, Inside, IInv, TInv, TypeOK, SInv, StatusReports,
                OneStart, Holds, Procs, InRun, InLoop, Goto
  <2>3. CASE DtorFree
    <3>1. Inside = {} /\ Inside' = {}
      BY <2>3 DEF DtorFree, Inside, IInv, TInv, TypeOK, SInv, DtorAlone, Procs, InRun,
                  InLoop, Goto, LoopAssumption
    <3>2. base'.freed = TRUE /\ status' = status
      BY <2>3 DEF DtorFree, IInv, TInv, TypeOK, Base
    <3> QED
      BY <3>1, <3>2 DEF Promise!Free, Promise!Next
  <2> QED
    BY <2>1, <2>2, <2>3, OthersStutter DEF Promise!Next, Promise!vars, Unpromised
<1> QED
  BY <1>1, <1>2, Invariance, PTL DEF KeepsPromise, Spec, Promise!Spec

\* Whatever the interleaving, the library and the application never reach the
\* std::thread or the event_base that ~Loop deletes.
THEOREM NobodyLeft == ASSUME MaxStarts <= 1 PROVE Spec => []NobodyLeftAtFree
<1>1. IInv => NobodyLeftAtFree
  BY DEF IInv, SInv, DtorAlone, NobodyLeftAtFree
<1> QED
  BY <1>1, Invariance, PTL

\* While nobody has made a stop(false), only a thread in its pass leaves callbacks
\* active, and event_break is clear.
Waited == \/ FALSE \in asked
          \/ ~base.brk /\ (base.active > 0 => \E p \in Procs : pc[p] = "proc")

LEMMA WaitedStep == ASSUME IInv, Waited, [Next]_vars PROVE Waited'
<1> USE DEF Waited, IInv, TInv, TypeOK, Base, Procs, InLoop, InRun, Goto
<1>1. ASSUME NEW u \in Users, StartCheck(u) PROVE Waited'
  BY <1>1 DEF StartCheck, CanCall
<1>2. ASSUME NEW u \in Users, StartSpawn(u) PROVE Waited'
  BY <1>2 DEF StartSpawn
<1>3. ASSUME NEW u \in Users, StartStore(u) PROVE Waited'
  BY <1>3 DEF StartStore
<1>4. ASSUME NEW u \in Users, StopCheck(u) PROVE Waited'
  BY <1>4 DEF StopCheck, CanCall, Back
<1>5. ASSUME NEW u \in Users, StopAct(u) PROVE Waited'
  BY <1>5 DEF StopAct, Back, EndLoop
<1>6. ASSUME NEW u \in Users, WaitCheck(u) PROVE Waited'
  BY <1>6 DEF WaitCheck, CanCall, Back
<1>7. ASSUME NEW u \in Users, WaitJoin(u) PROVE Waited'
  <2>1. CASE thread \in joinable
    BY <1>7, <2>1 DEF WaitJoin, Back
  <2>2. CASE thread \notin joinable
    <3>1. Inside = {} /\ Die("join") /\ UNCHANGED <<status, base, asked>>
      BY <1>7, <2>2, DiesOutside DEF WaitJoin
    <3> QED
      BY <3>1 DEF Die, Inside
  <2> QED
    BY <2>1, <2>2
<1>8. ASSUME NEW u \in Users, UserEvents(u) PROVE Waited'
  BY <1>8 DEF UserEvents
<1>9. ASSUME NEW p \in Procs, RunBegin(p) PROVE Waited'
  BY <1>9 DEF RunBegin
<1>10. ASSUME NEW p \in Procs, LoopEnter(p) PROVE Waited'
  BY <1>10 DEF LoopEnter
<1>11. ASSUME NEW p \in Procs, LoopDispatch(p) PROVE Waited'
  <2> PICK n \in base.active..MaxActive :
        /\ base' = [base EXCEPT !.active = n, !.term = base.exit, !.exit = FALSE]
        /\ pc' = [pc EXCEPT ![p] = IF n = 0 THEN "top" ELSE "proc"]
        /\ asked' = asked
    BY <1>11 DEF LoopDispatch
  <2>1. base'.brk = base.brk /\ base'.active = n
    OBVIOUS
  <2>2. base'.active > 0 => pc'[p] = "proc"
    BY <2>1
  <2> QED
    BY <2>1, <2>2
<1>12. ASSUME NEW p \in Procs, LoopCallback(p) PROVE Waited'
  <2>1. base.active > 0 /\ pc[p] = "proc"
    BY <1>12 DEF LoopCallback, OneInPass
  <2>2. /\ asked \subseteq asked' /\ (base'.brk => base.brk \/ FALSE \in asked')
        /\ base'.active \in 0..MaxActive
    BY <1>12, <2>1, CallbackKeeps, Zenon
  <2>3. pc'[p] = IF base'.active = 0 \/ base'.brk THEN "top" ELSE "proc"
    BY <1>12 DEF LoopCallback
  <2>4. CASE FALSE \in asked'
    BY <2>4
  <2>5. CASE FALSE \notin asked'
    <3>1. ~base'.brk
      BY <2>2, <2>5, Zenon
    <3>2. base'.active > 0 => pc'[p] = "proc"
      BY <2>2, <2>3, <3>1
    <3> QED
      BY <3>1, <3>2
  <2> QED
    BY <2>4, <2>5
<1>13. ASSUME NEW p \in Procs, LoopReturn(p) PROVE Waited'
  BY <1>13 DEF LoopReturn
<1>14. ASSUME NEW p \in Procs, RunEnd(p) PROVE Waited'
  BY <1>14 DEF RunEnd
<1>15. CASE DtorBegin
  BY <1>15 DEF DtorBegin
<1>16. CASE DtorDelete
  <2>1. CASE thread \in joinable
    <3>1. Inside = {} /\ Die("terminate") /\ UNCHANGED <<status, base, asked>>
      BY <1>16, <2>1, DiesOutside DEF DtorDelete
    <3> QED
      BY <3>1 DEF Die, Inside
  <2>2. CASE thread \notin joinable
    BY <1>16, <2>2 DEF DtorDelete
  <2> QED
    BY <2>1, <2>2
<1>17. CASE DtorFree
  BY <1>17 DEF DtorFree
<1>18. CASE UNCHANGED vars
  BY <1>18 DEF vars
<1> QED
  BY <1>1, <1>2, <1>3, <1>4, <1>5, <1>6, <1>7, <1>8, <1>9, <1>10, <1>11, <1>12, <1>13,
     <1>14, <1>15, <1>16, <1>17, <1>18 DEF Next, Call, InCall, Dtor, Run

\* stop(true) lets the active callbacks run: a loop that finished with callbacks
\* still active was told so by a stop(false).
THEOREM CallbacksCalled == ASSUME MaxStarts <= 1 PROVE Spec => []ActiveCallbacksCalled
<1>1. Init => Waited
  BY DEF Init, Waited
<1>2. IInv /\ Waited /\ [Next]_vars => Waited'
  BY WaitedStep
<1>3. IInv /\ Waited => ActiveCallbacksCalled
  BY DEF IInv, SInv, StatusReports, Waited, ActiveCallbacksCalled, InLoop
<1> QED
  BY <1>1, <1>2, <1>3, Invariance, PTL DEF Spec

\* A wait() that joined, in ~Loop or in its caller, returns to a finished loop.
THEOREM WaitIsOver == ASSUME MaxStarts <= 1 PROVE Spec => WaitMeansFinished
<1> DEFINE Returns(u) == pc[u] = "join" /\ pc'[u] \notin {"join", "dead"}
<1>1. ASSUME IInv, [Next]_vars, NEW u \in Users, Returns(u) PROVE status' = "Finished"
  <2> USE DEF IInv, TInv, TypeOK, Procs, InLoop, InRun, Goto
  <2>1. WaitJoin(u)
    BY <1>1 DEF Next, vars, Call, InCall, Dtor, Run, Die, StartCheck, StartSpawn, StartStore,
         StopCheck, StopAct, WaitCheck, WaitJoin, UserEvents, CanCall, RunBegin, LoopEnter,
         LoopDispatch, LoopCallback, LoopReturn, RunEnd, DtorBegin, DtorDelete, DtorFree
  <2>2. thread \in joinable
    BY <1>1, <2>1 DEF WaitJoin, Die
  <2>3. thread \in Procs /\ pc[thread] = "exited" /\ status' = status
    BY <1>1, <2>1, <2>2 DEF WaitJoin
  <2> QED
    BY <1>1, <2>3 DEF SInv, StatusReports
<1>2. IInv /\ [Next]_vars
        => [\A u \in Users : pc[u] = "join" /\ pc'[u] \notin {"join", "dead"} => status' = "Finished"]_vars
  BY <1>1
<1> QED
  BY <1>2, Invariance, PTL DEF Spec, WaitMeansFinished
=============================================================================
