-------------------------------- MODULE Loop --------------------------------
(***************************************************************************)
(* One translib::Loop: the object's own fields, the std::thread it may     *)
(* own, the threads that call it, and the event_base under it as far as    *)
(* Loop uses it (external: registered and active events, the exit event    *)
(* of event_base_loopexit, the event_break and event_gotterm flags).       *)
(*                                                                         *)
(* A member function is cut wherever another thread can observe or change  *)
(* something between two of its steps.  pc[p] says where thread p is: a    *)
(* user thread ("idle" between calls) or a thread made by start(true).     *)
(***************************************************************************)
EXTENDS Naturals, FiniteSets

CONSTANTS Users,      \* threads of the application
          Owner,      \* the one that destroys the object
          Waiters,    \* those that call wait()
          Threads,    \* threads start(true) can make
          MaxStarts,  \* bound: start() calls that pass the status test
          MaxActive,  \* bound: callbacks active in one pass of the loop
          NULL

ASSUME LoopAssumption ==
  /\ Owner \in Users /\ Waiters \subseteq Users
  /\ Users \cap Threads = {}
  /\ NULL \notin Threads
  /\ MaxStarts \in Nat /\ MaxActive \in Nat

VARIABLES status,     \* _status
          thread,     \* _thread
          joinable,   \* the std::threads not yet joined
          made,       \* made[u]: what new std::thread gave u, before the store
          starts,     \* start() calls that passed the status test
          dtor,       \* ~Loop has begun
          base,       \* the event_base
          asked,      \* history: the arguments stop() has been called with
          fault,      \* how the process died, or "none"
          pc

vars == <<status, thread, joinable, made, starts, dtor, base, asked, fault, pc>>

-----------------------------------------------------------------------------
(* Types                                                                    *)

Procs == Users \cup Threads

InLoop == {"enter", "top", "proc"}                \* _run, before the loop returns
InRun  == {"run", "leave"} \cup InLoop            \* _run as a whole
UserPC == {"idle", "start", "store", "exit", "break", "join", "dtor.stop",
           "dtor.wait", "dtor.delete", "dtor.free", "gone", "dead"} \cup InRun
ThreadPC == {"unborn", "exited", "dead"} \cup InRun

Status == {"Init", "Running", "Finished"}

\* events: something is registered; active: callbacks waiting to be run in this
\* pass; exit: the event of event_base_loopexit is queued; term, brk: the flags
\* event_gotterm and event_break; running: a thread is inside event_base_loop.
Base == [events: BOOLEAN, active: 0..MaxActive, exit: BOOLEAN, term: BOOLEAN,
         brk: BOOLEAN, running: BOOLEAN, freed: BOOLEAN]

TypeOK == /\ status \in Status
          /\ thread \in Threads \cup {NULL}
          /\ joinable \subseteq Threads
          /\ made \in [Users -> Threads \cup {NULL}]
          /\ starts \in 0..MaxStarts
          /\ dtor \in BOOLEAN
          /\ base \in Base
          /\ asked \subseteq BOOLEAN
          /\ fault \in {"none", "join", "terminate"}
          /\ pc \in [Procs -> UserPC \cup ThreadPC]

Init == /\ status = "Init" /\ thread = NULL /\ joinable = {}
        /\ made = [u \in Users |-> NULL]
        /\ starts = 0 /\ dtor = FALSE /\ asked = {} /\ fault = "none"
        /\ base = [events |-> FALSE, active |-> 0, exit |-> FALSE, term |-> FALSE,
                   brk |-> FALSE, running |-> FALSE, freed |-> FALSE]
        /\ pc = [p \in Procs |-> IF p \in Users THEN "idle" ELSE "unborn"]

-----------------------------------------------------------------------------
(* Helpers                                                                  *)

\* A user calls only while it is in no other call and the object is alive.
CanCall(u) == pc[u] = "idle" /\ ~dtor

\* Where a member function returns to: ~Loop calls stop() and wait() too.
Back(phase) == IF dtor THEN phase ELSE "idle"

Goto(p, l) == pc' = [pc EXCEPT ![p] = l]

\* The process dies, and all its threads with it.
Die(why) == fault' = why /\ pc' = [p \in Procs |-> "dead"]

\* Mutant: the two arms of the conditional of stop() exchanged.
EndLoopSwapped(b, waiting) == IF waiting THEN [b EXCEPT !.brk = TRUE]
                                         ELSE [b EXCEPT !.exit = TRUE]

\* event_base_loopexit(_base, NULL) or event_base_loopbreak(_base).
EndLoop(b, waiting) == IF waiting THEN [b EXCEPT !.exit = TRUE]
                                  ELSE [b EXCEPT !.brk = TRUE]

\* event_base_loop goes on while this holds; otherwise it returns.
KeepsLooping(b) == ~b.term /\ ~b.brk /\ (b.events \/ b.exit \/ b.active > 0)

-----------------------------------------------------------------------------
(* start(newThread)                                                         *)

\* Lines 98-114: the status test and onBeforeStart; a call that is refused by
\* either returns false and changes nothing.  newThread = false calls _run here.
StartCheck(u) ==
  /\ CanCall(u) /\ starts < MaxStarts
  /\ status = "Init"
  /\ starts' = starts + 1
  /\ \E newThread \in BOOLEAN : Goto(u, IF newThread THEN "start" ELSE "run")
  /\ UNCHANGED <<status, thread, joinable, made, dtor, base, asked, fault>>

\* new std::thread(...): the thread exists, and may run, before _thread is set.
StartSpawn(u) ==
  /\ pc[u] = "start"
  /\ \E t \in Threads :
       /\ pc[t] = "unborn"
       /\ made' = [made EXCEPT ![u] = t]
       /\ joinable' = joinable \cup {t}
       /\ pc' = [pc EXCEPT ![u] = "store", ![t] = "run"]
  /\ UNCHANGED <<status, thread, starts, dtor, base, asked, fault>>

StartStore(u) ==
  /\ pc[u] = "store"
  /\ thread' = made[u]
  /\ Goto(u, "idle")
  /\ UNCHANGED <<status, joinable, made, starts, dtor, base, asked, fault>>

-----------------------------------------------------------------------------
(* _run and event_base_loop, by whichever thread is in it                   *)

\* onBeforeLoop may register events (FrameLoop starts its frame timer there).
RunBegin(p) ==
  /\ pc[p] = "run"
  /\ status' = "Running"
  /\ \E e \in BOOLEAN : base' = [base EXCEPT !.events = @ \/ e]
  /\ Goto(p, "enter")
  /\ UNCHANGED <<thread, joinable, made, starts, dtor, asked, fault>>

\* Mutant: a stop asked for before the loop is entered is forgotten.
LoopEnterForgets(p) ==
  /\ pc[p] = "enter"
  /\ base' = [base EXCEPT !.running = TRUE, !.term = FALSE, !.brk = FALSE, !.exit = FALSE]
  /\ Goto(p, "top")
  /\ UNCHANGED <<status, thread, joinable, made, starts, dtor, asked, fault>>

\* Entering clears both flags.  Libevent refuses a second thread: it returns -1.
LoopEnter(p) ==
  /\ pc[p] = "enter"
  /\ IF base.running
     THEN Goto(p, "leave") /\ UNCHANGED base
     ELSE /\ base' = [base EXCEPT !.running = TRUE, !.term = FALSE, !.brk = FALSE]
          /\ Goto(p, "top")
  /\ UNCHANGED <<status, thread, joinable, made, starts, dtor, asked, fault>>

\* Mutant: callbacks are run although none is active.
LoopDispatchNone(p) ==
  /\ pc[p] = "top" /\ KeepsLooping(base)
  /\ base' = [base EXCEPT !.term = base.exit, !.exit = FALSE]
  /\ Goto(p, "proc")
  /\ UNCHANGED <<status, thread, joinable, made, starts, dtor, asked, fault>>

\* One pass: wait for events and make n callbacks active; the exit event, if it
\* is queued, runs in the same pass.
LoopDispatch(p) ==
  /\ pc[p] = "top" /\ KeepsLooping(base)
  /\ \E n \in base.active..MaxActive :
       /\ n > base.active => base.events
       /\ n > 0 \/ base.exit
       /\ base' = [base EXCEPT !.active = n, !.term = base.exit, !.exit = FALSE]
       /\ Goto(p, IF n = 0 THEN "top" ELSE "proc")
  /\ UNCHANGED <<status, thread, joinable, made, starts, dtor, asked, fault>>

\* event_process_active runs an application callback, which may register or
\* delete events or call stop(waiting); event_break is looked at after each.
LoopCallback(p) ==
  /\ pc[p] = "proc"
  /\ LET after == [base EXCEPT !.active = @ - 1]
     IN  \/ /\ \E e \in BOOLEAN : base' = [after EXCEPT !.events = e]
            /\ UNCHANGED asked
         \/ \E waiting \in BOOLEAN :
              /\ status # "Finished"
              /\ base' = EndLoop(after, waiting)
              /\ asked' = asked \cup {waiting}
  /\ Goto(p, IF base'.active = 0 \/ base'.brk THEN "top" ELSE "proc")
  /\ UNCHANGED <<status, thread, joinable, made, starts, dtor, fault>>

LoopReturn(p) ==
  /\ pc[p] = "top" /\ ~KeepsLooping(base)
  /\ base' = [base EXCEPT !.running = FALSE]
  /\ Goto(p, "leave")
  /\ UNCHANGED <<status, thread, joinable, made, starts, dtor, asked, fault>>

\* _status = StatusFinished; a thread of its own ends, an inline start() returns.
RunEnd(p) ==
  /\ pc[p] = "leave"
  /\ status' = "Finished"
  /\ Goto(p, IF p \in Threads THEN "exited" ELSE "idle")
  /\ UNCHANGED <<thread, joinable, made, starts, dtor, base, asked, fault>>

Run(p) == RunBegin(p) \/ LoopEnter(p) \/ LoopDispatch(p) \/ LoopCallback(p)
            \/ LoopReturn(p) \/ RunEnd(p)

-----------------------------------------------------------------------------
(* stop(waiting), wait(), and events registered from outside the loop       *)

\* Mutant: stop() defaults to waiting = false, and ~Loop breaks the loop.
StopCheckBreaks(u) ==
  /\ CanCall(u) \/ pc[u] = "dtor.stop"
  /\ IF status = "Finished"
     THEN Goto(u, Back("dtor.wait"))
     ELSE Goto(u, "break") \/ (~dtor /\ Goto(u, "exit"))
  /\ UNCHANGED <<status, thread, joinable, made, starts, dtor, base, asked, fault>>

\* ~Loop calls stop() with the default, waiting = true.
StopCheck(u) ==
  /\ CanCall(u) \/ pc[u] = "dtor.stop"
  /\ IF status = "Finished"
     THEN Goto(u, Back("dtor.wait"))
     ELSE Goto(u, "exit") \/ (~dtor /\ Goto(u, "break"))
  /\ UNCHANGED <<status, thread, joinable, made, starts, dtor, base, asked, fault>>

StopAct(u) ==
  /\ pc[u] \in {"exit", "break"}
  /\ base' = EndLoop(base, pc[u] = "exit")
  /\ asked' = asked \cup {pc[u] = "exit"}
  /\ Goto(u, Back("dtor.wait"))
  /\ UNCHANGED <<status, thread, joinable, made, starts, dtor, fault>>

WaitCheck(u) ==
  /\ (CanCall(u) /\ u \in Waiters) \/ pc[u] = "dtor.wait"
  /\ Goto(u, IF thread # NULL /\ status # "Finished" THEN "join" ELSE Back("dtor.delete"))
  /\ UNCHANGED <<status, thread, joinable, made, starts, dtor, base, asked, fault>>

\* Mutant: wait() detaches the thread instead of joining it.
WaitDetach(u) ==
  /\ pc[u] = "join"
  /\ joinable' = joinable \ {thread}
  /\ Goto(u, Back("dtor.delete"))
  /\ UNCHANGED <<status, thread, made, starts, dtor, base, asked, fault>>

\* std::thread::join blocks until the thread has ended; of a thread that is no
\* longer joinable it throws std::system_error.
WaitJoin(u) ==
  /\ pc[u] = "join"
  /\ IF thread \in joinable
     THEN /\ pc[thread] = "exited"
          /\ joinable' = joinable \ {thread}
          /\ Goto(u, Back("dtor.delete"))
          /\ UNCHANGED fault
     ELSE Die("join") /\ UNCHANGED joinable
  /\ UNCHANGED <<status, thread, made, starts, dtor, base, asked>>

UserEvents(u) ==
  /\ CanCall(u)
  /\ \E e \in BOOLEAN : base' = [base EXCEPT !.events = e]
  /\ UNCHANGED <<status, thread, joinable, made, starts, dtor, asked, fault, pc>>

-----------------------------------------------------------------------------
(* ~Loop: stop(), wait(), delete _thread, event_base_free                   *)

\* Mutant: ~Loop frees the event_base without stop() and wait().
DtorAtOnce ==
  /\ ~dtor /\ \A u \in Users : pc[u] = "idle"
  /\ dtor' = TRUE
  /\ Goto(Owner, "dtor.free")
  /\ UNCHANGED <<status, thread, joinable, made, starts, base, asked, fault>>

\* The owner destroys the object when no user is in a call of it.
DtorBegin ==
  /\ ~dtor /\ \A u \in Users : pc[u] = "idle"
  /\ dtor' = TRUE
  /\ Goto(Owner, IF thread # NULL THEN "dtor.stop" ELSE "dtor.free")
  /\ UNCHANGED <<status, thread, joinable, made, starts, base, asked, fault>>

\* Deleting a std::thread that is still joinable calls std::terminate.
DtorDelete ==
  /\ pc[Owner] = "dtor.delete"
  /\ IF thread \in joinable
     THEN Die("terminate")
     ELSE Goto(Owner, "dtor.free") /\ UNCHANGED fault
  /\ UNCHANGED <<status, thread, joinable, made, starts, dtor, base, asked>>

DtorFree ==
  /\ pc[Owner] = "dtor.free"
  /\ base' = [base EXCEPT !.freed = TRUE]
  /\ Goto(Owner, "gone")
  /\ UNCHANGED <<status, thread, joinable, made, starts, dtor, asked, fault>>

-----------------------------------------------------------------------------
\* What a user does of its own accord, and what it does once it is in a call.
Call(u) == StartCheck(u) \/ StopCheck(u) \/ WaitCheck(u) \/ UserEvents(u)
InCall(u) == StartSpawn(u) \/ StartStore(u) \/ StopAct(u) \/ WaitJoin(u)
Dtor == DtorBegin \/ DtorDelete \/ DtorFree

Next == \/ \E u \in Users : Call(u) \/ InCall(u)
        \/ \E p \in Procs : Run(p)
        \/ Dtor

Spec == Init /\ [][Next]_vars

\* A thread inside _run, or in the middle of a call or of ~Loop, goes on when it
\* is not blocked: callbacks return, and the system schedules every thread.
Fairness == /\ \A p \in Procs : WF_vars(Run(p))
            /\ \A u \in Users : WF_vars(InCall(u))
            /\ WF_vars(dtor /\ (StopCheck(Owner) \/ WaitCheck(Owner) \/ DtorDelete \/ DtorFree))

FairSpec == Spec /\ Fairness

-----------------------------------------------------------------------------
(* Properties.  MaxStarts = 1 and one waiter, the owner, is the use of the  *)
(* class under which they hold; LoopMisuse.cfg shows start() called twice.  *)

\* The threads that execute event_base_loop or have yet to report its end.
Inside == {p \in Procs : pc[p] \in InLoop \cup {"leave"}}

Promise == INSTANCE LoopPromise
             WITH phase <- status, inside <- Inside, freed <- base.freed

\* loop.h:36: "event loop is sigle thread".  _run's writes of _status bracket
\* one execution of the loop, by one thread, and event_base_free comes after it.
KeepsPromise == Promise!Spec

\* loop.h:89-91, stop(): "waiting: if call the active callback before exit".  The
\* loop ends with active callbacks not called only if some stop(false) was made.
ActiveCallbacksCalled ==
  status = "Finished" /\ base.active > 0 => FALSE \in asked

\* wait() that joined returns, to ~Loop or to its caller, only when _run is over.
WaitMeansFinished ==
  [][\A u \in Users : pc[u] = "join" /\ pc'[u] \notin {"join", "dead"} => status' = "Finished"]_vars

\* The std::thread object is deleted, and the base freed, only after nobody can
\* reach them: no thread made by start() is alive once ~Loop is past the delete.
NobodyLeftAtFree ==
  pc[Owner] \in {"dtor.free", "gone"} => \A p \in Procs : pc[p] \notin InRun

\* stop(true) (loop.cpp:135) is never lost, not even when it comes before the
\* loop is entered: a queued exit event ends the loop that runs or will run.
ExitNotLost == (base.exit /\ status = "Running") ~> (status = "Finished")

\* ~Loop (loop.cpp:70-94) does not hang in wait(): its stop() ends the loop.
DtorEnds == dtor ~> (base.freed \/ fault # "none")

\* loop.h:36: "if there is no event registered, event will stop auto".  A loop
\* that does so can be destroyed: ~Loop never deletes a joinable std::thread.
DtorNeverTerminates == fault # "terminate"

\* loop.h:36: "this class is thread safe, but event loop is sigle thread".
\* status() never says Finished while a thread is still inside the loop.
FinishedMeansOut == status = "Finished" => Inside = {}
=============================================================================
