---------------------------- MODULE TimerManager ----------------------------
(***************************************************************************)
(* The Timers of a TimerManager on one event loop.  A Timer owns at most   *)
(* one libevent event; the loop's thread runs its eventHandler, which      *)
(* counts rounds, frees the event after the last one and calls the         *)
(* application's handler.  Application threads and handlers get timers,    *)
(* start, stop and drop them, and kill them by id; the audit timer erases  *)
(* the finished ones from the manager's map.                               *)
(*                                                                         *)
(* External, as the code uses it: libevent, whose event_free waits, unless *)
(* called on the loop's thread, for the event's callback to return.        *)
(***************************************************************************)
EXTENDS Naturals, FiniteSets

CONSTANTS Timers,      \* Timer objects getTimer can make
          Users,       \* application threads
          Loop,        \* the loop's thread
          None,
          Rounds,      \* rounds a start asks for
          Forever,     \* stands for uint32_t(-1): more rounds than are ever counted
          MaxStarts,   \* starts of one timer
          Managers,    \* threads that call getTimer and killTimer
          Overtake,    \* may an event fire while the thread starting it is in startRounds?
          Restart,     \* do application threads start a timer again?
          KillAny,     \* do they stop timers that may be in their last round?
          SelfStop     \* does a callback that destroyed its own timer return -1?

ASSUME TimerAssumption ==
  /\ Forever \in Nat \ {0} /\ Rounds \subseteq 1..Forever /\ MaxStarts \in Nat
  /\ Loop \notin Users /\ None \notin Timers /\ None \notin Users \cup {Loop}
  /\ Managers \subseteq Users \cup {Loop}
  /\ {Overtake, Restart, KillAny, SelfStop} \subseteq BOOLEAN

Actors == Users \cup {Loop}
Starts == 1..MaxStarts

VARIABLES life,       \* life[t]: "unborn", "alive" or "dead"
          map,        \* t_map
          hold,       \* hold[a]: the Timer::ptr_p of thread a
          mtx,        \* who locked mtx
          event,      \* event[t]: _event, as the number of the start that made it, 0 for NULL
          heap,       \* heap[t][k]: the event of t's k-th start
          round, cur, \* _round and _curRound
          handler,    \* handler[t]: _handler
          calls,      \* history: calls of the handler since it was set
          stopped,    \* history: timers stopped since they were started
          running,    \* the timer whose event's callback the loop is running, and whether
              \* it is one that startCB started
          audit,      \* the audit timer's event, by the kind of manager: see Up
          act,        \* act[a]: what thread a is doing
          pc,         \* pc[a]: where it is
          fault       \* what undefined behaviour was reached

fields == <<event, heap, round, cur, handler>>
history == <<calls, stopped>>
shared == <<life, map, hold, mtx, audit>>
vars == <<shared, fields, history, running, act, pc, fault>>

-----------------------------------------------------------------------------
Empty == [kind |-> "empty", rounds |-> 0]     \* std::function without a target
Handlers == [kind : {"plain", "cb", "after"}, rounds : Rounds]
Acts == [timer : Timers \cup {None}, ev : 0..MaxStarts, rounds : 0..Forever,
         handler : Handlers \cup {Empty}, then : {"ready", "return", "call", "delete"},
         next : {"ready", "unlock", "dtor"}]
Idle == [timer |-> None, ev |-> 0, rounds |-> 0, handler |-> Empty, then |-> "ready",
         next |-> "ready"]
NotRunning == [timer |-> None, ev |-> 0, cb |-> FALSE]

TypeOK ==
  /\ life \in [Timers -> {"unborn", "alive", "dead"}]
  /\ map \subseteq Timers /\ hold \in [Actors -> SUBSET Timers]
  /\ mtx \in Actors \cup {None}
  /\ event \in [Timers -> 0..MaxStarts]
  /\ heap \in [Timers -> [Starts -> {"none", "idle", "once", "every", "freed"}]]
  /\ round \in [Timers -> 0..Forever] /\ cur \in [Timers -> 0..Forever + 1]
  /\ handler \in [Timers -> Handlers \cup {Empty}]
  /\ calls \in [Timers -> 0..Forever] /\ stopped \subseteq Timers
  /\ running \in [timer : Timers, ev : Starts, cb : BOOLEAN] \cup {NotRunning}
  /\ audit \in {"off", "instance", "on", "gone"}
  /\ act \in [Actors -> Acts]
  /\ pc \in [Actors -> {"poll", "ready", "return", "add", "round", "handler", "reset", "free",
                        "null", "cur", "delete", "emplace", "erase", "unlock", "count", "last",
                        "call", "audit", "dtor", "over"}]
  /\ fault \in {"none", "freedEvent", "deadTimer", "emptyHandler", "runningCallback"}

Init ==
  /\ life = [t \in Timers |-> "unborn"] /\ map = {} /\ hold = [a \in Actors |-> {}]
  /\ mtx = None
  /\ event = [t \in Timers |-> 0]
  /\ heap = [t \in Timers |-> [k \in Starts |-> "none"]]
  /\ round = [t \in Timers |-> 1] /\ cur = [t \in Timers |-> 0]
  /\ handler = [t \in Timers |-> Empty]
  /\ calls = [t \in Timers |-> 0] /\ stopped = {}
  /\ running = NotRunning
  /\ audit \in {"off", "on"}
  /\ act = [a \in Actors |-> Idle]
  /\ pc = [a \in Actors |-> IF a = Loop THEN "poll" ELSE "ready"]
  /\ fault = "none"

-----------------------------------------------------------------------------
(* Helpers                                                                   *)

Goto(a, l) == pc' = [pc EXCEPT ![a] = l]
Does(a, t, then, next) ==
  act' = [act EXCEPT ![a] = [Idle EXCEPT !.timer = t, !.then = then, !.next = next]]

\* The manager is there.  instance() makes one that is never destroyed, with a loop
\* of its own, "off" until the audit timer is added; the others are on a loop of the
\* application's.
Up == audit \in {"instance", "on"}

isFinished(t) == cur[t] >= round[t]

\* The count of a timer that runs for ever stops at the bound.
Counted(n) == IF n + 1 < Forever THEN n + 1 ELSE n

Pending(t) == \E k \in Starts : heap[t][k] \in {"once", "every"}

Made(t) == Cardinality({k \in Starts : heap[t][k] # "none"})

\* A thread is inside startRounds for t, from event_add to the last assignment.
Starting(t) == \E a \in Actors : pc[a] \in {"add", "round", "handler"} /\ act[a].timer = t

\* Undefined behaviour: what the process does then is not modelled.
Die(why) ==
  /\ fault' = why
  /\ pc' = [a \in Actors |-> "over"]
  /\ UNCHANGED <<shared, fields, history, running, act>>

\* A write to a field of t.
Writes(t, A) == IF life[t] = "dead" THEN Die("deadTimer") ELSE A

\* The loop is in a callback of t that startCB started.
InCB(t) == running.timer = t /\ running.cb

\* What application threads dare to stop: see KillAny.
Killable(t) == \/ KillAny
               \/ event[t] = 0 /\ running.timer # t
               \/ round[t] = Forever /\ handler[t].kind = "plain" /\ ~InCB(t)

Holders(t) == {a \in Actors : t \in hold[a]}
Others(a, t) == t \in map \/ Holders(t) \ {a} # {}

\* An application thread is about to take t out of the map.
Doomed(t) == audit = "gone" \/ \E u \in Users : pc[u] = "erase" /\ act[u].timer = t
-----------------------------------------------------------------------------
(* The calls of a thread: an application thread, or the loop's in a handler   *)

\* getTimer: the new Timer,
GetTimer(a) ==
  /\ pc[a] = "ready" /\ a \in Managers /\ Up
  /\ \E t \in Timers : /\ life[t] = "unborn"
                       /\ life' = [life EXCEPT ![t] = "alive"]
                       /\ hold' = [hold EXCEPT ![a] = @ \cup {t}]
                       /\ Does(a, t, "ready", "ready")
  /\ Goto(a, "emplace")
  /\ UNCHANGED <<map, mtx, audit, fields, history, running, fault>>

\* then, when the thread has mtx, its place in the map.
Emplace(a) ==
  /\ pc[a] = "emplace" /\ mtx = None
  /\ map' = map \cup {act[a].timer}
  /\ Goto(a, "ready")
  /\ UNCHANGED <<life, hold, mtx, audit, fields, history, running, act, fault>>

\* A thread hands its pointer on to another, a handler too; a timer is used by one thread
\* at a time, and by its own callback.
Take(a) ==
  /\ pc[a] = "ready"
  /\ \E b \in Actors \ {a} : /\ pc[b] = "ready"
                            /\ \E t \in hold[b] : hold' = [hold EXCEPT ![b] = @ \ {t}, ![a] = @ \cup {t}]
  /\ UNCHANGED <<life, map, mtx, audit, fields, history, running, act, pc, fault>>

\* startRounds up to event_new; MaxStarts bounds the events of a timer.
Begin(a, t, n, h, then) ==
  /\ event[t] = 0 /\ Made(t) < MaxStarts
  /\ event' = [event EXCEPT ![t] = Made(t) + 1]
  /\ heap' = [heap EXCEPT ![t][Made(t) + 1] = "idle"]
  /\ stopped' = stopped \ {t}
  /\ act' = [act EXCEPT ![a] = [Idle EXCEPT !.timer = t, !.rounds = n, !.handler = h,
                                           !.then = then]]
  /\ Goto(a, "add")
  /\ UNCHANGED <<shared, round, cur, handler, running, fault>>

\* startCB writes _CBHandler, _userData and _tid before startForever looks at _event.
\* Which callback is called no property tells apart, but the loop may be in the old one.
StartCB(a, t) ==
  IF a # Loop /\ InCB(t)
  THEN Die("runningCallback")
  ELSE Begin(a, t, Forever, [kind |-> "cb", rounds |-> Forever], "ready")

\* startRounds, startForever, startCB and startAfter; with an event already they
\* return false.
Start(a) ==
  /\ pc[a] = "ready" /\ Up
  /\ \E t \in hold[a], n \in Rounds :
       /\ a = Loop \/ Restart \/ Made(t) = 0
       /\ \/ Begin(a, t, n, [kind |-> "plain", rounds |-> n], "ready")
          \/ n = Forever /\ StartCB(a, t)
          \/ /\ Made(t) + 1 < MaxStarts
             /\ Begin(a, t, 1, [kind |-> "after", rounds |-> n], "ready")
  /\ UNCHANGED calls

\* event_add: from here on the loop may fire the event; if it fails, reset().
StartAdd(a) ==
  LET t == act[a].timer IN
  /\ pc[a] = "add"
  /\ IF event[t] = 0 \/ heap[t][event[t]] = "freed"
     THEN Die("freedEvent")
     ELSE /\ \/ /\ heap' = [heap EXCEPT ![t][event[t]] = IF act[a].rounds > 1 THEN "every" ELSE "once"]
                /\ Goto(a, "round") /\ UNCHANGED <<act, stopped>>
             \/ /\ Does(a, t, act[a].then, "ready") /\ stopped' = stopped \cup {t}
                /\ Goto(a, "reset") /\ UNCHANGED heap
          /\ UNCHANGED <<shared, event, round, cur, handler, calls, running, fault>>

\* Mutant: a timer that is started again keeps its old count.
StartRoundKeeps(a) ==
  /\ pc[a] = "round"
  /\ round' = [round EXCEPT ![act[a].timer] = act[a].rounds]
  /\ Goto(a, "handler")
  /\ UNCHANGED <<shared, event, heap, cur, handler, history, running, act, fault>>

StartRound(a) ==
  LET t == act[a].timer IN
  /\ pc[a] = "round"
  /\ Writes(t, /\ round' = [round EXCEPT ![t] = act[a].rounds]
               /\ cur' = [cur EXCEPT ![t] = 0]
               /\ Goto(a, "handler")
               /\ UNCHANGED <<shared, event, heap, handler, history, running, act, fault>>)

StartHandler(a) ==
  LET t == act[a].timer IN
  /\ pc[a] = "handler"
  /\ Writes(t, /\ handler' = [handler EXCEPT ![t] = act[a].handler]
               /\ calls' = [calls EXCEPT ![t] = 0]
               /\ Goto(a, act[a].then)
               /\ act' = [act EXCEPT ![a] = Idle]
               /\ UNCHANGED <<shared, event, heap, round, cur, stopped, running, fault>>)

Stop(a) ==
  /\ pc[a] = "ready"
  /\ \E t \in hold[a] : /\ event[t] # 0 /\ (a = Loop \/ Killable(t))
                        /\ stopped' = stopped \cup {t}
                        /\ Does(a, t, "ready", "ready")
  /\ Goto(a, "reset")
  /\ UNCHANGED <<shared, fields, calls, running, fault>>

-----------------------------------------------------------------------------
(* reset(), from stop(), ~Timer and eventHandler                             *)

\* The test of _event and the read of it for event_free.
Reset(a) ==
  LET t == act[a].timer IN
  /\ pc[a] = "reset"
  /\ IF event[t] = 0 THEN Goto(a, act[a].then) /\ UNCHANGED act
                     ELSE Goto(a, "free") /\ act' = [act EXCEPT ![a].ev = event[t]]
  /\ UNCHANGED <<shared, fields, history, running, fault>>

\* event_free waits for the callback of that event, but not on the loop's thread.
ResetFree(a) ==
  LET t == act[a].timer
      e == act[a].ev
  IN
  /\ pc[a] = "free"
  /\ a = Loop \/ running.timer # t \/ running.ev # e
  /\ IF heap[t][e] = "freed"
     THEN Die("freedEvent")
     ELSE /\ heap' = [heap EXCEPT ![t][e] = "freed"]
          /\ Goto(a, "null")
          /\ UNCHANGED <<shared, event, round, cur, handler, history, running, act, fault>>

\* Mutant: _event still points to the event that was freed.
ResetNullForgets(a) ==
  /\ pc[a] = "null"
  /\ Goto(a, "cur")
  /\ UNCHANGED <<shared, fields, history, running, act, fault>>

ResetNull(a) ==
  /\ pc[a] = "null"
  /\ event' = [event EXCEPT ![act[a].timer] = 0]
  /\ Goto(a, "cur")
  /\ UNCHANGED <<shared, heap, round, cur, handler, history, running, act, fault>>

\* Mutant: the count is left as it was.
ResetCurForgets(a) ==
  /\ pc[a] = "cur"
  /\ Goto(a, act[a].then)
  /\ UNCHANGED <<shared, fields, history, running, act, fault>>

\* Mutant: the rounds are added to the count.
ResetCurAdds(a) ==
  LET t == act[a].timer IN
  /\ pc[a] = "cur"
  /\ cur' = [cur EXCEPT ![t] = @ + round[t] + 1]
  /\ Goto(a, act[a].then)
  /\ UNCHANGED <<shared, event, heap, round, handler, history, running, act, fault>>

\* _curRound = _round + 1: what isFinished() goes by.
ResetCur(a) ==
  LET t == act[a].timer IN
  /\ pc[a] = "cur"
  /\ Writes(t, /\ cur' = [cur EXCEPT ![t] = round[t] + 1]
               /\ Goto(a, act[a].then)
               /\ UNCHANGED <<shared, event, heap, round, handler, history, running, act, fault>>)

-----------------------------------------------------------------------------
(* The last shared pointer, and the manager's map                            *)

\* Mutant: the destructor does not stop the timer.
LetGoAsIs(a, t, kept, next) ==
  IF kept THEN Goto(a, next) /\ UNCHANGED <<act, stopped>>
          ELSE Goto(a, "delete") /\ Does(a, t, "delete", next) /\ stopped' = stopped \cup {t}

\* A thread lets go of t: ~Timer runs if nothing else holds it.
LetGo(a, t, kept, next) ==
  IF kept THEN Goto(a, next) /\ UNCHANGED <<act, stopped>>
          ELSE Goto(a, "reset") /\ Does(a, t, "delete", next) /\ stopped' = stopped \cup {t}

\* The last pointer but the map's can go unless the map's is about to be killed.
Drop(a) ==
  /\ pc[a] = "ready"
  /\ \E t \in hold[a] :
       /\ Killable(t) \/ (IF Others(a, t) THEN ~Doomed(t) ELSE a = Loop)
       /\ hold' = [hold EXCEPT ![a] = @ \ {t}]
       /\ LetGo(a, t, Others(a, t), "ready")
  /\ UNCHANGED <<life, map, mtx, audit, fields, calls, running, fault>>

\* killTimer, of a timer in the map, waits for mtx
KillTimer(a) ==
  /\ pc[a] = "ready" /\ a \in Managers /\ Up
  /\ \E t \in map : /\ a = Loop \/ Killable(t) \/ Holders(t) # {}
                    /\ Does(a, t, "ready", "ready")
  /\ Goto(a, "erase")
  /\ UNCHANGED <<shared, fields, history, running, fault>>

\* and holds it while it erases the timer, if it is still there.
Erase(a) ==
  LET t == act[a].timer IN
  /\ pc[a] = "erase" /\ mtx = None
  /\ mtx' = a
  /\ map' = map \ {t}
  /\ LetGo(a, t, t \notin map \/ Holders(t) # {}, "unlock")
  /\ UNCHANGED <<life, hold, audit, fields, calls, running, fault>>

\* Mutant: mtx is left locked.
UnlockForgets(a) ==
  /\ pc[a] = "unlock"
  /\ Goto(a, "ready")
  /\ UNCHANGED <<shared, fields, history, running, act, fault>>

Unlock(a) ==
  /\ pc[a] = "unlock"
  /\ mtx' = None
  /\ Goto(a, "ready")
  /\ UNCHANGED <<life, map, hold, audit, fields, history, running, act, fault>>

\* The end of ~Timer: the memory is gone.
Delete(a) ==
  /\ pc[a] = "delete"
  /\ life' = [life EXCEPT ![act[a].timer] = "dead"]
  /\ act' = [act EXCEPT ![a] = Idle]
  /\ Goto(a, act[a].next)
  /\ UNCHANGED <<map, hold, mtx, audit, fields, history, running, fault>>

\* ~TimerManager, in an application thread when no thread uses the manager: the
\* audit timer goes first,
DtorAudit(a) ==
  /\ a \in Users /\ audit = "on" /\ mtx = None
  /\ \A b \in Users : pc[b] = "ready"
  /\ pc[Loop] \notin {"audit", "emplace", "erase"}
  /\ \A t \in map : Killable(t) \/ Holders(t) # {}
  /\ audit' = "gone"
  /\ Goto(a, "dtor")
  /\ UNCHANGED <<life, map, hold, mtx, fields, history, running, act, fault>>

\* then the timers of t_map.
DtorMap(a) ==
  /\ pc[a] = "dtor"
  /\ \/ \E t \in map : /\ map' = map \ {t}
                       /\ LetGo(a, t, Holders(t) # {}, "dtor")
     \/ map = {} /\ Goto(a, "ready") /\ UNCHANGED <<map, act, stopped>>
  /\ UNCHANGED <<life, hold, mtx, audit, fields, calls, running, fault>>
-----------------------------------------------------------------------------
(* The loop's thread: Timer::eventHandler, the audit, and the end            *)

\* libevent takes a due event and enters eventHandler, which copies _handler.
Fire(t) ==
  /\ pc[Loop] = "poll" /\ (Overtake \/ ~Starting(t))
  /\ \E k \in Starts :
       /\ heap[t][k] \in {"once", "every"}
       /\ heap' = [heap EXCEPT ![t][k] = IF @ = "once" THEN "idle" ELSE @]
       /\ running' = [timer |-> t, ev |-> k, cb |-> handler[t].kind = "cb"]
  /\ act' = [act EXCEPT ![Loop] = [Idle EXCEPT !.timer = t, !.handler = handler[t], !.then = "call"]]
  /\ Goto(Loop, "count")
  /\ UNCHANGED <<shared, event, round, cur, handler, history, fault>>

\* Mutant: the last round is one too early.
CountEarly ==
  LET t == act[Loop].timer IN
  /\ pc[Loop] = "count"
  /\ cur' = [cur EXCEPT ![t] = Counted(@)]
  /\ Goto(Loop, IF Counted(cur[t]) + 1 >= round[t] THEN "last" ELSE "call")
  /\ UNCHANGED <<shared, event, heap, round, handler, history, running, act, fault>>

\* Mutant: _curRound is not counted up.
CountNot ==
  /\ pc[Loop] = "count"
  /\ Goto(Loop, IF isFinished(act[Loop].timer) THEN "last" ELSE "call")
  /\ UNCHANGED <<shared, fields, history, running, act, fault>>

Count ==
  LET t == act[Loop].timer IN
  /\ pc[Loop] = "count"
  /\ cur' = [cur EXCEPT ![t] = Counted(@)]
  /\ Goto(Loop, IF Counted(cur[t]) >= round[t] THEN "last" ELSE "call")
  /\ UNCHANGED <<shared, event, heap, round, handler, history, running, act, fault>>

\* event_del(_event), then reset().
Last ==
  LET t == act[Loop].timer IN
  /\ pc[Loop] = "last"
  /\ IF event[t] = 0 \/ heap[t][event[t]] = "freed"
     THEN Die("freedEvent")
     ELSE /\ heap' = [heap EXCEPT ![t][event[t]] = "idle"]
          /\ Goto(Loop, "reset")
          /\ UNCHANGED <<shared, event, round, cur, handler, history, running, act, fault>>

\* The lambda of startAfter starts the timer again, if it has no event by now.
AfterLambda(t, n) ==
  IF event[t] = 0 THEN Begin(Loop, t, n, [kind |-> "plain", rounds |-> n], "return")
                  ELSE Goto(Loop, "return") /\ UNCHANGED <<event, heap, stopped, act>>

\* handler(), on the copy: only the two lambdas go back to the Timer.
Call ==
  LET t == act[Loop].timer
      h == act[Loop].handler
  IN
  /\ pc[Loop] = "call"
  /\ CASE h.kind = "empty" -> Die("emptyHandler")
       [] h.kind \in {"cb", "after"} /\ life[t] = "dead" -> Die("deadTimer")
       [] OTHER ->
            /\ calls' = [calls EXCEPT ![t] = IF @ < Forever THEN @ + 1 ELSE @]
            /\ IF h.kind = "after"
               THEN AfterLambda(t, h.rounds)
               ELSE Goto(Loop, "ready") /\ UNCHANGED <<event, heap, stopped, act>>
            /\ UNCHANGED <<shared, round, cur, handler, running, fault>>

\* The callback of startCB, its own calls made, returns -1: the lambda stops the timer.
CBStop ==
  LET t == running.timer IN
  /\ pc[Loop] = "ready" /\ running.cb /\ (SelfStop \/ life[t] # "dead")
  /\ Writes(t, /\ stopped' = stopped \cup {t}
               /\ Does(Loop, t, "return", "ready")
               /\ Goto(Loop, "reset")
               /\ UNCHANGED <<shared, fields, calls, running, fault>>)

CallReturn ==
  /\ pc[Loop] \in {"ready", "return"}
  /\ running' = NotRunning
  /\ Goto(Loop, "poll")
  /\ UNCHANGED <<shared, fields, history, act, fault>>

\* The audit timer fires: auditTimer locks mtx when it is free.
AuditFire ==
  /\ pc[Loop] = "poll" /\ Up
  /\ Goto(Loop, "audit")
  /\ UNCHANGED <<shared, fields, history, running, act, fault>>

\* auditTimer: the finished timers leave the map under mtx, and those that nothing
\* else holds are destroyed.
Audit ==
  /\ pc[Loop] = "audit" /\ mtx = None
  /\ LET gone == {t \in map : isFinished(t)}
         freed == {t \in gone : Holders(t) = {}}
     IN /\ map' = map \ gone
        /\ life' = [t \in Timers |-> IF t \in freed THEN "dead" ELSE life[t]]
        /\ heap' = [t \in Timers |-> IF t \in freed /\ event[t] # 0
                                     THEN [heap[t] EXCEPT ![event[t]] = "freed"] ELSE heap[t]]
        /\ stopped' = stopped \cup freed
  /\ Goto(Loop, "poll")
  /\ UNCHANGED <<hold, mtx, audit, event, round, cur, handler, calls, running, act, fault>>

\* The constructor of the instance adds the audit timer after it started the loop.
AuditAdd ==
  /\ audit = "off"
  /\ audit' = "instance"
  /\ UNCHANGED <<life, map, hold, mtx, fields, history, running, act, pc, fault>>

\* event_base_loop returns when no event is left.
LoopOver ==
  /\ pc[Loop] = "poll" /\ ~Up /\ \A t \in Timers : ~Pending(t)
  /\ Goto(Loop, "over")
  /\ UNCHANGED <<shared, fields, history, running, act, fault>>

-----------------------------------------------------------------------------
Chooses(a) == GetTimer(a) \/ Take(a) \/ Start(a) \/ Stop(a) \/ Drop(a) \/ KillTimer(a) \/ DtorAudit(a)
Goes(a) == \/ StartAdd(a) \/ StartRound(a) \/ StartHandler(a)
           \/ Reset(a) \/ ResetFree(a) \/ ResetNull(a) \/ ResetCur(a)
           \/ Delete(a) \/ Emplace(a) \/ Erase(a) \/ Unlock(a) \/ DtorMap(a)
Handles == Count \/ Last \/ Call \/ CBStop \/ CallReturn \/ LoopOver

Next == \/ \E a \in Actors : Chooses(a) \/ Goes(a)
        \/ \E t \in Timers : Fire(t)
        \/ Handles \/ AuditFire \/ Audit \/ AuditAdd

Spec == Init /\ [][Next]_vars

\* Threads run; the loop's heap of timers hands out due events by their time, so
\* that each comes up in the end, however often others do; mtx is not kept from the
\* audit for ever; event_free is woken when the callback returns and waits for one
\* only.  Nobody has to call.
FairSpec == /\ Spec
            /\ \A u \in Users : WF_vars(Goes(u)) /\ SF_vars(ResetFree(u))
            /\ WF_vars(Goes(Loop) \/ Handles)
            /\ \A t \in Timers : SF_vars(Fire(t))
            /\ SF_vars(AuditFire \/ Audit)

-----------------------------------------------------------------------------
(* Properties                                                                *)

\* No thread uses an event after event_free, a Timer after its destructor, or an
\* empty handler.  It holds of the use the flags leave when all are FALSE: see KillAny
\* and SelfStop.  timerManager.cpp:84 knows no such condition: "you can call timer.stop
\* or pass in the ID and we will kill the timer".
NoFault == fault = "none"

\* Somebody is about to change what isFinished() answers for t.
Busy(t) == \E a \in Actors :
             act[a].timer = t /\ pc[a] \in {"add", "round", "handler", "null", "cur"}

\* timer.cpp:112: "make sure when we call isFinished, it is fininshed".  The audit
\* goes by it: a timer without an event, once started, is finished,
FinishedReported ==
  \A t \in Timers : life[t] = "alive" /\ Made(t) > 0 /\ event[t] = 0 /\ ~Busy(t) => isFinished(t)

\* and one whose event can still fire is not: the audit would destroy it.
LiveNotFinished ==
  \A t \in Timers : life[t] = "alive" /\ Pending(t) /\ ~Busy(t) /\ pc[Loop] \notin {"last"}
                      => ~isFinished(t)

\* startRounds(interval, round, handler) calls the handler round times: a timer that
\* ended by itself has called it that often, and none calls it more often.
CalledInFull ==
  \A t \in Timers : ~Busy(t) /\ Made(t) > 0 =>
    /\ calls[t] <= round[t]
    /\ event[t] = 0 /\ t \notin stopped /\ ~(running.timer = t /\ pc[Loop] \notin {"ready", "return"})
         => calls[t] = round[t]

\* Once its last owner is gone a timer is silent: no event of it is left and no
\* callback is on its way to a handler (event_free waited), unless its own handler
\* destroyed it.
DeadIsSilent ==
  \A t \in Timers : life[t] = "dead" =>
    ~Pending(t) /\ ~(running.timer = t /\ pc[Loop] \in {"count", "last", "call"})

\* The deadly embrace: a thread that has mtx waits in event_free for a callback which
\* waits for mtx.
Embrace == /\ mtx \in Users /\ pc[mtx] = "free" /\ pc[Loop] \in {"emplace", "erase"}
           /\ running.timer = act[mtx].timer /\ running.ev = act[mtx].ev

\* No callback meets it: false, where handlers may call the manager.
NoEmbrace == ~Embrace

\* killTimer returns: event_free (timer.cpp:110) under mtx (timerManager.cpp:89) waits
\* for a callback that ends, if the callback does not call the manager itself.
KillReturns == \A a \in Actors : mtx = a ~> (mtx # a \/ Embrace)

\* A timer with a number of rounds to run comes to its end and is then swept out of
\* the map by the audit (timerManager.cpp:72), unless the loop or the manager ended.
FiniteSwept ==
  \A t \in Timers : (t \in map /\ Pending(t) /\ round[t] < Forever /\ handler[t].kind = "plain")
                      ~> (t \notin map \/ round[t] = Forever \/ audit = "gone" \/ pc[Loop] = "over" \/ Embrace)

\* timerManager.cpp:34: "actually we want the thread never exit".
LoopNeverExits == audit # "gone" /\ fault = "none" => pc[Loop] # "over"
=============================================================================
