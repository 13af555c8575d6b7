-------------------------- MODULE TimerManagerProofs --------------------------
(***************************************************************************)
(* Proofs about TimerManager, for any timers, threads, rounds and number   *)
(* of starts.  TypeCorrect holds of every use of the classes; the rest of  *)
(* the use they are safe for: see CarefulUse.                              *)
(***************************************************************************)
EXTENDS TimerManager, FiniteSetTheorems, TLAPS

USE TimerAssumption DEF TimerAssumption

StartPC == {"add", "round", "handler"}
ResetPC == {"reset", "free", "null", "cur", "delete"}
CallPC == {"count", "last", "call"}
Active == StartPC \cup ResetPC \cup CallPC
LockPC == {"emplace", "erase"}
Engaged == Active \cup LockPC
Between == {"poll", "audit", "over"}
PCs == StartPC \cup ResetPC \cup CallPC \cup LockPC \cup Between
         \cup {"ready", "return", "unlock", "dtor"}

\* A thread in the middle of a call has a timer in hand, and one in event_free an event.
InHand ==
  \A a \in Actors : /\ pc[a] \in StartPC \cup ResetPC \cup CallPC \cup LockPC => act[a].timer \in Timers
                    /\ pc[a] = "free" => act[a].ev # 0
                    /\ pc[a] \in StartPC => act[a].then \in {"ready", "return"}

TInv == TypeOK /\ InHand

\* No event fires while its timer is being started, application threads start a timer once
\* and stop it only when it cannot be in its last round; a callback of startCB that
\* destroyed its own timer does not return -1.
CarefulUse == ~Overtake /\ ~Restart /\ ~KillAny /\ ~SelfStop

At(a, t, places) == pc[a] \in places /\ act[a].timer = t

\* The loop is between eventHandler's first line and its call of the handler.
InCallback(t) == \/ At(Loop, t, CallPC)
                 \/ At(Loop, t, ResetPC) /\ act[Loop].then = "call"

Unowned(t) == t \notin map /\ \A a \in Actors : t \notin hold[a]
Endless(t) == round[t] = Forever /\ handler[t].kind = "plain"

\* Where an application thread may free the event of t: see Killable.
Spared(t) == \/ event[t] = 0 /\ running.timer # t
             \/ Endless(t) /\ ~InCB(t)

\* Where threads can be; what the loop's thread does between two polls is for running.
Places ==
  /\ \A u \in Users : /\ pc[u] \in {"ready", "unlock", "dtor"} \cup LockPC \cup StartPC \cup ResetPC
                      /\ pc[u] \in ResetPC => act[u].then \in {"ready", "delete"}
                      /\ pc[u] \in StartPC => act[u].then = "ready"
  /\ pc[Loop] \in {"ready", "return", "unlock"} \cup Between \cup LockPC \cup Active
  /\ pc[Loop] \notin Between => running.timer \in Timers /\ running.ev \in Starts
  /\ pc[Loop] \in Between => running.timer = None
  /\ pc[Loop] \in CallPC => act[Loop].then = "call"
  /\ pc[Loop] \in ResetPC \cup CallPC => act[Loop].next # "dtor"
  /\ \A a \in Actors : /\ pc[a] = "delete" => act[a].then = "delete"
                       /\ pc[a] \in StartPC => act[a].rounds >= 1 /\ act[a].handler # Empty

\* One thread holds a timer, and nobody one that is not there or is gone.  A timer that
\* was destroyed was not called too often either.
Owned(t) ==
  /\ \A a, b \in Actors : t \in hold[a] /\ t \in hold[b] => a = b
  /\ life[t] # "alive" => Unowned(t) /\ ~Pending(t) /\ \A a \in Actors : ~At(a, t, Active)
  /\ life[t] = "dead" => t \in stopped /\ calls[t] <= round[t]
  /\ life[t] = "unborn" => Made(t) = 0 /\ event[t] = 0

\* The events made are the first ones, and the last of them alone can be in the heap.
Events(t) ==
  /\ \A k \in Starts : heap[t][k] # "none" <=> k <= Made(t)
  /\ event[t] \in {0, Made(t)}
  /\ life[t] = "alive" =>
       \A k \in Starts : heap[t][k] \in {"idle", "once", "every"} => k = event[t]
  /\ life[t] = "alive" /\ event[t] # 0 /\ heap[t][event[t]] = "freed" =>
       \E a \in Actors : At(a, t, {"null"})
  /\ running.timer = t => Made(t) > 0

\* _event and the event, as the thread that starts or resets the timer goes along.
Steps(t) ==
  \A a \in Actors :
    /\ At(a, t, StartPC) => event[t] # 0
    /\ At(a, t, {"add"}) => heap[t][event[t]] = "idle"
    /\ At(a, t, {"free", "null"}) => event[t] # 0 /\ event[t] = act[a].ev
    /\ At(a, t, {"null"}) => heap[t][event[t]] = "freed"
    /\ At(a, t, {"cur", "delete"}) => event[t] = 0

\* By what right a thread is in getTimer, startRounds or reset: it holds the timer, or is
\* the last to let go of it, or is the loop's in the timer's own callback.
Rights(t) ==
  /\ \A a \in Actors : At(a, t, {"emplace"}) => t \in hold[a]
  /\ \A u \in Users : At(u, t, StartPC) => t \in hold[u] /\ running.timer # t
  /\ At(Loop, t, StartPC) =>
       IF act[Loop].then = "ready" THEN t \in hold[Loop]
                                   ELSE running.timer = t /\ handler[t].kind = "after"
  /\ \A a \in Actors : At(a, t, ResetPC) =>
       /\ act[a].then = "ready" => t \in hold[a]
       /\ act[a].then = "return" => running.timer = t /\ (running.cb \/ handler[t].kind = "after")
       /\ act[a].then = "delete" => Unowned(t)
       /\ act[a].then # "call" => t \in stopped
  /\ \A u \in Users : At(u, t, ResetPC) =>
       /\ (Endless(t) /\ ~InCB(t)) \/ (~Pending(t) /\ running.timer # t)
       /\ pc[u] \in {"null", "cur", "delete"} => ~At(Loop, t, CallPC)
  /\ At(Loop, t, {"last"}) \/ (At(Loop, t, ResetPC) /\ act[Loop].then = "call") =>
       round[t] < Forever

\* A timer that a thread is about to kill, with nothing but the map to hold it, may be.
Doom(t) == t \in map /\ (\A a \in Actors : t \notin hold[a]) /\ Doomed(t) => Spared(t)

\* So nobody else is.
Alone(t) ==
  \A a, b \in Actors : At(a, t, StartPC \cup ResetPC) /\ At(b, t, StartPC \cup ResetPC) => a = b

\* The running callback is that of the event that is in _event, until it is freed.
Callback(t) ==
  InCallback(t) =>
    /\ running.timer = t
    /\ act[Loop].handler = handler[t] /\ handler[t] # Empty
    /\ event[t] \in {0, running.ev}
    /\ pc[Loop] \in {"count", "last"} => event[t] # 0
    /\ pc[Loop] = "count" => cur[t] < round[t]
    /\ event[t] = 0 => round[t] < Forever

\* _curRound against _round, when no thread is between two of their assignments,
Rounded(t) ==
  /\ event[t] = 0 /\ ~(\E a \in Actors : At(a, t, {"cur"})) => cur[t] >= round[t]
  /\ \A a \in Actors : At(a, t, {"handler"}) => cur[t] = 0 /\ round[t] >= 1
  /\ Pending(t) /\ ~(\E a \in Actors : At(a, t, {"round"})) /\ ~At(Loop, t, {"last"}) =>
       cur[t] < round[t]

\* and the calls of the handler against both.
Called(t) ==
  /\ Pending(t) => handler[t] # Empty
  /\ event[t] = 0 /\ t \notin stopped => round[t] < Forever
  /\ event[t] = 0 /\ t \notin stopped /\ ~InCallback(t) => calls[t] = round[t]
  /\ round[t] < Forever =>
       /\ InCallback(t) =>
            /\ pc[Loop] = "count" => calls[t] = cur[t]
            /\ pc[Loop] = "last" => calls[t] + 1 = cur[t] /\ cur[t] = round[t]
            /\ pc[Loop] = "call" /\ event[t] # 0 => calls[t] + 1 = cur[t] /\ cur[t] < round[t]
            /\ pc[Loop] \in ResetPC \/ event[t] = 0 => calls[t] + 1 = round[t]
       /\ ~InCallback(t) => IF Pending(t) THEN calls[t] = cur[t] /\ cur[t] < round[t]
                                          ELSE calls[t] <= round[t]

Counts(t) ==
  /\ round[t] >= 1
  /\ Made(t) = 0 => calls[t] = 0
  /\ \A a \in Actors : At(a, t, {"add"}) => calls[t] <= round[t]
  /\ life[t] = "alive" /\ Made(t) > 0 =>
       Rounded(t) /\ ((\A a \in Actors : ~At(a, t, StartPC)) => Called(t))

Sound(t) == /\ Owned(t) /\ Events(t) /\ Steps(t) /\ Rights(t) /\ Doom(t) /\ Alone(t)
            /\ Callback(t) /\ Counts(t)

IInv == TInv /\ Places /\ (\A t \in Timers : Sound(t)) /\ fault = "none"

-----------------------------------------------------------------------------
(* Types, for every use                                                     *)

\* The rounds a start asks for are some that _round can hold.
LEMMA RoundsCounted == \A r \in Rounds : r \in 0..Forever
<1>1. ASSUME NEW r \in Rounds PROVE r \in 1..Forever
  OBVIOUS
<1>2. ASSUME NEW r \in 1..Forever PROVE r \in 0..Forever
  OBVIOUS
<1> QED
  BY <1>1, <1>2

LEMMA ActTypes ==
  /\ Idle \in Acts
  /\ \A t \in Timers, n \in 0..Forever, h \in Handlers, then \in {"ready", "return"} :
       [Idle EXCEPT !.timer = t, !.rounds = n, !.handler = h, !.then = then] \in Acts
  /\ \A t \in Timers, then \in {"ready", "return", "call", "delete"}, next \in {"ready", "unlock", "dtor"} :
       [Idle EXCEPT !.timer = t, !.then = then, !.next = next] \in Acts
  /\ \A t \in Timers, h \in Handlers \cup {Empty} :
       [Idle EXCEPT !.timer = t, !.handler = h, !.then = "call"] \in Acts
  /\ \A x \in Acts, e \in 0..MaxStarts : [x EXCEPT !.ev = e] \in Acts
<1>1. Idle \in Acts
  BY DEF Idle, Acts
<1>2. ASSUME NEW x \in Acts, NEW t \in Timers PROVE [x EXCEPT !.timer = t] \in Acts
  BY DEF Acts
<1>3. ASSUME NEW x \in Acts, NEW n \in 0..Forever PROVE [x EXCEPT !.rounds = n] \in Acts
  BY DEF Acts
<1>4. ASSUME NEW x \in Acts, NEW h \in Handlers \cup {Empty} PROVE [x EXCEPT !.handler = h] \in Acts
  BY DEF Acts
<1>5. ASSUME NEW x \in Acts, NEW then \in {"ready", "return", "call", "delete"}
      PROVE  [x EXCEPT !.then = then] \in Acts
  BY DEF Acts
<1>6. ASSUME NEW x \in Acts, NEW next \in {"ready", "unlock", "dtor"}
      PROVE  [x EXCEPT !.next = next] \in Acts
  BY DEF Acts
<1>7. ASSUME NEW x \in Acts, NEW e \in 0..MaxStarts PROVE [x EXCEPT !.ev = e] \in Acts
  BY DEF Acts
<1> QED
  BY <1>1, <1>2, <1>3, <1>4, <1>5, <1>6, <1>7

LEMMA MadeType == ASSUME TypeOK, NEW t \in Timers PROVE Made(t) \in 0..MaxStarts
<1>1. IsFiniteSet(Starts) /\ Cardinality(Starts) = MaxStarts
  BY FS_Interval DEF Starts
<1>2. {k \in Starts : heap[t][k] # "none"} \in SUBSET Starts
  OBVIOUS
<1>3. Cardinality({k \in Starts : heap[t][k] # "none"}) \in Nat
  BY <1>1, <1>2, FS_Subset, FS_CardinalityType
<1>4. Cardinality({k \in Starts : heap[t][k] # "none"}) <= MaxStarts
  BY <1>1, <1>2, FS_Subset
<1> QED
  BY <1>3, <1>4 DEF Made

LEMMA CellTypes ==
  ASSUME TypeOK, NEW t \in Timers
  PROVE  /\ \A e \in Starts, s \in {"none", "idle", "once", "every", "freed"} :
              [heap EXCEPT ![t][e] = s]
                \in [Timers -> [Starts -> {"none", "idle", "once", "every", "freed"}]]
         /\ \A n \in 0..MaxStarts : [event EXCEPT ![t] = n] \in [Timers -> 0..MaxStarts]
         /\ \A n \in 0..Forever : [round EXCEPT ![t] = n] \in [Timers -> 0..Forever]
         /\ \A n \in 0..Forever + 1 : [cur EXCEPT ![t] = n] \in [Timers -> 0..Forever + 1]
         /\ \A n \in 0..Forever : [calls EXCEPT ![t] = n] \in [Timers -> 0..Forever]
         /\ \A h \in Handlers \cup {Empty} :
              [handler EXCEPT ![t] = h] \in [Timers -> Handlers \cup {Empty}]
         /\ \A s \in {"alive", "dead"} :
              [life EXCEPT ![t] = s] \in [Timers -> {"unborn", "alive", "dead"}]
         /\ round[t] \in 0..Forever /\ cur[t] \in 0..Forever + 1 /\ calls[t] \in 0..Forever
         /\ round[t] + 1 \in 0..Forever + 1 /\ event[t] \in 0..MaxStarts
         /\ handler[t] \in Handlers \cup {Empty}
         /\ event[t] # 0 => event[t] \in Starts
<1>1. \A e \in Starts, s \in {"none", "idle", "once", "every", "freed"} :
        [heap EXCEPT ![t][e] = s]
          \in [Timers -> [Starts -> {"none", "idle", "once", "every", "freed"}]]
  BY DEF TypeOK
<1>2. \A n \in 0..MaxStarts : [event EXCEPT ![t] = n] \in [Timers -> 0..MaxStarts]
  BY DEF TypeOK
<1>3. /\ \A n \in 0..Forever : [round EXCEPT ![t] = n] \in [Timers -> 0..Forever]
      /\ \A n \in 0..Forever : [calls EXCEPT ![t] = n] \in [Timers -> 0..Forever]
  BY DEF TypeOK
<1>4. \A n \in 0..Forever + 1 : [cur EXCEPT ![t] = n] \in [Timers -> 0..Forever + 1]
  BY DEF TypeOK
<1>5. \A h \in Handlers \cup {Empty} :
        [handler EXCEPT ![t] = h] \in [Timers -> Handlers \cup {Empty}]
  BY DEF TypeOK
<1>6. \A s \in {"alive", "dead"} :
        [life EXCEPT ![t] = s] \in [Timers -> {"unborn", "alive", "dead"}]
  BY DEF TypeOK
<1>7. /\ round[t] \in 0..Forever /\ cur[t] \in 0..Forever + 1 /\ calls[t] \in 0..Forever
      /\ event[t] \in 0..MaxStarts /\ handler[t] \in Handlers \cup {Empty}
  BY DEF TypeOK
<1>8. round[t] + 1 \in 0..Forever + 1 /\ (event[t] # 0 => event[t] \in Starts)
  BY <1>7 DEF Starts
<1> QED
  BY <1>1, <1>2, <1>3, <1>4, <1>5, <1>6, <1>7, <1>8

LEMMA TypeInit == Init => TInv
<1> SUFFICES ASSUME Init PROVE TInv
  OBVIOUS
<1>1. act \in [Actors -> Acts]
  BY ActTypes DEF Init
<1>2. running \in [timer : Timers, ev : Starts, cb : BOOLEAN] \cup {NotRunning}
  BY DEF Init, NotRunning
<1>3. \A t \in Timers : heap[t] \in [Starts -> {"none", "idle", "once", "every", "freed"}]
  BY DEF Init
<1>4. round \in [Timers -> 0..Forever]
  BY DEF Init
<1> QED
  BY <1>1, <1>2, <1>3, <1>4 DEF Init, TInv, TypeOK, InHand, StartPC, ResetPC, CallPC, LockPC

LEMMA BeginType ==
  ASSUME TInv, NEW a \in Actors, NEW t \in Timers, NEW n \in 0..Forever, NEW h \in Handlers,
         NEW then \in {"ready", "return"}, Begin(a, t, n, h, then)
  PROVE  /\ event' \in [Timers -> 0..MaxStarts]
         /\ heap' \in [Timers -> [Starts -> {"none", "idle", "once", "every", "freed"}]]
         /\ stopped' \subseteq Timers /\ act' \in [Actors -> Acts]
         /\ pc' = [pc EXCEPT ![a] = "add"] /\ act'[a].timer = t /\ act'[a].then = then
         /\ \A b \in Actors \ {a} : act'[b] = act[b]
<1>0. Made(t) \in 0..MaxStarts /\ Made(t) < MaxStarts
  BY MadeType DEF TInv, Begin
<1>1. Made(t) + 1 \in Starts /\ Made(t) + 1 \in 0..MaxStarts
  BY <1>0 DEF Starts
<1> USE DEF TInv, TypeOK
<1>2. event' \in [Timers -> 0..MaxStarts] /\ stopped' \subseteq Timers
  BY <1>1 DEF Begin
<1>3. heap' \in [Timers -> [Starts -> {"none", "idle", "once", "every", "freed"}]]
  BY <1>1 DEF Begin
<1>4. /\ act' = [act EXCEPT ![a] = [Idle EXCEPT !.timer = t, !.rounds = n, !.handler = h,
                                              !.then = then]]
      /\ pc' = [pc EXCEPT ![a] = "add"]
  BY DEF Begin, Goto
<1>5. [Idle EXCEPT !.timer = t, !.rounds = n, !.handler = h, !.then = then] \in Acts
  BY ActTypes
<1>6. act'[a].timer = t /\ act'[a].then = then
  BY <1>4 DEF Idle
<1> QED
  BY <1>2, <1>3, <1>4, <1>5, <1>6

LEMMA DoesType ==
  ASSUME TInv, NEW a \in Actors, NEW t \in Timers, NEW then \in {"ready", "return", "call", "delete"},
         NEW next \in {"ready", "unlock", "dtor"}, Does(a, t, then, next)
  PROVE  act' \in [Actors -> Acts] /\ act'[a].timer = t /\ \A b \in Actors \ {a} : act'[b] = act[b]
<1>1. act' = [act EXCEPT ![a] = [Idle EXCEPT !.timer = t, !.then = then, !.next = next]]
  BY DEF Does
<1>2. [Idle EXCEPT !.timer = t, !.then = then, !.next = next] \in Acts
  BY ActTypes
<1>3. act'[a].timer = t
  BY <1>1 DEF Idle, TInv, TypeOK
<1> QED
  BY <1>1, <1>2, <1>3 DEF TInv, TypeOK

LEMMA LetGoType ==
  ASSUME TInv, NEW a \in Actors, NEW t \in Timers, NEW kept \in BOOLEAN,
         NEW next \in {"ready", "unlock", "dtor"}, LetGo(a, t, kept, next)
  PROVE  /\ pc' = [pc EXCEPT ![a] = pc'[a]] /\ pc'[a] \in {"reset", next}
         /\ act' \in [Actors -> Acts] /\ stopped' \subseteq Timers
         /\ pc'[a] = "reset" => act'[a].timer = t
         /\ \A b \in Actors \ {a} : act'[b] = act[b]
<1>1. CASE kept
  BY <1>1 DEF LetGo, Goto, TInv, TypeOK
<1>2. CASE ~kept
  <2>1. Does(a, t, "delete", next) /\ pc' = [pc EXCEPT ![a] = "reset"] /\ stopped' = stopped \cup {t}
    BY <1>2 DEF LetGo, Goto
  <2>2. /\ act' \in [Actors -> Acts] /\ act'[a].timer = t
        /\ \A b \in Actors \ {a} : act'[b] = act[b]
    BY <2>1, DoesType
  <2> QED
    BY <2>1, <2>2 DEF TInv, TypeOK
<1> QED
  BY <1>1, <1>2

LEMMA DieType == ASSUME TInv, NEW why \in {"freedEvent", "deadTimer", "emptyHandler", "runningCallback"}, Die(why) PROVE TInv'
BY DEF Die, TInv, TypeOK, InHand, shared, fields, history, StartPC, ResetPC, CallPC, LockPC

\* A thread that goes on to another place with a timer in its hands keeps InHand.
LEMMA MoveType ==
  ASSUME TInv, NEW a \in Actors, NEW l, pc' = [pc EXCEPT ![a] = l],
         l \in StartPC \cup ResetPC \cup CallPC \cup LockPC => act'[a].timer \in Timers,
         l = "free" => act'[a].ev # 0,
         l \in StartPC => act'[a].then \in {"ready", "return"},
         \A b \in Actors \ {a} : act'[b] = act[b]
  PROVE  InHand'
BY DEF TInv, TypeOK, InHand, StartPC, ResetPC, CallPC, LockPC

LEMMA TypeChooses == ASSUME TInv, NEW a \in Actors, Chooses(a) PROVE TInv'
<1> USE DEF shared, fields, history
<1>1. CASE GetTimer(a)
  <2>1. PICK t \in Timers : /\ life' = [life EXCEPT ![t] = "alive"]
                            /\ hold' = [hold EXCEPT ![a] = @ \cup {t}]
                            /\ Does(a, t, "ready", "ready")
    BY <1>1 DEF GetTimer
  <2>2. UNCHANGED <<map, mtx, audit, fields, history, running, fault>> /\ pc' = [pc EXCEPT ![a] = "emplace"]
    BY <1>1 DEF GetTimer, Goto
  <2>3. life' \in [Timers -> {"unborn", "alive", "dead"}] /\ hold' \in [Actors -> SUBSET Timers]
    BY <2>1 DEF TInv, TypeOK
  <2>4. act' \in [Actors -> Acts] /\ act'[a].timer = t /\ \A b \in Actors \ {a} : act'[b] = act[b]
    BY <2>1, DoesType
  <2>5. InHand'
    BY <2>2, <2>4, MoveType DEF StartPC, ResetPC, CallPC, LockPC
  <2> QED
    BY <2>2, <2>3, <2>4, <2>5 DEF TInv, TypeOK
<1>7. CASE Take(a)
  <2>1. UNCHANGED <<life, map, mtx, audit, fields, history, running, act, pc, fault>>
    BY <1>7 DEF Take
  <2>2. PICK b \in Actors : \E t \in hold[b] : hold' = [hold EXCEPT ![b] = @ \ {t}, ![a] = @ \cup {t}]
    BY <1>7 DEF Take
  <2>3. hold' \in [Actors -> SUBSET Timers]
    BY <2>2 DEF TInv, TypeOK
  <2>4. InHand'
    BY <2>1 DEF TInv, InHand
  <2> QED
    BY <2>1, <2>3, <2>4 DEF TInv, TypeOK
<1>2. CASE Start(a)
  <2>1. PICK t \in hold[a], n \in Rounds : \/ \E m \in 0..Forever, h \in Handlers : Begin(a, t, m, h, "ready")
                                          \/ Die("runningCallback")
    <3>1. PICK t \in hold[a], n \in Rounds : \/ Begin(a, t, n, [kind |-> "plain", rounds |-> n], "ready")
                                            \/ (n = Forever /\ StartCB(a, t))
                                            \/ Begin(a, t, 1, [kind |-> "after", rounds |-> n], "ready")
      BY <1>2 DEF Start
    <3>2. n \in 0..Forever /\ 1 \in 0..Forever
      OBVIOUS
    <3>3. \A k \in {"plain", "cb", "after"} : [kind |-> k, rounds |-> n] \in Handlers
      BY DEF Handlers
    <3>4. CASE Begin(a, t, n, [kind |-> "plain", rounds |-> n], "ready")
      BY <3>2, <3>3, <3>4
    <3>5. CASE n = Forever /\ StartCB(a, t)
      BY <3>2, <3>3, <3>5 DEF StartCB
    <3>6. CASE Begin(a, t, 1, [kind |-> "after", rounds |-> n], "ready")
      BY <3>2, <3>3, <3>6
    <3> QED
      BY <3>1, <3>4, <3>5, <3>6
  <2>2. t \in Timers
    BY DEF TInv, TypeOK
  <2>3. CASE Die("runningCallback")
    BY <2>3, DieType
  <2>4. ASSUME NEW m \in 0..Forever, NEW h \in Handlers, Begin(a, t, m, h, "ready") PROVE TInv'
    <3>1. UNCHANGED <<shared, round, cur, handler, calls, running, fault>>
      BY <1>2, <2>4 DEF Start, Begin
    <3>2. /\ event' \in [Timers -> 0..MaxStarts]
          /\ heap' \in [Timers -> [Starts -> {"none", "idle", "once", "every", "freed"}]]
          /\ stopped' \subseteq Timers /\ act' \in [Actors -> Acts]
          /\ pc' = [pc EXCEPT ![a] = "add"] /\ act'[a].timer = t /\ act'[a].then = "ready"
          /\ \A b \in Actors \ {a} : act'[b] = act[b]
      BY <2>2, <2>4, BeginType
    <3>3. InHand'
      BY <2>2, <3>2, MoveType
    <3> QED
      BY <2>2, <3>1, <3>2, <3>3 DEF TInv, TypeOK
  <2> QED
    BY <2>1, <2>3, <2>4
<1>3. CASE Stop(a)
  <2>1. PICK t \in hold[a] : stopped' = stopped \cup {t} /\ Does(a, t, "ready", "ready")
    BY <1>3 DEF Stop
  <2>2. t \in Timers
    BY DEF TInv, TypeOK
  <2>3. act' \in [Actors -> Acts] /\ act'[a].timer = t /\ \A b \in Actors \ {a} : act'[b] = act[b]
    BY <2>1, <2>2, DoesType
  <2> QED
    BY <1>3, <2>1, <2>2, <2>3 DEF Stop, Goto, TInv, TypeOK, InHand, StartPC, ResetPC, CallPC, LockPC
<1>4. CASE Drop(a)
  <2>1. PICK t \in hold[a] : /\ hold' = [hold EXCEPT ![a] = @ \ {t}]
                             /\ LetGo(a, t, Others(a, t), "ready")
    BY <1>4 DEF Drop
  <2>2. t \in Timers /\ Others(a, t) \in BOOLEAN
    BY DEF TInv, TypeOK, Others
  <2>3. /\ pc' = [pc EXCEPT ![a] = pc'[a]] /\ pc'[a] \in {"reset", "ready"}
        /\ act' \in [Actors -> Acts] /\ stopped' \subseteq Timers
        /\ pc'[a] = "reset" => act'[a].timer = t
        /\ \A b \in Actors \ {a} : act'[b] = act[b]
    BY <2>1, <2>2, LetGoType
  <2>4. UNCHANGED <<life, map, mtx, audit, fields, calls, running, fault>>
    BY <1>4 DEF Drop
  <2>5. InHand'
    BY <2>2, <2>3, MoveType DEF StartPC, ResetPC, CallPC, LockPC
  <2>6. pc' \in [Actors -> PCs] /\ hold' \in [Actors -> SUBSET Timers]
    BY <2>1, <2>3 DEF TInv, TypeOK, PCs, Between, StartPC, ResetPC, CallPC, LockPC
  <2> QED
    BY <2>3, <2>4, <2>5, <2>6 DEF TInv, TypeOK, PCs, Between, StartPC, ResetPC, CallPC, LockPC
<1>5. CASE KillTimer(a)
  <2>1. PICK t \in Timers : Does(a, t, "ready", "ready")
    BY <1>5 DEF KillTimer, TInv, TypeOK
  <2>2. UNCHANGED <<shared, fields, history, running, fault>> /\ pc' = [pc EXCEPT ![a] = "erase"]
    BY <1>5 DEF KillTimer, Goto
  <2>3. act' \in [Actors -> Acts] /\ act'[a].timer = t /\ \A b \in Actors \ {a} : act'[b] = act[b]
    BY <2>1, DoesType
  <2>4. InHand'
    BY <2>2, <2>3, MoveType DEF StartPC
  <2> QED
    BY <2>2, <2>3, <2>4 DEF TInv, TypeOK
<1>6. CASE DtorAudit(a)
  BY <1>6 DEF DtorAudit, Goto, TInv, TypeOK, InHand, StartPC, ResetPC, CallPC, LockPC
<1> QED
  BY <1>1, <1>2, <1>3, <1>4, <1>5, <1>6, <1>7 DEF Chooses

LEMMA TypeGoes == ASSUME TInv, NEW a \in Actors, Goes(a) PROVE TInv'
<1> USE DEF shared, fields, history
<1>0. /\ pc[a] \in StartPC \cup ResetPC \cup CallPC \cup LockPC => act[a].timer \in Timers
      /\ act[a] \in Acts /\ act[a].then \in {"ready", "return", "call", "delete"}
      /\ act[a].next \in {"ready", "unlock", "dtor"} /\ act[a].rounds \in 0..Forever
      /\ act[a].handler \in Handlers \cup {Empty} /\ act[a].ev \in 0..MaxStarts
  BY DEF TInv, InHand, TypeOK, Acts
<1>1. ASSUME pc[a] \in StartPC \cup ResetPC, UNCHANGED act, NEW l \in PCs, Goto(a, l), l # "free",
             l \in StartPC => pc[a] \in StartPC
      PROVE  InHand' /\ pc' \in [Actors -> PCs]
  <2>1. l \in StartPC => act[a].then \in {"ready", "return"}
    BY <1>1 DEF TInv, InHand
  <2>2. InHand'
    BY <1>0, <1>1, <2>1, MoveType DEF Goto
  <2> QED
    BY <1>1, <2>2 DEF Goto, TInv, TypeOK, PCs, Between, StartPC, ResetPC, CallPC, LockPC
<1>2. ASSUME NEW l \in PCs, Goto(a, l), l \notin StartPC \cup ResetPC \cup CallPC \cup LockPC,
             \A b \in Actors \ {a} : act'[b] = act[b]
      PROVE  InHand' /\ pc' \in [Actors -> PCs]
  <2>1. InHand'
    BY <1>2, MoveType DEF Goto, ResetPC
  <2> QED
    BY <1>2, <2>1 DEF Goto, TInv, TypeOK, PCs, Between, StartPC, ResetPC, CallPC, LockPC
<1>3. CASE StartAdd(a)
  <2> DEFINE t == act[a].timer
  <2>1. t \in Timers
    BY <1>0, <1>3 DEF StartAdd, StartPC
  <2>2. CASE event[t] = 0 \/ heap[t][event[t]] = "freed"
    BY <1>3, <2>2, DieType DEF StartAdd
  <2>3. CASE ~(event[t] = 0 \/ heap[t][event[t]] = "freed")
    <3>1. pc[a] = "add" /\ UNCHANGED <<shared, event, round, cur, handler, calls, running, fault>>
      BY <1>3, <2>3 DEF StartAdd
    <3>2. CASE /\ \E s \in {"every", "once"} : heap' = [heap EXCEPT ![t][event[t]] = s]
               /\ Goto(a, "round") /\ UNCHANGED <<act, stopped>>
      <4>1. event[t] \in Starts
        BY <2>1, <2>3, CellTypes DEF TInv
      <4>2. PICK s \in {"every", "once"} : heap' = [heap EXCEPT ![t][event[t]] = s]
        BY <3>2
      <4>3. heap' \in [Timers -> [Starts -> {"none", "idle", "once", "every", "freed"}]]
        BY <2>1, <4>1, <4>2, CellTypes DEF TInv
      <4>4. InHand' /\ pc' \in [Actors -> PCs]
        BY <3>1, <3>2, <1>1 DEF StartPC, PCs
      <4> QED
        BY <3>1, <3>2, <4>3, <4>4 DEF TInv, TypeOK, PCs, Between, StartPC, ResetPC, CallPC, LockPC
    <3>3. CASE /\ Does(a, t, act[a].then, "ready") /\ stopped' = stopped \cup {t}
               /\ Goto(a, "reset") /\ UNCHANGED heap
      <4>1. act' \in [Actors -> Acts] /\ act'[a].timer = t /\ \A b \in Actors \ {a} : act'[b] = act[b]
        BY <1>0, <2>1, <3>3, DoesType
      <4>2. InHand' /\ pc' = [pc EXCEPT ![a] = "reset"]
        BY <2>1, <3>3, <4>1, MoveType DEF Goto, StartPC
      <4>3. stopped' \subseteq Timers
        BY <2>1, <3>3 DEF TInv, TypeOK
      <4> QED
        BY <3>1, <3>3, <4>1, <4>2, <4>3 DEF TInv, TypeOK
    <3> QED
      BY <1>3, <2>3, <3>2, <3>3 DEF StartAdd
  <2> QED
    BY <2>2, <2>3
<1>4. CASE StartRound(a)
  <2> DEFINE t == act[a].timer
  <2>1. t \in Timers
    BY <1>0, <1>4 DEF StartRound, StartPC
  <2>2. CASE life[t] = "dead"
    BY <1>4, <2>2, DieType DEF StartRound, Writes
  <2>3. CASE life[t] # "dead"
    <3>1. /\ round' = [round EXCEPT ![t] = act[a].rounds] /\ cur' = [cur EXCEPT ![t] = 0]
          /\ Goto(a, "handler") /\ pc[a] = "round"
          /\ UNCHANGED <<shared, event, heap, handler, history, running, act, fault>>
      BY <1>4, <2>3 DEF StartRound, Writes
    <3>2. round' \in [Timers -> 0..Forever] /\ cur' \in [Timers -> 0..Forever + 1]
      BY <1>0, <2>1, <3>1, CellTypes DEF TInv
    <3>3. InHand' /\ pc' \in [Actors -> PCs]
      BY <3>1, <1>1 DEF StartPC, PCs
    <3> QED
      BY <3>1, <3>2, <3>3 DEF TInv, TypeOK, PCs, Between, StartPC, ResetPC, CallPC, LockPC
  <2> QED
    BY <2>2, <2>3
<1>5. CASE StartHandler(a)
  <2> DEFINE t == act[a].timer
  <2>1. t \in Timers
    BY <1>0, <1>5 DEF StartHandler, StartPC
  <2>2. CASE life[t] = "dead"
    BY <1>5, <2>2, DieType DEF StartHandler, Writes
  <2>3. CASE life[t] # "dead"
    <3>1. /\ handler' = [handler EXCEPT ![t] = act[a].handler]
          /\ calls' = [calls EXCEPT ![t] = 0] /\ act' = [act EXCEPT ![a] = Idle]
          /\ Goto(a, act[a].then)
          /\ UNCHANGED <<shared, event, heap, round, cur, stopped, running, fault>>
      BY <1>5, <2>3 DEF StartHandler, Writes
    <3>7. handler' \in [Timers -> Handlers \cup {Empty}]
      BY <1>0, <2>1, <3>1, CellTypes DEF TInv
    <3>2. calls' \in [Timers -> 0..Forever]
      <4>1. 0 \in 0..Forever
        OBVIOUS
      <4> QED
        BY <2>1, <3>1, <4>1, CellTypes DEF TInv
    <3>5. act' \in [Actors -> Acts]
      BY <3>1, ActTypes DEF TInv, TypeOK
    <3>3. \A b \in Actors \ {a} : act'[b] = act[b]
      BY <3>1 DEF TInv, TypeOK
    <3>6. act[a].then \in {"ready", "return"}
      BY <1>5 DEF StartHandler, TInv, InHand, StartPC
    <3>4. InHand' /\ pc' \in [Actors -> PCs]
      BY <3>1, <3>3, <3>6, <1>2 DEF StartPC, ResetPC, CallPC, LockPC, PCs
    <3> QED
      BY <3>1, <3>2, <3>4, <3>5, <3>7 DEF TInv, TypeOK, PCs, Between, StartPC, ResetPC, CallPC, LockPC
  <2> QED
    BY <2>2, <2>3
<1>6. CASE Reset(a)
  <2> DEFINE t == act[a].timer
  <2>1. t \in Timers /\ pc[a] = "reset" /\ UNCHANGED <<shared, fields, history, running, fault>>
    BY <1>0, <1>6 DEF Reset, ResetPC
  <2>2. CASE event[t] = 0
    <3>1. Goto(a, act[a].then) /\ UNCHANGED act /\ act[a].then \in PCs \ ({"free"} \cup StartPC)
      BY <1>0, <1>6, <2>2 DEF Reset, PCs, CallPC, ResetPC, StartPC
    <3>2. InHand' /\ pc' \in [Actors -> PCs]
      BY <2>1, <3>1, <1>1 DEF ResetPC, StartPC
    <3> QED
      BY <2>1, <3>1, <3>2 DEF TInv, TypeOK, PCs, Between, StartPC, ResetPC, CallPC, LockPC
  <2>3. CASE event[t] # 0
    <3>1. event[t] \in 0..MaxStarts
      BY <2>1, CellTypes DEF TInv
    <3>2. /\ act' = [act EXCEPT ![a] = [act[a] EXCEPT !.ev = event[t]]]
          /\ pc' = [pc EXCEPT ![a] = "free"]
      BY <1>6, <2>3 DEF Reset, Goto
    <3>3. [act[a] EXCEPT !.ev = event[t]] \in Acts
      BY <1>0, <3>1, ActTypes
    <3>4. act'[a].timer = t /\ act'[a].ev = event[t]
      BY <1>0, <3>2 DEF Acts, TInv, TypeOK
    <3>5. act' \in [Actors -> Acts] /\ \A b \in Actors \ {a} : act'[b] = act[b]
      BY <3>2, <3>3 DEF TInv, TypeOK
    <3>6. InHand'
      BY <2>1, <2>3, <3>2, <3>4, <3>5, MoveType DEF StartPC
    <3>7. pc' \in [Actors -> PCs]
      BY <3>2 DEF TInv, TypeOK, PCs, Between, StartPC, ResetPC, CallPC, LockPC
    <3> QED
      BY <2>1, <3>5, <3>6, <3>7 DEF TInv, TypeOK, PCs, Between, StartPC, ResetPC, CallPC, LockPC
  <2> QED
    BY <2>2, <2>3
<1>7. CASE ResetFree(a)
  <2> DEFINE t == act[a].timer
  <2>0. pc[a] = "free"
    BY <1>7 DEF ResetFree
  <2>1. t \in Timers /\ act[a].ev \in Starts
    BY <1>0, <2>0 DEF ResetPC, TInv, InHand, Starts
  <2>2. CASE heap[t][act[a].ev] = "freed"
    BY <1>7, <2>2, DieType DEF ResetFree
  <2>3. CASE heap[t][act[a].ev] # "freed"
    <3>1. /\ heap' = [heap EXCEPT ![t][act[a].ev] = "freed"] /\ Goto(a, "null")
          /\ UNCHANGED <<shared, event, round, cur, handler, history, running, act, fault>>
      BY <1>7, <2>3 DEF ResetFree
    <3>2. heap' \in [Timers -> [Starts -> {"none", "idle", "once", "every", "freed"}]]
      BY <2>1, <3>1, CellTypes DEF TInv
    <3>3. InHand' /\ pc' \in [Actors -> PCs]
      BY <2>0, <3>1, <1>1 DEF ResetPC, StartPC, PCs
    <3> QED
      BY <3>1, <3>2, <3>3 DEF TInv, TypeOK, PCs, Between, StartPC, ResetPC, CallPC, LockPC
  <2> QED
    BY <2>2, <2>3
<1>8. CASE ResetNull(a)
  <2>1. /\ pc[a] = "null" /\ event' = [event EXCEPT ![act[a].timer] = 0] /\ Goto(a, "cur")
        /\ UNCHANGED <<shared, heap, round, cur, handler, history, running, act, fault>>
    BY <1>8 DEF ResetNull
  <2>2. event' \in [Timers -> 0..MaxStarts]
    BY <1>0, <2>1, CellTypes DEF TInv, ResetPC
  <2>3. InHand' /\ pc' \in [Actors -> PCs]
    BY <2>1, <1>1 DEF ResetPC, StartPC, PCs
  <2> QED
    BY <2>1, <2>2, <2>3 DEF TInv, TypeOK, PCs, Between, StartPC, ResetPC, CallPC, LockPC
<1>9. CASE ResetCur(a)
  <2> DEFINE t == act[a].timer
  <2>1. t \in Timers /\ pc[a] = "cur" /\ act[a].then \in PCs \ ({"free"} \cup StartPC)
    BY <1>0, <1>9 DEF ResetCur, ResetPC, PCs, CallPC, StartPC
  <2>2. CASE life[t] = "dead"
    BY <1>9, <2>2, DieType DEF ResetCur, Writes
  <2>3. CASE life[t] # "dead"
    <3>1. /\ cur' = [cur EXCEPT ![t] = round[t] + 1] /\ Goto(a, act[a].then)
          /\ UNCHANGED <<shared, event, heap, round, handler, history, running, act, fault>>
      BY <1>9, <2>3 DEF ResetCur, Writes
    <3>2. cur' \in [Timers -> 0..Forever + 1]
      BY <2>1, <3>1, CellTypes DEF TInv
    <3>3. InHand' /\ pc' \in [Actors -> PCs]
      BY <2>1, <3>1, <1>1 DEF ResetPC, StartPC
    <3> QED
      BY <3>1, <3>2, <3>3 DEF TInv, TypeOK, PCs, Between, StartPC, ResetPC, CallPC, LockPC
  <2> QED
    BY <2>2, <2>3
<1>10. CASE Delete(a)
  <2>1. /\ life' = [life EXCEPT ![act[a].timer] = "dead"] /\ act' = [act EXCEPT ![a] = Idle]
        /\ Goto(a, act[a].next) /\ pc[a] = "delete"
        /\ UNCHANGED <<map, hold, mtx, audit, fields, history, running, fault>>
    BY <1>10 DEF Delete
  <2>2. life' \in [Timers -> {"unborn", "alive", "dead"}] /\ act' \in [Actors -> Acts]
    BY <1>0, <2>1, CellTypes, ActTypes DEF TInv, TypeOK, ResetPC
  <2>3. \A b \in Actors \ {a} : act'[b] = act[b]
    BY <2>1 DEF TInv, TypeOK
  <2>4. act[a].next \in PCs \ (StartPC \cup ResetPC \cup CallPC \cup LockPC)
    BY <1>0 DEF StartPC, ResetPC, CallPC, LockPC, PCs
  <2>5. InHand' /\ pc' \in [Actors -> PCs]
    BY <2>1, <2>3, <2>4, <1>2
  <2> QED
    <3>1. UNCHANGED <<map, hold, mtx, audit, event, heap, round, cur, handler, calls, stopped,
                      running, fault>>
      BY <2>1
    <3> QED
      BY <2>2, <2>5, <3>1 DEF TInv, TypeOK, PCs, Between, StartPC, ResetPC, CallPC, LockPC
<1>11. CASE Unlock(a)
  <2>1. /\ mtx' = None /\ Goto(a, "ready")
        /\ UNCHANGED <<life, map, hold, audit, fields, history, running, act, fault>>
    BY <1>11 DEF Unlock
  <2>2. InHand' /\ pc' \in [Actors -> PCs]
    BY <2>1, <1>2 DEF StartPC, ResetPC, CallPC, LockPC, PCs
  <2> QED
    BY <2>1, <2>2 DEF TInv, TypeOK, PCs, Between, StartPC, ResetPC, CallPC, LockPC
<1>12. CASE DtorMap(a)
  <2>1. UNCHANGED <<life, hold, mtx, audit, fields, calls, running, fault>>
    BY <1>12 DEF DtorMap
  <2>2. CASE map = {} /\ Goto(a, "ready") /\ UNCHANGED <<map, act, stopped>>
    <3>1. InHand' /\ pc' \in [Actors -> PCs]
      BY <2>2, <1>2 DEF StartPC, ResetPC, CallPC, LockPC, PCs
    <3> QED
      BY <2>1, <2>2, <3>1 DEF TInv, TypeOK, PCs, Between, StartPC, ResetPC, CallPC, LockPC
  <2>3. ASSUME NEW x \in map, map' = map \ {x}, LetGo(a, x, Holders(x) # {}, "dtor") PROVE TInv'
    <3>1. x \in Timers
      BY DEF TInv, TypeOK
    <3>2. /\ pc' = [pc EXCEPT ![a] = pc'[a]] /\ pc'[a] \in {"reset", "dtor"}
          /\ act' \in [Actors -> Acts] /\ stopped' \subseteq Timers
          /\ pc'[a] = "reset" => act'[a].timer = x
          /\ \A b \in Actors \ {a} : act'[b] = act[b]
      BY <2>3, <3>1, LetGoType
    <3>3. InHand'
      BY <3>1, <3>2, MoveType DEF StartPC, ResetPC, CallPC, LockPC
    <3>4. pc' \in [Actors -> PCs]
      BY <3>2 DEF TInv, TypeOK, PCs, Between, StartPC, ResetPC, CallPC, LockPC
    <3> QED
      BY <2>1, <2>3, <3>2, <3>3, <3>4 DEF TInv, TypeOK, PCs, Between, StartPC, ResetPC, CallPC, LockPC
  <2> QED
    BY <1>12, <2>2, <2>3 DEF DtorMap
<1>13. CASE Emplace(a)
  <2>1. /\ map' = map \cup {act[a].timer} /\ Goto(a, "ready") /\ pc[a] = "emplace"
        /\ UNCHANGED <<life, hold, mtx, audit, fields, history, running, act, fault>>
    BY <1>13 DEF Emplace
  <2>2. map' \subseteq Timers
    BY <1>0, <2>1 DEF LockPC, TInv, TypeOK
  <2>3. InHand' /\ pc' \in [Actors -> PCs]
    BY <2>1, <1>2 DEF StartPC, ResetPC, CallPC, LockPC, PCs
  <2> QED
    BY <2>1, <2>2, <2>3 DEF TInv, TypeOK, PCs, Between, StartPC, ResetPC, CallPC, LockPC
<1>14. CASE Erase(a)
  <2> DEFINE t == act[a].timer
             kept == t \notin map \/ Holders(t) # {}
  <2>1. /\ mtx' = a /\ map' = map \ {t} /\ LetGo(a, t, kept, "unlock") /\ pc[a] = "erase"
        /\ UNCHANGED <<life, hold, audit, fields, calls, running, fault>>
    BY <1>14 DEF Erase
  <2>2. t \in Timers /\ kept \in BOOLEAN
    BY <1>0, <2>1 DEF LockPC
  <2> HIDE DEF t, kept
  <2>3. /\ pc' = [pc EXCEPT ![a] = pc'[a]] /\ pc'[a] \in {"reset", "unlock"}
        /\ act' \in [Actors -> Acts] /\ stopped' \subseteq Timers
        /\ pc'[a] = "reset" => act'[a].timer = t
        /\ \A b \in Actors \ {a} : act'[b] = act[b]
    BY <2>1, <2>2, LetGoType
  <2>4. InHand'
    BY <2>2, <2>3, MoveType DEF StartPC, ResetPC, CallPC, LockPC
  <2>5. pc' \in [Actors -> PCs]
    BY <2>3 DEF TInv, TypeOK, PCs, Between, StartPC, ResetPC, CallPC, LockPC
  <2> QED
    BY <2>1, <2>3, <2>4, <2>5 DEF TInv, TypeOK, PCs, Between, StartPC, ResetPC, CallPC, LockPC
<1> QED
  BY <1>3, <1>4, <1>5, <1>6, <1>7, <1>8, <1>9, <1>10, <1>11, <1>12, <1>13, <1>14 DEF Goes

LEMMA LoopMoveType ==
  ASSUME TInv, NEW l \in PCs \ {"free"}, Goto(Loop, l),
         l \in StartPC \cup ResetPC \cup CallPC \cup LockPC => act'[Loop].timer \in Timers,
         l \in StartPC => act'[Loop].then \in {"ready", "return"},
         \A b \in Actors \ {Loop} : act'[b] = act[b]
  PROVE  InHand' /\ pc' \in [Actors -> PCs]
<1>1. InHand'
  BY MoveType DEF Goto, Actors
<1> QED
  BY <1>1 DEF Goto, TInv, TypeOK, PCs, Between, StartPC, ResetPC, CallPC, LockPC

LEMMA TypeFire == ASSUME TInv, NEW t \in Timers, Fire(t) PROVE TInv'
<1> USE DEF shared, fields, history
<1>1. PICK k \in Starts :
        /\ heap' = [heap EXCEPT ![t][k] = IF @ = "once" THEN "idle" ELSE @]
        /\ running' = [timer |-> t, ev |-> k, cb |-> handler[t].kind = "cb"]
  BY DEF Fire
<1>2. /\ act' = [act EXCEPT ![Loop] = [Idle EXCEPT !.timer = t, !.handler = handler[t], !.then = "call"]]
      /\ Goto(Loop, "count")
      /\ UNCHANGED <<shared, event, round, cur, handler, history, fault>>
  BY DEF Fire
<1>3. [Idle EXCEPT !.timer = t, !.handler = handler[t], !.then = "call"] \in Acts
  BY CellTypes, ActTypes DEF TInv
<1>4. act' \in [Actors -> Acts] /\ act'[Loop].timer = t /\ \A b \in Actors \ {Loop} : act'[b] = act[b]
  BY <1>2, <1>3 DEF TInv, TypeOK, Idle, Actors
<1>5. running' \in [timer : Timers, ev : Starts, cb : BOOLEAN] \cup {NotRunning}
  BY <1>1 DEF Starts
<1>6. heap' \in [Timers -> [Starts -> {"none", "idle", "once", "every", "freed"}]]
  <2> DEFINE e == IF heap[t][k] = "once" THEN "idle" ELSE heap[t][k]
  <2>0. heap[t][k] \in {"none", "idle", "once", "every", "freed"}
    <3>1. heap \in [Timers -> [Starts -> {"none", "idle", "once", "every", "freed"}]]
      BY DEF TInv, TypeOK
    <3> QED
      BY <3>1
  <2>1. e \in {"none", "idle", "once", "every", "freed"}
    BY <2>0
  <2>2. heap' = [heap EXCEPT ![t][k] = e]
    BY <1>1
  <2> HIDE DEF e
  <2> QED
    BY <2>1, <2>2, CellTypes DEF TInv
<1>7. InHand' /\ pc' \in [Actors -> PCs]
  BY LoopMoveType, <1>2, <1>4 DEF PCs, CallPC, ResetPC, StartPC
<1> QED
  BY <1>2, <1>4, <1>5, <1>6, <1>7 DEF TInv, TypeOK, PCs, Between, StartPC, ResetPC, CallPC, LockPC

LEMMA TypeLoop == ASSUME TInv, Handles PROVE TInv'
<1> USE DEF shared, fields, history
<1>0. /\ Loop \in Actors /\ act[Loop] \in Acts
      /\ pc[Loop] \in StartPC \cup ResetPC \cup CallPC \cup LockPC => act[Loop].timer \in Timers
  BY DEF TInv, InHand, TypeOK, Actors
<1>3. CASE Count
  <2> DEFINE t == act[Loop].timer
  <2>1. /\ cur' = [cur EXCEPT ![t] = Counted(cur[t])] /\ pc[Loop] = "count"
        /\ \E l \in {"last", "call"} : Goto(Loop, l)
        /\ UNCHANGED <<shared, event, heap, round, handler, history, running, act, fault>>
    BY <1>3 DEF Count
  <2>2. t \in Timers
    BY <1>0, <2>1 DEF CallPC
  <2>3. Counted(cur[t]) \in 0..Forever + 1
    BY <2>2, CellTypes DEF TInv, Counted
  <2>4. cur' \in [Timers -> 0..Forever + 1]
    BY <2>1, <2>2, <2>3, CellTypes DEF TInv
  <2>5. InHand' /\ pc' \in [Actors -> PCs]
    BY LoopMoveType, <2>1, <2>2 DEF PCs, CallPC, StartPC
  <2> QED
    BY <2>1, <2>4, <2>5 DEF TInv, TypeOK, PCs, Between, StartPC, ResetPC, CallPC, LockPC
<1>4. CASE Last
  <2> DEFINE t == act[Loop].timer
  <2>1. t \in Timers
    BY <1>0, <1>4 DEF Last, CallPC
  <2>2. CASE event[t] = 0 \/ heap[t][event[t]] = "freed"
    BY <1>4, <2>2, DieType DEF Last
  <2>3. CASE ~(event[t] = 0 \/ heap[t][event[t]] = "freed")
    <3>1. /\ heap' = [heap EXCEPT ![t][event[t]] = "idle"] /\ Goto(Loop, "reset")
          /\ UNCHANGED <<shared, event, round, cur, handler, history, running, act, fault>>
      BY <1>4, <2>3 DEF Last
    <3>2. event[t] \in Starts
      BY <2>1, <2>3, CellTypes DEF TInv
    <3>3. heap' \in [Timers -> [Starts -> {"none", "idle", "once", "every", "freed"}]]
      BY <2>1, <3>1, <3>2, CellTypes DEF TInv
    <3>4. InHand' /\ pc' \in [Actors -> PCs]
      BY LoopMoveType, <2>1, <3>1 DEF PCs, ResetPC, StartPC
    <3> QED
      BY <3>1, <3>3, <3>4 DEF TInv, TypeOK, PCs, Between, StartPC, ResetPC, CallPC, LockPC
  <2> QED
    BY <2>2, <2>3
<1>5. CASE Call
  <2> DEFINE t == act[Loop].timer
             h == act[Loop].handler
  <2>1. t \in Timers /\ h \in Handlers \cup {Empty} /\ pc[Loop] = "call"
    BY <1>0, <1>5 DEF Call, CallPC, Acts
  <2>2. CASE \E why \in {"deadTimer", "emptyHandler"} : Die(why)
    BY <2>2, DieType
  <2>3. CASE /\ calls' = [calls EXCEPT ![t] = IF @ < Forever THEN @ + 1 ELSE @]
             /\ h.kind # "empty"
             /\ IF h.kind = "after"
                THEN AfterLambda(t, h.rounds)
                ELSE Goto(Loop, "ready") /\ UNCHANGED <<event, heap, stopped, act>>
             /\ UNCHANGED <<shared, round, cur, handler, running, fault>>
    <3>1. h \in Handlers /\ h.rounds \in 0..Forever
      <4>1. h \in Handlers
        BY <2>1, <2>3 DEF Empty
      <4>2. h.rounds \in Rounds
        BY <4>1 DEF Handlers
      <4> QED
        BY <4>1, <4>2, RoundsCounted
    <3>2. calls' \in [Timers -> 0..Forever]
      BY <2>1, <2>3, CellTypes DEF TInv
    <3>3. CASE /\ \E l \in {"ready", "return"} : Goto(Loop, l)
               /\ UNCHANGED <<event, heap, stopped, act>>
      <4>1. InHand' /\ pc' \in [Actors -> PCs]
        BY LoopMoveType, <3>3 DEF PCs, StartPC, ResetPC, CallPC, LockPC
      <4> QED
        BY <2>3, <3>2, <3>3, <4>1 DEF TInv, TypeOK, PCs, Between, StartPC, ResetPC, CallPC, LockPC
    <3>5. CASE Begin(Loop, t, h.rounds, [kind |-> "plain", rounds |-> h.rounds], "return")
      <4>1. [kind |-> "plain", rounds |-> h.rounds] \in Handlers
        BY <3>1 DEF Handlers
      <4>2. /\ event' \in [Timers -> 0..MaxStarts]
            /\ heap' \in [Timers -> [Starts -> {"none", "idle", "once", "every", "freed"}]]
            /\ stopped' \subseteq Timers /\ act' \in [Actors -> Acts]
            /\ pc' = [pc EXCEPT ![Loop] = "add"] /\ act'[Loop].timer = t
            /\ act'[Loop].then = "return" /\ \A b \in Actors \ {Loop} : act'[b] = act[b]
        BY <1>0, <2>1, <3>1, <3>5, <4>1, BeginType
      <4>3. InHand' /\ pc' \in [Actors -> PCs]
        BY LoopMoveType, <2>1, <4>2 DEF PCs, StartPC, Goto
      <4> QED
        BY <2>3, <3>2, <4>2, <4>3 DEF TInv, TypeOK, PCs, Between, StartPC, ResetPC, CallPC, LockPC
    <3> QED
      BY <2>3, <3>1, <3>3, <3>5 DEF AfterLambda
  <2>4. h.kind \in {"empty", "plain", "cb", "after"}
    BY <2>1 DEF Handlers, Empty
  <2> QED
    BY <1>5, <2>2, <2>3, <2>4 DEF Call
<1>6. CASE CallReturn
  <2>1. /\ running' = NotRunning /\ Goto(Loop, "poll")
        /\ UNCHANGED <<shared, fields, history, act, fault>>
    BY <1>6 DEF CallReturn
  <2>2. InHand' /\ pc' \in [Actors -> PCs]
    BY LoopMoveType, <2>1 DEF PCs, Between, StartPC, ResetPC, CallPC, LockPC
  <2>3. running' \in [timer : Timers, ev : Starts, cb : BOOLEAN] \cup {NotRunning}
    BY <2>1 DEF NotRunning
  <2> QED
    BY <2>1, <2>2, <2>3 DEF TInv, TypeOK, PCs, Between, StartPC, ResetPC, CallPC, LockPC
<1>7. CASE LoopOver
  <2>1. Goto(Loop, "over") /\ UNCHANGED <<shared, fields, history, running, act, fault>>
    BY <1>7 DEF LoopOver
  <2>2. InHand' /\ pc' \in [Actors -> PCs]
    BY LoopMoveType, <2>1 DEF PCs, Between, StartPC, ResetPC, CallPC, LockPC
  <2> QED
    BY <2>1, <2>2 DEF TInv, TypeOK, PCs, Between, StartPC, ResetPC, CallPC, LockPC
<1>8. CASE CBStop
  <2> DEFINE t == running.timer
  <2>1. CASE life[t] = "dead"
    BY <1>8, <2>1, DieType DEF CBStop, Writes
  <2>2. CASE life[t] # "dead"
    <3>1. /\ stopped' = stopped \cup {t} /\ Does(Loop, t, "return", "ready") /\ Goto(Loop, "reset")
          /\ UNCHANGED <<shared, fields, calls, running, fault>> /\ running.cb
      BY <1>8, <2>2 DEF CBStop, Writes
    <3>2. t \in Timers
      BY <3>1 DEF TInv, TypeOK, NotRunning
    <3>3. /\ act' \in [Actors -> Acts] /\ act'[Loop].timer = t
          /\ \A b \in Actors \ {Loop} : act'[b] = act[b]
      BY <1>0, <3>1, <3>2, DoesType
    <3>4. InHand' /\ pc' \in [Actors -> PCs]
      BY LoopMoveType, <3>1, <3>2, <3>3 DEF PCs, ResetPC, StartPC
    <3> QED
      BY <3>1, <3>2, <3>3, <3>4 DEF TInv, TypeOK, PCs, Between, StartPC, ResetPC, CallPC, LockPC
  <2> QED
    BY <2>1, <2>2
<1> QED
  BY <1>3, <1>4, <1>5, <1>6, <1>7, <1>8 DEF Handles

LEMMA TypeManager == ASSUME TInv, AuditFire \/ Audit \/ AuditAdd PROVE TInv'
<1> USE DEF shared, fields, history
<1>1. CASE AuditAdd
  BY <1>1 DEF AuditAdd, TInv, TypeOK, InHand
<1>2. CASE Audit
  <2> DEFINE gone == {t \in map : isFinished(t)}
             freed == {t \in gone : Holders(t) = {}}
  <2>1. /\ map' = map \ gone /\ stopped' = stopped \cup freed
        /\ life' = [t \in Timers |-> IF t \in freed THEN "dead" ELSE life[t]]
        /\ heap' = [t \in Timers |-> IF t \in freed /\ event[t] # 0
                                     THEN [heap[t] EXCEPT ![event[t]] = "freed"] ELSE heap[t]]
        /\ UNCHANGED <<hold, mtx, audit, event, round, cur, handler, calls, running, act, fault>>
        /\ Goto(Loop, "poll")
    BY <1>2 DEF Audit
  <2>2. map' \subseteq Timers /\ stopped' \subseteq Timers
    BY <2>1 DEF TInv, TypeOK
  <2> HIDE DEF freed
  <2>3. life' \in [Timers -> {"unborn", "alive", "dead"}]
    BY <2>1 DEF TInv, TypeOK
  <2>4. heap' \in [Timers -> [Starts -> {"none", "idle", "once", "every", "freed"}]]
    BY <2>1 DEF TInv, TypeOK
  <2>5. InHand' /\ pc' \in [Actors -> PCs]
    BY LoopMoveType, <2>1 DEF PCs, Between, StartPC, ResetPC, CallPC, LockPC
  <2> QED
    BY <2>1, <2>2, <2>3, <2>4, <2>5 DEF TInv, TypeOK, PCs, Between, StartPC, ResetPC, CallPC, LockPC
<1>3. CASE AuditFire
  <2>1. Goto(Loop, "audit") /\ UNCHANGED <<shared, fields, history, running, act, fault>>
    BY <1>3 DEF AuditFire
  <2>2. InHand' /\ pc' \in [Actors -> PCs]
    BY LoopMoveType, <2>1 DEF PCs, Between, StartPC, ResetPC, CallPC, LockPC
  <2> QED
    BY <2>1, <2>2 DEF TInv, TypeOK, PCs, Between, StartPC, ResetPC, CallPC, LockPC
<1> QED
  BY <1>1, <1>2, <1>3

LEMMA TypeStep == TInv /\ [Next]_vars => TInv'
<1>1. ASSUME TInv, UNCHANGED vars PROVE TInv'
  BY <1>1 DEF vars, shared, fields, history, TInv, TypeOK, InHand
<1> QED
  BY <1>1, TypeChooses, TypeGoes, TypeFire, TypeLoop, TypeManager DEF Next

\* Every variable keeps its type, whatever the use: in particular no counter passes its
\* bound, and _event is a start that was made.
THEOREM TypeCorrect == Spec => []TypeOK
<1>1. TInv => TypeOK
  BY DEF TInv
<1> QED
  BY <1>1, TypeInit, TypeStep, PTL DEF Spec

-----------------------------------------------------------------------------
(* What a step leaves alone                                                 *)

LEMMA MadeSame ==
  ASSUME NEW t \in Timers, \A k \in Starts : heap'[t][k] = "none" <=> heap[t][k] = "none"
  PROVE  Made(t)' = Made(t)
<1>1. {k \in Starts : heap'[t][k] # "none"} = {k \in Starts : heap[t][k] # "none"}
  OBVIOUS
<1> QED
  BY <1>1 DEF Made, Starts

LEMMA HeapSame ==
  ASSUME NEW t \in Timers, heap'[t] = heap[t]
  PROVE  Made(t)' = Made(t) /\ Pending(t)' = Pending(t)
BY MadeSame DEF Pending, Starts

LEMMA OwnersSame ==
  UNCHANGED <<map, hold>> => \A t \in Timers : Unowned(t)' = Unowned(t)
BY DEF Unowned

\* A thread may kill t, or the manager be destroyed, as far as t goes: see Doom.
MayGo(t) == t \notin map \/ (\E a \in Actors : t \in hold[a]) \/ Spared(t)

\* Nothing that Sound(u) is about changes, except that u may go into the map while a thread
\* holds it, or out of it.
SameData(u) ==
  /\ audit' = "gone" => audit = "gone" \/ MayGo(u)
  /\ u \in map' => u \in map \/ \E a \in Actors : u \in hold[a]
  /\ life'[u] = life[u] /\ Unowned(u)' = Unowned(u) /\ (u \in stopped' <=> u \in stopped)
  /\ \A a \in Actors : u \in hold'[a] <=> u \in hold[a]
  /\ event'[u] = event[u] /\ heap'[u] = heap[u] /\ handler'[u] = handler[u]
  /\ round'[u] = round[u] /\ cur'[u] = cur[u] /\ calls'[u] = calls[u]
  /\ running'.timer = u \/ running.timer = u => running' = running

SameThreads(u) ==
  \A a \in Actors :
    /\ At(a, u, Active) \/ At(a, u, Active)' => pc'[a] = pc[a] /\ act'[a] = act[a]
    /\ At(a, u, {"emplace"})' => At(a, u, {"emplace"})
    /\ At(a, u, {"erase"})' => At(a, u, {"erase"}) \/ a = Loop \/ MayGo(u)

LEMMA Frame ==
  ASSUME NEW u \in Timers, SameData(u), SameThreads(u), Sound(u)
  PROVE  Sound(u)'
<1> USE DEF SameData
<1>1. Made(u)' = Made(u) /\ Pending(u)' = Pending(u) /\ Unowned(u)' = Unowned(u)
  BY MadeSame DEF Pending, Unowned, Starts
<1>2. \A a \in Actors : \A S \in SUBSET Active : At(a, u, S)' = At(a, u, S)
  BY DEF SameThreads, At
<1>3. \A a \in Actors : At(a, u, Active) => pc'[a] = pc[a] /\ act'[a] = act[a]
  BY DEF SameThreads
<1>4. InCallback(u)' = InCallback(u)
  BY <1>2, <1>3 DEF InCallback, Active, Actors, At, ResetPC, CallPC
<1> DEFINE Sets == {StartPC, ResetPC, CallPC, Active, StartPC \cup ResetPC, {"add"}, {"null"},
                    {"free", "null"}, {"cur", "delete"}, {"cur"}, {"handler"}, {"round"}, {"last"}}
<1>5. \A a \in Actors, S \in Sets : At(a, u, S)' = At(a, u, S)
  BY <1>2 DEF Active, StartPC, ResetPC, CallPC
<1>6. \A a \in Actors, S \in Sets : At(a, u, S) => pc'[a] = pc[a] /\ act'[a] = act[a]
  BY <1>3 DEF Active, StartPC, ResetPC, CallPC, At
<1>7. Loop \in Actors /\ Users \subseteq Actors
  BY DEF Actors
<1>8. InCallback(u) => pc'[Loop] = pc[Loop] /\ act'[Loop] = act[Loop] /\ (running.timer = u => running' = running)
  BY <1>6, <1>7 DEF InCallback
<1>9. Owned(u)'
  BY <1>1, <1>5 DEF Sound, Owned
<1>10. Events(u)'
  BY <1>1, <1>5, <1>6 DEF Sound, Events
<1>11. Steps(u)'
  BY <1>5, <1>6 DEF Sound, Steps
<1>12. Rights(u)'
  <2>1. /\ Endless(u)' = Endless(u) /\ InCB(u)' = InCB(u)
        /\ running'.timer = u <=> running.timer = u
        /\ running.timer = u => running'.cb = running.cb
    BY DEF Endless, InCB
  <2>2. \A a \in Actors : /\ At(a, u, ResetPC) => act'[a].then = act[a].then /\ pc'[a] = pc[a]
                          /\ At(a, u, StartPC) => act'[a].then = act[a].then
    BY <1>6
  <2>3. \A a \in Actors : /\ At(a, u, StartPC)' = At(a, u, StartPC)
                          /\ At(a, u, ResetPC)' = At(a, u, ResetPC)
                          /\ At(a, u, {"emplace"})' => At(a, u, {"emplace"})
    BY <1>5 DEF SameThreads
  <2>4. /\ At(Loop, u, {"last"})' = At(Loop, u, {"last"})
        /\ At(Loop, u, CallPC)' = At(Loop, u, CallPC)
    BY <1>5, <1>7
  <2> QED
    BY <1>1, <1>7, <2>1, <2>2, <2>3, <2>4 DEF Sound, Rights
<1>18. Doom(u)'
  <2>1. Spared(u)' = Spared(u)
    BY DEF Spared, Endless, InCB
  <2>2. Doomed(u)' => Doomed(u) \/ MayGo(u)
    BY <1>7 DEF Doomed, At, SameThreads
  <2> QED
    BY <2>1, <2>2 DEF Sound, Doom, MayGo
<1>13. Alone(u)'
  BY <1>5 DEF Sound, Alone
<1>14. Callback(u)'
  BY <1>4, <1>8 DEF Sound, Callback
<1>15. Rounded(u)' = Rounded(u)
  BY <1>1, <1>5, <1>7 DEF Rounded
<1>16. Called(u)' = Called(u)
  BY <1>1, <1>4, <1>8 DEF Called
<1>17. Counts(u)'
  BY <1>1, <1>5, <1>15, <1>16 DEF Sound, Counts
<1> QED
  BY <1>9, <1>10, <1>11, <1>12, <1>13, <1>14, <1>17, <1>18 DEF Sound

\* A step of thread a that is about timer t.
LEMMA Elsewhere ==
  ASSUME NEW t \in Timers, NEW a \in Actors,
         \A b \in Actors \ {a} : pc'[b] = pc[b] /\ act'[b] = act[b],
         pc[a] \in Engaged => act[a].timer = t, pc'[a] \in Engaged => act'[a].timer = t,
         \A u \in Timers \ {t} : SameData(u), \A u \in Timers : Sound(u), Sound(t)'
  PROVE  \A u \in Timers : Sound(u)'
<1> SUFFICES ASSUME NEW u \in Timers \ {t} PROVE Sound(u)'
  OBVIOUS
<1>1. SameThreads(u)
  BY DEF SameThreads, At, Engaged, LockPC
<1> QED
  BY <1>1, Frame

LEMMA UserPlaces ==
  ASSUME Places, NEW u \in Users, UNCHANGED running,
         \A b \in Actors \ {u} : pc'[b] = pc[b] /\ act'[b] = act[b],
         pc'[u] \in {"ready", "unlock", "dtor"} \cup LockPC \cup StartPC \cup ResetPC,
         pc'[u] \in ResetPC => act'[u].then \in {"ready", "delete"},
         pc'[u] = "delete" => act'[u].then = "delete",
         pc'[u] \in StartPC => act'[u].then = "ready" /\ act'[u].rounds >= 1 /\ act'[u].handler # Empty
  PROVE  Places'
BY DEF Places, Actors, Active

LEMMA LoopPlaces ==
  ASSUME Places, \A u \in Users : pc'[u] = pc[u] /\ act'[u] = act[u],
         pc'[Loop] \in {"ready", "return", "unlock"} \cup Between \cup LockPC \cup Active,
         pc'[Loop] \notin Between => running'.timer \in Timers /\ running'.ev \in Starts,
         pc'[Loop] \in Between => running'.timer = None,
         pc'[Loop] \in CallPC => act'[Loop].then = "call",
         pc'[Loop] \in ResetPC \cup CallPC => act'[Loop].next # "dtor",
         pc'[Loop] = "delete" => act'[Loop].then = "delete",
         pc'[Loop] \in StartPC => act'[Loop].rounds >= 1 /\ act'[Loop].handler # Empty
  PROVE  Places'
BY DEF Places, Actors, Active

\* What gives t to a thread, or spares it still, and leaves it in the map dooms nobody.
LEMMA DoomKept ==
  ASSUME NEW t \in Timers, Doom(t), UNCHANGED <<map, hold, audit>>,
         \A u \in Users : pc'[u] = "erase" => pc[u] = "erase" /\ act'[u] = act[u],
         (\A a \in Actors : t \notin hold[a]) /\ Spared(t) => Spared(t)'
  PROVE  Doom(t)'
<1>1. Doomed(t)' => Doomed(t)
  BY DEF Doomed
<1> QED
  BY <1>1 DEF Doom

\* The thread at work is the only one, and the timer is there.
LEMMA AtWork ==
  ASSUME IInv, NEW a \in Actors, NEW t \in Timers, act[a].timer = t, pc[a] \in Active
  PROVE  /\ Sound(t) /\ life[t] = "alive"
         /\ pc[a] \in StartPC \cup ResetPC =>
              \A b \in Actors \ {a} : ~At(b, t, StartPC \cup ResetPC)
<1>1. Sound(t)
  BY DEF IInv
<1>2. life[t] = "alive"
  BY <1>1 DEF Sound, Owned, At
<1>3. ASSUME pc[a] \in StartPC \cup ResetPC, NEW b \in Actors \ {a} PROVE ~At(b, t, StartPC \cup ResetPC)
  BY <1>1, <1>3 DEF Sound, Alone, At
<1> QED
  BY <1>1, <1>2, <1>3

LEMMA DoesIs ==
  ASSUME IInv, NEW a \in Actors, NEW t \in Timers, NEW then, NEW next, Does(a, t, then, next)
  PROVE  /\ act'[a].timer = t /\ act'[a].then = then /\ act'[a].next = next
         /\ \A b \in Actors \ {a} : act'[b] = act[b]
BY DEF Does, Idle, IInv, TInv, TypeOK

LEMMA StartThen ==
  ASSUME IInv, NEW a \in Actors, pc[a] \in StartPC
  PROVE  act[a].then \in {"ready", "return"} /\ (a \in Users => act[a].then = "ready")
BY DEF IInv, TInv, InHand, Places

LEMMA InvStartRound ==
  ASSUME IInv, TInv', NEW a \in Actors, NEW t \in Timers, act[a].timer = t, StartRound(a)
  PROVE  IInv'
<1>1. pc[a] = "round"
  BY DEF StartRound
<1>2. /\ Sound(t) /\ life[t] = "alive"
      /\ \A b \in Actors \ {a} : ~At(b, t, StartPC \cup ResetPC)
  BY <1>1, AtWork DEF StartPC, Active
<1>3. /\ round' = [round EXCEPT ![t] = act[a].rounds] /\ cur' = [cur EXCEPT ![t] = 0]
      /\ pc' = [pc EXCEPT ![a] = "handler"]
      /\ UNCHANGED <<shared, event, heap, handler, history, running, act, fault>>
  BY <1>2 DEF StartRound, Writes, Goto
<1>4. /\ round'[t] = act[a].rounds /\ cur'[t] = 0 /\ pc'[a] = "handler"
      /\ \A b \in Actors \ {a} : pc'[b] = pc[b] /\ act'[b] = act[b]
      /\ UNCHANGED <<life, map, hold, audit, event, heap, handler, calls, stopped, running, act, fault>>
  BY <1>2, <1>3 DEF IInv, TInv, TypeOK, shared, history
<1>5. \A u \in Timers \ {t} : SameData(u)
  BY <1>2, <1>3, <1>4, OwnersSame DEF IInv, TInv, TypeOK, SameData
<1>6. Places'
  <2>1. act[a].rounds >= 1 /\ act[a].handler # Empty
    BY <1>1 DEF IInv, Places, StartPC
  <2>2. CASE a = Loop
    BY <1>1, <1>4, <2>1, <2>2, LoopPlaces DEF IInv, Places, StartPC, ResetPC, CallPC, LockPC, Active, Engaged, Between, Actors
  <2>3. CASE a \in Users
    BY <1>1, <1>4, <2>1, <2>3, StartThen, UserPlaces DEF IInv, StartPC, ResetPC, CallPC, LockPC, Active, Engaged, Actors
  <2> QED
    BY <2>2, <2>3 DEF Actors
<1>7. Made(t)' = Made(t) /\ Pending(t)' = Pending(t) /\ Unowned(t)' = Unowned(t)
  BY <1>2, <1>4, HeapSame, OwnersSame
<1>70. ~InCallback(t) /\ ~InCallback(t)'
  BY <1>1, <1>2, <1>4 DEF Sound, Rights, Callback, InCallback, At, StartPC, ResetPC, CallPC, LockPC, Actors
<1> USE DEF At, StartPC, ResetPC, CallPC, LockPC, Active, Engaged, Actors
<1>8. Owned(t)'
  BY <1>1, <1>2, <1>4, <1>7 DEF Sound, Owned
<1>9. Events(t)'
  BY <1>1, <1>2, <1>4, <1>7 DEF Sound, Events
<1>10. Steps(t)'
  BY <1>1, <1>2, <1>4, <1>7 DEF Sound, Steps
<1>11. Rights(t)'
  BY <1>1, <1>2, <1>4, <1>7, <1>70 DEF Sound, Rights, InCallback
<1>12. Alone(t)'
  BY <1>1, <1>2, <1>4, <1>7 DEF Sound, Alone
<1>13. Callback(t)'
  BY <1>70 DEF Callback
<1>14. Counts(t)'
  <2>1. At(a, t, StartPC)' /\ event'[t] # 0
    BY <1>1, <1>2, <1>4 DEF Sound, Steps
  <2>2. cur'[t] = 0 /\ round'[t] >= 1 /\ round'[t] \in Nat
    BY <1>1, <1>2, <1>4 DEF IInv, Places, TInv, TypeOK
  <2>3. Rounded(t)'
    BY <2>1, <2>2 DEF Rounded
  <2>4. Made(t)' = 0 => calls'[t] = 0
    BY <1>2, <1>4, <1>7 DEF Sound, Counts
  <2> QED
    BY <1>1, <1>2, <1>4, <2>1, <2>2, <2>3, <2>4 DEF Counts
<1>15. Doom(t)'
  <2>1. \A u \in Users : pc'[u] = "erase" => pc[u] = "erase" /\ act'[u] = act[u]
    BY <1>1, <1>4
  <2>2. (\E b \in Actors : t \in hold[b]) \/ ~Spared(t)
    BY <1>1, <1>2, StartThen DEF Sound, Rights, Spared, Endless
  <2> QED
    BY <1>2, <1>4, <2>1, <2>2, DoomKept DEF Sound
<1> QED
  BY <1>1, <1>2, <1>4, <1>5, <1>6, <1>8, <1>9, <1>10, <1>11, <1>12, <1>13, <1>14, <1>15, Elsewhere DEF Sound, IInv

LEMMA InvStartAdds ==
  ASSUME IInv, TInv', NEW a \in Actors, NEW t \in Timers, act[a].timer = t, StartAdd(a),
         pc' = [pc EXCEPT ![a] = "round"]
  PROVE  IInv'
<1>1. pc[a] = "add"
  BY DEF StartAdd
<1>2. /\ Sound(t) /\ life[t] = "alive"
      /\ \A b \in Actors \ {a} : ~At(b, t, StartPC \cup ResetPC)
  BY <1>1, AtWork DEF StartPC, Active
<1>3. event[t] # 0 /\ event[t] \in Starts /\ heap[t][event[t]] = "idle"
  <2>1. event[t] # 0 /\ heap[t][event[t]] = "idle"
    BY <1>1, <1>2 DEF Sound, Steps, At, StartPC
  <2> QED
    BY <2>1, CellTypes DEF IInv, TInv
<1>5. /\ \E s \in {"every", "once"} : heap' = [heap EXCEPT ![t][event[t]] = s]
      /\ UNCHANGED <<shared, event, round, cur, handler, history, running, act, fault>>
  BY <1>1, <1>3 DEF StartAdd, Goto, history, IInv, TInv, TypeOK
<1>4. PICK s \in {"every", "once"} : heap' = [heap EXCEPT ![t][event[t]] = s]
  BY <1>5
<1>6. /\ pc'[a] = "round"
      /\ \A b \in Actors \ {a} : pc'[b] = pc[b] /\ act'[b] = act[b]
      /\ UNCHANGED <<life, map, hold, audit, event, round, cur, handler, calls, stopped, running, act, fault>>
  BY <1>5 DEF IInv, TInv, TypeOK, shared, history
<1>7. /\ \A u \in Timers \ {t} : heap'[u] = heap[u]
      /\ heap'[t][event[t]] = s /\ \A k \in Starts \ {event[t]} : heap'[t][k] = heap[t][k]
  <2>1. heap \in [Timers -> [Starts -> {"none", "idle", "once", "every", "freed"}]]
    BY DEF IInv, TInv, TypeOK
  <2>2. heap[t] \in [Starts -> {"none", "idle", "once", "every", "freed"}]
    BY <2>1
  <2> QED
    BY <1>3, <1>4, <2>1, <2>2
<1>8. \A u \in Timers \ {t} : SameData(u)
  BY <1>6, <1>7, OwnersSame DEF SameData
<1>9. Places'
  <2>1. act[a].rounds >= 1 /\ act[a].handler # Empty
    BY <1>1 DEF IInv, Places, StartPC
  <2>2. CASE a = Loop
    BY <1>1, <1>6, <2>1, <2>2, LoopPlaces DEF IInv, Places, StartPC, ResetPC, CallPC, LockPC, Active, Engaged, Between, Actors
  <2>3. CASE a \in Users
    BY <1>1, <1>6, <2>1, <2>3, StartThen, UserPlaces DEF IInv, StartPC, ResetPC, CallPC, LockPC, Active, Engaged, Actors
  <2> QED
    BY <2>2, <2>3 DEF Actors
<1>10. Made(t)' = Made(t) /\ Unowned(t)' = Unowned(t)
  BY <1>3, <1>6, <1>7, MadeSame, OwnersSame
<1>11. ~InCallback(t) /\ ~InCallback(t)'
  BY <1>1, <1>2, <1>6 DEF Sound, Rights, Callback, InCallback, At, StartPC, ResetPC, CallPC, LockPC, Actors
<1> USE DEF At, StartPC, ResetPC, CallPC, LockPC, Active, Engaged, Actors
<1>12. Owned(t)'
  BY <1>1, <1>2, <1>6, <1>10 DEF Sound, Owned
<1>13. Events(t)'
  BY <1>1, <1>2, <1>3, <1>6, <1>7, <1>10 DEF Sound, Events
<1>14. Steps(t)'
  BY <1>1, <1>2, <1>6, <1>7, <1>10 DEF Sound, Steps
<1>15. Rights(t)'
  BY <1>1, <1>2, <1>6, <1>10, <1>11 DEF Sound, Rights, InCallback, Endless
<1>16. Alone(t)'
  BY <1>1, <1>2, <1>6 DEF Sound, Alone
<1>17. Callback(t)'
  BY <1>11 DEF Callback
<1>18. Counts(t)'
  <2>1. At(a, t, StartPC)' /\ At(a, t, {"round"})' /\ event'[t] # 0
    BY <1>1, <1>3, <1>6
  <2>2. \A b \in Actors : ~At(b, t, {"handler"})'
    BY <1>1, <1>2, <1>6
  <2>3. Rounded(t)'
    BY <2>1, <2>2 DEF Rounded
  <2>4. Made(t)' = 0 => calls'[t] = 0
    BY <1>2, <1>6, <1>10 DEF Sound, Counts
  <2> QED
    BY <1>1, <1>2, <1>6, <2>1, <2>3, <2>4 DEF Sound, Counts
<1>20. Doom(t)'
  <2>1. \A u \in Users : pc'[u] = "erase" => pc[u] = "erase" /\ act'[u] = act[u]
    BY <1>1, <1>6
  <2>2. (\E b \in Actors : t \in hold[b]) \/ ~Spared(t)
    BY <1>1, <1>2, StartThen DEF Sound, Rights, Spared, Endless
  <2> QED
    BY <1>2, <1>6, <2>1, <2>2, DoomKept DEF Sound
<1> QED
  BY <1>1, <1>6, <1>8, <1>9, <1>12, <1>13, <1>14, <1>15, <1>16, <1>17, <1>18, <1>20, Elsewhere DEF Sound, IInv

\* event_add failed: the thread that starts the timer frees the event it made.
LEMMA InvStartFails ==
  ASSUME IInv, TInv', NEW a \in Actors, NEW t \in Timers, act[a].timer = t, StartAdd(a),
         Does(a, t, act[a].then, "ready"), pc' = [pc EXCEPT ![a] = "reset"]
  PROVE  IInv'
<1>1. pc[a] = "add"
  BY DEF StartAdd
<1>2. /\ Sound(t) /\ life[t] = "alive"
      /\ \A b \in Actors \ {a} : ~At(b, t, StartPC \cup ResetPC)
  BY <1>1, AtWork DEF StartPC, Active
<1>3. event[t] # 0 /\ heap[t][event[t]] = "idle"
  BY <1>1, <1>2 DEF Sound, Steps, At, StartPC
<1>4. /\ stopped' = stopped \cup {t}
      /\ UNCHANGED <<shared, event, heap, round, cur, handler, calls, running, fault>>
  BY <1>1, <1>3 DEF StartAdd, Goto, IInv, TInv, TypeOK
<1>40. act[a].then \in {"ready", "return"} /\ (a \in Users => act[a].then = "ready")
  BY <1>1, StartThen DEF StartPC
<1>5. /\ pc'[a] = "reset" /\ act'[a].timer = t /\ act'[a].then = act[a].then /\ act'[a].next = "ready"
      /\ \A b \in Actors \ {a} : pc'[b] = pc[b] /\ act'[b] = act[b]
      /\ UNCHANGED <<life, map, hold, audit, event, heap, round, cur, handler, calls, running, fault>>
      /\ t \in stopped' /\ \A u \in Timers \ {t} : u \in stopped' <=> u \in stopped
  BY <1>4, DoesIs DEF IInv, TInv, TypeOK, shared
<1>6. \A u \in Timers \ {t} : SameData(u)
  BY <1>5, OwnersSame DEF SameData
<1>7. Places'
  <2>1. CASE a = Loop
    BY <1>1, <1>5, <1>40, <2>1, LoopPlaces DEF IInv, Places, StartPC, ResetPC, CallPC, LockPC, Active, Engaged, Between, Actors
  <2>2. CASE a \in Users
    BY <1>1, <1>5, <1>40, <2>2, UserPlaces DEF IInv, StartPC, ResetPC, CallPC, LockPC, Active, Engaged, Actors
  <2> QED
    BY <2>1, <2>2 DEF Actors
<1>8. /\ Made(t)' = Made(t) /\ Pending(t)' = Pending(t) /\ Unowned(t)' = Unowned(t)
      /\ ~Pending(t)
  <2>1. \A k \in Starts : heap[t][k] \in {"once", "every"} => k = event[t]
    BY <1>2 DEF Sound, Events
  <2> QED
    BY <1>3, <1>5, <2>1, HeapSame, OwnersSame DEF Pending
<1>9. ~InCallback(t) /\ ~InCallback(t)'
  BY <1>1, <1>2, <1>5, <1>40 DEF Sound, Rights, Callback, InCallback, At, StartPC, ResetPC, CallPC, LockPC, Actors
<1> USE DEF At, StartPC, ResetPC, CallPC, LockPC, Active, Engaged, Actors
<1>10. Owned(t)'
  BY <1>1, <1>2, <1>5, <1>8 DEF Sound, Owned
<1>11. Events(t)'
  BY <1>1, <1>2, <1>3, <1>5, <1>8 DEF Sound, Events
<1>12. Steps(t)'
  BY <1>1, <1>2, <1>5 DEF Sound, Steps
<1>13. Rights(t)'
  BY <1>1, <1>2, <1>5, <1>8, <1>9, <1>40 DEF Sound, Rights, InCallback
<1>14. Doom(t)'
  <2>1. \A u \in Users : pc'[u] = "erase" => pc[u] = "erase" /\ act'[u] = act[u]
    BY <1>1, <1>5
  <2>2. Spared(t) => Spared(t)'
    BY <1>5 DEF Spared, Endless, InCB
  <2> QED
    BY <1>2, <1>5, <2>1, <2>2, DoomKept DEF Sound
<1>15. Alone(t)'
  BY <1>1, <1>2, <1>5 DEF Sound, Alone
<1>16. Callback(t)'
  BY <1>9 DEF Callback
<1>17. Counts(t)'
  <2>0. round[t] \in Nat /\ calls[t] \in Nat /\ calls[t] <= round[t]
    BY <1>1, <1>2, CellTypes DEF IInv, TInv, Sound, Counts
  <2>1. Rounded(t)'
    BY <1>1, <1>2, <1>3, <1>5, <1>8 DEF Rounded
  <2>2. Called(t)'
    BY <1>3, <1>5, <1>8, <1>9, <2>0 DEF Called
  <2> QED
    BY <1>1, <1>2, <1>5, <1>8, <2>1, <2>2 DEF Sound, Counts
<1> QED
  BY <1>1, <1>5, <1>6, <1>7, <1>10, <1>11, <1>12, <1>13, <1>14, <1>15, <1>16, <1>17, Elsewhere DEF Sound, IInv

LEMMA InvStartAdd ==
  ASSUME IInv, TInv', NEW a \in Actors, NEW t \in Timers, act[a].timer = t, StartAdd(a)
  PROVE  IInv'
<1>1. /\ pc[a] = "add" /\ Sound(t)
  BY AtWork DEF StartAdd, StartPC, Active
<1>2. event[t] # 0 /\ heap[t][event[t]] = "idle"
  BY <1>1 DEF Sound, Steps, At, StartPC
<1>3. \/ pc' = [pc EXCEPT ![a] = "round"]
      \/ Does(a, t, act[a].then, "ready") /\ pc' = [pc EXCEPT ![a] = "reset"]
  BY <1>2 DEF StartAdd, Goto
<1> QED
  BY <1>3, InvStartAdds, InvStartFails

LEMMA InvStartHandler ==
  ASSUME IInv, TInv', NEW a \in Actors, NEW t \in Timers, act[a].timer = t, StartHandler(a)
  PROVE  IInv'
<1>1. pc[a] = "handler"
  BY DEF StartHandler
<1>2. /\ Sound(t) /\ life[t] = "alive"
      /\ \A b \in Actors \ {a} : ~At(b, t, StartPC \cup ResetPC)
  BY <1>1, AtWork DEF StartPC, Active
<1>3. /\ handler' = [handler EXCEPT ![t] = act[a].handler] /\ calls' = [calls EXCEPT ![t] = 0]
      /\ act' = [act EXCEPT ![a] = Idle] /\ pc' = [pc EXCEPT ![a] = act[a].then]
      /\ UNCHANGED <<shared, event, heap, round, cur, stopped, running, fault>>
  BY <1>2 DEF StartHandler, Writes, Goto
<1>4. /\ handler'[t] = act[a].handler /\ calls'[t] = 0 /\ pc'[a] = act[a].then
      /\ \A b \in Actors \ {a} : pc'[b] = pc[b] /\ act'[b] = act[b]
      /\ UNCHANGED <<life, map, hold, audit, event, heap, round, cur, stopped, running, fault>>
  BY <1>2, <1>3 DEF IInv, TInv, TypeOK, shared
<1>40. act[a].then \in {"ready", "return"} /\ (a \in Users => act[a].then = "ready")
  BY <1>1, StartThen DEF StartPC
<1>5. \A u \in Timers \ {t} : SameData(u)
  BY <1>2, <1>3, <1>4, OwnersSame DEF IInv, TInv, TypeOK, SameData
<1>6. Places'
  <2>1. CASE a = Loop
    BY <1>1, <1>4, <1>40, <2>1, LoopPlaces DEF IInv, Places, StartPC, ResetPC, CallPC, LockPC, Active, Engaged, Between, Actors
  <2>2. CASE a \in Users
    BY <1>1, <1>4, <1>40, <2>2, UserPlaces DEF IInv, StartPC, ResetPC, CallPC, LockPC, Active, Engaged, Actors
  <2> QED
    BY <2>1, <2>2 DEF Actors
<1>7. Made(t)' = Made(t) /\ Pending(t)' = Pending(t) /\ Unowned(t)' = Unowned(t)
  BY <1>2, <1>4, HeapSame, OwnersSame
<1>8. ~InCallback(t) /\ ~InCallback(t)'
  BY <1>1, <1>2, <1>4, <1>40 DEF Sound, Rights, Callback, InCallback, At, StartPC, ResetPC, CallPC, LockPC, Actors
<1>9. event[t] # 0 /\ event[t] = Made(t) /\ cur[t] = 0 /\ round[t] >= 1 /\ act[a].handler # Empty
  <2>1. event[t] # 0 /\ event[t] = Made(t)
    BY <1>1, <1>2 DEF Sound, Steps, At, StartPC, Events
  <2>2. Made(t) > 0
    BY <2>1, CellTypes DEF IInv, TInv
  <2>3. Rounded(t)
    BY <1>2, <2>2 DEF Sound, Counts
  <2> QED
    BY <1>1, <2>1, <2>3 DEF Rounded, At, IInv, Places, StartPC
<1> USE DEF At, StartPC, ResetPC, CallPC, LockPC, Active, Engaged, Actors
<1>10. Owned(t)'
  BY <1>1, <1>2, <1>4, <1>40, <1>7 DEF Sound, Owned
<1>11. Events(t)'
  BY <1>1, <1>2, <1>4, <1>40, <1>7 DEF Sound, Events
<1>12. Steps(t)'
  BY <1>1, <1>2, <1>4, <1>40, <1>7 DEF Sound, Steps
<1>13. Rights(t)'
  BY <1>1, <1>2, <1>4, <1>40, <1>7, <1>8 DEF Sound, Rights, InCallback
<1>14. Alone(t)'
  BY <1>1, <1>2, <1>4, <1>40, <1>7 DEF Sound, Alone
<1>15. Callback(t)'
  BY <1>8 DEF Callback
<1>16. Counts(t)'
  <2>1. round[t] \in Nat /\ cur[t] \in Nat
    BY CellTypes DEF IInv, TInv
  <2>2. Rounded(t)'
    BY <1>1, <1>2, <1>4, <1>40, <1>9, <2>1 DEF Rounded
  <2>3. Called(t)'
    BY <1>4, <1>8, <1>9, <2>1 DEF Called
  <2> QED
    BY <1>1, <1>2, <1>4, <1>40, <1>9, <2>1, <2>2, <2>3 DEF Counts
<1>17. Doom(t)'
  <2>1. \A u \in Users : pc'[u] = "erase" => pc[u] = "erase" /\ act'[u] = act[u]
    BY <1>1, <1>4, <1>40
  <2>2. (\E b \in Actors : t \in hold[b]) \/ ~Spared(t)
    BY <1>1, <1>2, <1>40 DEF Sound, Rights, Spared, Endless
  <2> QED
    BY <1>2, <1>4, <2>1, <2>2, DoomKept DEF Sound
<1> QED
  BY <1>1, <1>2, <1>4, <1>40, <1>5, <1>6, <1>10, <1>11, <1>12, <1>13, <1>14, <1>15, <1>16, <1>17, Elsewhere DEF Sound, IInv

LEMMA InReset ==
  ASSUME IInv, NEW a \in Actors, NEW t \in Timers, act[a].timer = t, pc[a] \in ResetPC
  PROVE  /\ Sound(t) /\ life[t] = "alive"
         /\ \A b \in Actors \ {a} : ~At(b, t, StartPC \cup ResetPC)
         /\ a \in Users => act[a].then \in {"ready", "delete"}
         /\ act[a].then \in {"ready", "return", "call", "delete"}
         /\ a = Loop => act[a].next # "dtor"
         /\ event[t] \in 0..MaxStarts /\ event[t] \in {0, Made(t)}
<1>1. /\ Sound(t) /\ life[t] = "alive"
      /\ \A b \in Actors \ {a} : ~At(b, t, StartPC \cup ResetPC)
  BY AtWork DEF Active
<1>2. act[a].then \in {"ready", "return", "call", "delete"}
  BY DEF IInv, TInv, TypeOK, Acts
<1>3. a \in Users => act[a].then \in {"ready", "delete"}
  BY DEF IInv, Places
<1>4. a = Loop => act[a].next # "dtor"
  BY DEF IInv, Places
<1>5. event[t] \in 0..MaxStarts /\ event[t] \in {0, Made(t)}
  BY <1>1, CellTypes DEF IInv, TInv, Sound, Events
<1> QED
  BY <1>1, <1>2, <1>3, <1>4, <1>5

LEMMA InvResetSkip ==
  ASSUME IInv, TInv', NEW a \in Actors, NEW t \in Timers, act[a].timer = t, Reset(a), event[t] = 0
  PROVE  IInv'
<1>1. /\ pc[a] = "reset" /\ pc' = [pc EXCEPT ![a] = act[a].then]
      /\ UNCHANGED <<shared, fields, history, running, act, fault>>
  BY DEF Reset, Goto
<1>2. /\ Sound(t) /\ life[t] = "alive"
      /\ \A b \in Actors \ {a} : ~At(b, t, StartPC \cup ResetPC)
      /\ a \in Users => act[a].then \in {"ready", "delete"}
      /\ act[a].then \in {"ready", "return", "call", "delete"}
      /\ a = Loop => act[a].next # "dtor"
  BY <1>1, InReset DEF ResetPC
<1>3. /\ pc'[a] = act[a].then /\ \A b \in Actors \ {a} : pc'[b] = pc[b] /\ act'[b] = act[b]
      /\ UNCHANGED <<life, map, hold, audit, event, heap, round, cur, handler, calls, stopped, running, act, fault>>
  BY <1>1 DEF IInv, TInv, TypeOK, shared, fields, history
<1>4. \A u \in Timers : SameData(u)
  BY <1>3, OwnersSame DEF SameData
<1>5. Places'
  <2>1. CASE a = Loop
    BY <1>1, <1>2, <1>3, <2>1, LoopPlaces DEF IInv, Places, StartPC, ResetPC, CallPC, LockPC, Active, Engaged, Between, Actors
  <2>2. CASE a \in Users
    BY <1>1, <1>2, <1>3, <2>2, UserPlaces DEF IInv, StartPC, ResetPC, CallPC, LockPC, Active, Engaged, Actors
  <2> QED
    BY <2>1, <2>2 DEF Actors
<1>6. Made(t)' = Made(t) /\ Pending(t)' = Pending(t) /\ Unowned(t)' = Unowned(t)
  BY <1>3, HeapSame, OwnersSame
<1>7. InCallback(t)' = InCallback(t) /\ (a \in Users => ~At(Loop, t, CallPC))
  <2>1. CASE a = Loop
    BY <1>1, <1>2, <1>3, <2>1 DEF InCallback, At, ResetPC, CallPC
  <2>2. CASE a \in Users
    <3>1. ~At(Loop, t, CallPC)
      BY <1>1, <1>2, <2>2 DEF Sound, Rights, Callback, InCallback, At, ResetPC, Endless, Actors
    <3> QED
      BY <1>3, <2>2, <3>1 DEF InCallback, At, Actors
  <2> QED
    BY <2>1, <2>2 DEF Actors
<1> USE DEF At, StartPC, ResetPC, CallPC, LockPC, Active, Engaged, Actors
<1>8. Owned(t)'
  BY <1>1, <1>2, <1>3, <1>6 DEF Sound, Owned
<1>9. Events(t)'
  BY <1>1, <1>2, <1>3, <1>6 DEF Sound, Events
<1>10. Steps(t)'
  BY <1>1, <1>2, <1>3, <1>6 DEF Sound, Steps
<1>11. Rights(t)'
  BY <1>1, <1>2, <1>3, <1>6, <1>7 DEF Sound, Rights, Endless, InCB
<1>12. Alone(t)'
  BY <1>1, <1>2, <1>3 DEF Sound, Alone
<1>13. Callback(t)'
  BY <1>1, <1>2, <1>3, <1>7 DEF Sound, Callback
<1>14. Counts(t)'
  <2>1. ASSUME Rounded(t) PROVE Rounded(t)'
    BY <1>1, <1>2, <1>3, <1>6, <2>1 DEF Rounded
  <2>2. ASSUME Called(t) PROVE Called(t)'
    BY <1>1, <1>2, <1>3, <1>6, <1>7, <2>2 DEF Called, InCallback
  <2>3. \A b \in Actors : ~At(b, t, StartPC)
    BY <1>1, <1>2
  <2> QED
    BY <1>2, <1>3, <1>6, <2>1, <2>2, <2>3 DEF Sound, Counts
<1>15. Doom(t)'
  <2>1. \A u \in Users : pc'[u] = "erase" => pc[u] = "erase" /\ act'[u] = act[u]
    BY <1>1, <1>2, <1>3
  <2>2. Spared(t) => Spared(t)'
    BY <1>3 DEF Spared, Endless, InCB
  <2> QED
    BY <1>2, <1>3, <2>1, <2>2, DoomKept DEF Sound
<1> QED
  BY <1>1, <1>2, <1>3, <1>4, <1>5, <1>8, <1>9, <1>10, <1>11, <1>12, <1>13, <1>14, <1>15, Elsewhere DEF Sound, IInv

LEMMA InvResetTakes ==
  ASSUME IInv, TInv', NEW a \in Actors, NEW t \in Timers, act[a].timer = t, Reset(a), event[t] # 0
  PROVE  IInv'
<1>1. /\ pc[a] = "reset" /\ pc' = [pc EXCEPT ![a] = "free"]
      /\ act' = [act EXCEPT ![a].ev = event[t]]
      /\ UNCHANGED <<shared, fields, history, running, fault>>
  BY DEF Reset, Goto
<1>2. /\ Sound(t) /\ life[t] = "alive"
      /\ \A b \in Actors \ {a} : ~At(b, t, StartPC \cup ResetPC)
      /\ a \in Users => act[a].then \in {"ready", "delete"}
      /\ a = Loop => act[a].next # "dtor"
  BY <1>1, InReset DEF ResetPC
<1>3. /\ pc'[a] = "free" /\ \A b \in Actors \ {a} : pc'[b] = pc[b] /\ act'[b] = act[b]
      /\ UNCHANGED <<life, map, hold, audit, event, heap, round, cur, handler, calls, stopped, running, fault>>
  BY <1>1 DEF IInv, TInv, TypeOK, shared, fields, history
<1>4. /\ act'[a].timer = t /\ act'[a].ev = event[t] /\ act'[a].then = act[a].then
      /\ act'[a].next = act[a].next /\ act'[a].handler = act[a].handler
  BY <1>1 DEF IInv, TInv, TypeOK, Acts
<1>5. \A u \in Timers : SameData(u)
  BY <1>3, OwnersSame DEF SameData
<1>6. Places'
  <2>1. CASE a = Loop
    BY <1>1, <1>2, <1>3, <1>4, <2>1, LoopPlaces DEF IInv, Places, StartPC, ResetPC, CallPC, LockPC, Active, Engaged, Between, Actors
  <2>2. CASE a \in Users
    BY <1>1, <1>2, <1>3, <1>4, <2>2, UserPlaces DEF IInv, StartPC, ResetPC, CallPC, LockPC, Active, Engaged, Actors
  <2> QED
    BY <2>1, <2>2 DEF Actors
<1>7. Made(t)' = Made(t) /\ Pending(t)' = Pending(t) /\ Unowned(t)' = Unowned(t)
  BY <1>3, HeapSame, OwnersSame
<1>8. InCallback(t)' = InCallback(t)
  BY <1>1, <1>3, <1>4 DEF InCallback, At, ResetPC, CallPC, Actors
<1> USE DEF At, StartPC, ResetPC, CallPC, LockPC, Active, Engaged, Actors
<1>9. Owned(t)'
  BY <1>1, <1>2, <1>3, <1>4, <1>7 DEF Sound, Owned
<1>10. Events(t)'
  BY <1>1, <1>2, <1>3, <1>4, <1>7 DEF Sound, Events
<1>11. Steps(t)'
  BY <1>1, <1>2, <1>3, <1>4, <1>7 DEF Sound, Steps
<1>12. Rights(t)'
  BY <1>1, <1>2, <1>3, <1>4, <1>7 DEF Sound, Rights, Endless, InCB
<1>13. Alone(t)'
  BY <1>1, <1>2, <1>3, <1>4 DEF Sound, Alone
<1>14. Callback(t)'
  BY <1>1, <1>2, <1>3, <1>4, <1>8 DEF Sound, Callback
<1>15. Counts(t)'
  <2>1. ASSUME Rounded(t) PROVE Rounded(t)'
    BY <1>1, <1>2, <1>3, <1>4, <1>7, <2>1 DEF Rounded
  <2>2. ASSUME Called(t) PROVE Called(t)'
    BY <1>1, <1>2, <1>3, <1>4, <1>7, <1>8, <2>2 DEF Called
  <2>3. \A b \in Actors : ~At(b, t, StartPC)
    BY <1>1, <1>2
  <2> QED
    BY <1>2, <1>3, <1>7, <2>1, <2>2, <2>3 DEF Sound, Counts
<1>16. Doom(t)'
  <2>1. \A u \in Users : pc'[u] = "erase" => pc[u] = "erase" /\ act'[u] = act[u]
    BY <1>1, <1>2, <1>3
  <2>2. Spared(t) => Spared(t)'
    BY <1>3 DEF Spared, Endless, InCB
  <2> QED
    BY <1>2, <1>3, <2>1, <2>2, DoomKept DEF Sound
<1> QED
  BY <1>1, <1>2, <1>3, <1>4, <1>5, <1>6, <1>9, <1>10, <1>11, <1>12, <1>13, <1>14, <1>15, <1>16, Elsewhere DEF Sound, IInv

LEMMA InvResetFree ==
  ASSUME IInv, TInv', NEW a \in Actors, NEW t \in Timers, act[a].timer = t, ResetFree(a)
  PROVE  IInv'
<1>1. pc[a] = "free" /\ (a \in Users => running.timer # t \/ running.ev # act[a].ev)
  BY DEF ResetFree, Actors
<1>2. /\ Sound(t) /\ life[t] = "alive"
      /\ \A b \in Actors \ {a} : ~At(b, t, StartPC \cup ResetPC)
      /\ a \in Users => act[a].then \in {"ready", "delete"}
      /\ a = Loop => act[a].next # "dtor"
      /\ event[t] \in 0..MaxStarts /\ event[t] \in {0, Made(t)}
  BY <1>1, InReset DEF ResetPC
<1>3. event[t] = act[a].ev /\ event[t] \in Starts /\ heap[t][event[t]] # "freed" /\ event[t] = Made(t)
  <2>1. event[t] # 0 /\ event[t] = act[a].ev
    BY <1>1, <1>2 DEF Sound, Steps, At
  <2>2. heap[t][event[t]] # "freed"
    BY <1>1, <1>2, <2>1 DEF Sound, Events, At, ResetPC
  <2> QED
    BY <1>2, <2>1, <2>2, CellTypes DEF IInv, TInv
<1>4. /\ heap' = [heap EXCEPT ![t][event[t]] = "freed"] /\ pc' = [pc EXCEPT ![a] = "null"]
      /\ UNCHANGED <<shared, event, round, cur, handler, history, running, act, fault>>
  BY <1>3 DEF ResetFree, Goto
<1>5. /\ pc'[a] = "null" /\ \A b \in Actors \ {a} : pc'[b] = pc[b] /\ act'[b] = act[b]
      /\ UNCHANGED <<life, map, hold, audit, event, round, cur, handler, calls, stopped, running, act, fault>>
  BY <1>4 DEF IInv, TInv, TypeOK, shared, history
<1>6. /\ \A u \in Timers \ {t} : heap'[u] = heap[u]
      /\ heap'[t][event[t]] = "freed" /\ \A k \in Starts \ {event[t]} : heap'[t][k] = heap[t][k]
  BY <1>3, <1>4 DEF IInv, TInv, TypeOK
<1>7. \A u \in Timers \ {t} : SameData(u)
  BY <1>5, <1>6, OwnersSame DEF SameData
<1>8. Places'
  <2>1. CASE a = Loop
    BY <1>1, <1>2, <1>5, <2>1, LoopPlaces DEF IInv, Places, StartPC, ResetPC, CallPC, LockPC, Active, Engaged, Between, Actors
  <2>2. CASE a \in Users
    BY <1>1, <1>2, <1>5, <2>2, UserPlaces DEF IInv, StartPC, ResetPC, CallPC, LockPC, Active, Engaged, Actors
  <2> QED
    BY <2>1, <2>2 DEF Actors
<1>9. /\ heap[t][event[t]] # "none" /\ Made(t)' = Made(t) /\ Unowned(t)' = Unowned(t)
      /\ ~Pending(t)'
  <2>1. heap[t][event[t]] # "none"
    BY <1>2, <1>3 DEF Sound, Events, Starts
  <2>2. \A k \in Starts \ {event[t]} : heap[t][k] \notin {"once", "every"}
    BY <1>2 DEF Sound, Events
  <2>3. ~Pending(t)'
    BY <1>6, <2>2 DEF Pending, Starts
  <2> QED
    BY <1>5, <1>6, <2>1, <2>3, MadeSame, OwnersSame
<1>10. InCallback(t)' = InCallback(t) /\ (a \in Users => ~At(Loop, t, CallPC))
  <2>1. CASE a = Loop
    BY <1>1, <1>5, <2>1 DEF InCallback, At, ResetPC, CallPC, Actors
  <2>2. CASE a \in Users
    <3>1. ASSUME At(Loop, t, CallPC) PROVE running.timer = t /\ running.ev = event[t]
      BY <1>2, <1>3, <3>1 DEF Sound, Callback, InCallback, Starts
    <3> QED
      BY <1>1, <1>3, <1>5, <2>2, <3>1 DEF InCallback, At, Actors
  <2> QED
    BY <2>1, <2>2 DEF Actors
<1> USE DEF At, StartPC, ResetPC, CallPC, LockPC, Active, Engaged, Actors
<1>11. Owned(t)'
  BY <1>1, <1>2, <1>5, <1>9 DEF Sound, Owned
<1>12. Events(t)'
  BY <1>1, <1>2, <1>3, <1>5, <1>6, <1>9 DEF Sound, Events
<1>13. Steps(t)'
  BY <1>1, <1>2, <1>3, <1>5, <1>6, <1>9 DEF Sound, Steps, Starts
<1>14. Rights(t)'
  BY <1>1, <1>2, <1>5, <1>9, <1>10 DEF Sound, Rights, Endless, InCB
<1>15. Alone(t)'
  BY <1>1, <1>2, <1>5 DEF Sound, Alone
<1>16. Callback(t)'
  BY <1>1, <1>2, <1>5, <1>10 DEF Sound, Callback
<1>17. Counts(t)'
  <2>0. round[t] \in Nat /\ cur[t] \in Nat /\ calls[t] \in Nat
    BY CellTypes DEF IInv, TInv
  <2>1. Rounded(t)'
    BY <1>1, <1>2, <1>3, <1>5, <1>9 DEF Rounded, Starts
  <2>2. ASSUME Called(t) PROVE Called(t)'
    BY <1>1, <1>2, <1>5, <1>9, <1>10, <2>0, <2>2 DEF Called
  <2>3. \A b \in Actors : ~At(b, t, StartPC)
    BY <1>1, <1>2
  <2> QED
    BY <1>2, <1>5, <1>9, <2>1, <2>2, <2>3 DEF Sound, Counts
<1>18. Doom(t)'
  <2>1. \A u \in Users : pc'[u] = "erase" => pc[u] = "erase" /\ act'[u] = act[u]
    BY <1>1, <1>2, <1>5
  <2>2. Spared(t) => Spared(t)'
    BY <1>5 DEF Spared, Endless, InCB
  <2> QED
    BY <1>2, <1>5, <2>1, <2>2, DoomKept DEF Sound
<1> QED
  BY <1>1, <1>2, <1>5, <1>7, <1>8, <1>11, <1>12, <1>13, <1>14, <1>15, <1>16, <1>17, <1>18, Elsewhere DEF Sound, IInv

LEMMA InvResetNull ==
  ASSUME IInv, TInv', NEW a \in Actors, NEW t \in Timers, act[a].timer = t, ResetNull(a)
  PROVE  IInv'
<1>1. /\ pc[a] = "null" /\ pc' = [pc EXCEPT ![a] = "cur"] /\ event' = [event EXCEPT ![t] = 0]
      /\ UNCHANGED <<shared, heap, round, cur, handler, history, running, act, fault>>
  BY DEF ResetNull, Goto
<1>2. /\ Sound(t) /\ life[t] = "alive"
      /\ \A b \in Actors \ {a} : ~At(b, t, StartPC \cup ResetPC)
      /\ a \in Users => act[a].then \in {"ready", "delete"}
      /\ a = Loop => act[a].next # "dtor"
      /\ act[a].then \in {"ready", "return", "call", "delete"}
      /\ event[t] \in 0..MaxStarts
  BY <1>1, InReset DEF ResetPC
<1>3. /\ pc'[a] = "cur" /\ \A b \in Actors \ {a} : pc'[b] = pc[b] /\ act'[b] = act[b]
      /\ UNCHANGED <<life, map, hold, audit, heap, round, cur, handler, calls, stopped, running, act, fault>>
      /\ event'[t] = 0 /\ \A u \in Timers \ {t} : event'[u] = event[u]
  BY <1>1 DEF IInv, TInv, TypeOK, shared, history
<1>4. \A u \in Timers \ {t} : SameData(u)
  BY <1>3, OwnersSame DEF SameData
<1>5. Places'
  <2>1. CASE a = Loop
    BY <1>1, <1>2, <1>3, <2>1, LoopPlaces DEF IInv, Places, StartPC, ResetPC, CallPC, LockPC, Active, Engaged, Between, Actors
  <2>2. CASE a \in Users
    BY <1>1, <1>2, <1>3, <2>2, UserPlaces DEF IInv, StartPC, ResetPC, CallPC, LockPC, Active, Engaged, Actors
  <2> QED
    BY <2>1, <2>2 DEF Actors
<1>6. Made(t)' = Made(t) /\ Pending(t)' = Pending(t) /\ Unowned(t)' = Unowned(t)
  BY <1>3, HeapSame, OwnersSame
<1>7. InCallback(t)' = InCallback(t) /\ (a \in Users => ~At(Loop, t, CallPC))
  BY <1>1, <1>2, <1>3 DEF Sound, Rights, InCallback, At, ResetPC, CallPC, Actors
<1>8. /\ event[t] # 0 /\ heap[t][event[t]] = "freed"
      /\ \A k \in Starts : heap[t][k] \notin {"idle", "once", "every"}
  BY <1>1, <1>2 DEF Sound, Steps, Events, At, ResetPC
<1>9. ~Pending(t)'
  BY <1>6, <1>8 DEF Pending
<1> USE DEF At, StartPC, ResetPC, CallPC, LockPC, Active, Engaged, Actors
<1>10. Owned(t)'
  BY <1>1, <1>2, <1>3, <1>6 DEF Sound, Owned
<1>11. Events(t)'
  BY <1>1, <1>2, <1>3, <1>6, <1>8 DEF Sound, Events
<1>12. Steps(t)'
  BY <1>1, <1>2, <1>3 DEF Sound, Steps
<1>13. Rights(t)'
  BY <1>1, <1>2, <1>3, <1>6, <1>7 DEF Sound, Rights, Endless, InCB
<1>14. Alone(t)'
  BY <1>1, <1>2, <1>3 DEF Sound, Alone
<1>15. Callback(t)'
  BY <1>1, <1>2, <1>3, <1>7 DEF Sound, Callback, Rights, InCallback
<1>16. Counts(t)'
  <2>0. round[t] \in Nat /\ cur[t] \in Nat /\ calls[t] \in Nat
    BY CellTypes DEF IInv, TInv
  <2>1. Rounded(t)'
    BY <1>1, <1>2, <1>3, <1>9 DEF Rounded
  <2>2. ASSUME Called(t) PROVE Called(t)'
    <3>1. t \notin stopped => act[a].then = "call" /\ a = Loop /\ InCallback(t) /\ round[t] < Forever
      BY <1>1, <1>2 DEF Sound, Rights, InCallback
    <3>2. InCallback(t) => pc[Loop] \in ResetPC /\ a = Loop
      BY <1>1, <1>2, <1>7 DEF InCallback
    <3> QED
      BY <1>1, <1>2, <1>3, <1>6, <1>7, <1>8, <1>9, <2>0, <2>2, <3>1, <3>2 DEF Called
  <2>3. \A b \in Actors : ~At(b, t, StartPC)
    BY <1>1, <1>2
  <2> QED
    BY <1>2, <1>3, <1>6, <2>1, <2>2, <2>3 DEF Sound, Counts
<1>17. Doom(t)'
  <2>1. \A u \in Users : pc'[u] = "erase" => pc[u] = "erase" /\ act'[u] = act[u]
    BY <1>1, <1>2, <1>3
  <2>2. Spared(t) => Spared(t)'
    BY <1>3 DEF Spared, Endless, InCB
  <2> QED
    BY <1>2, <1>3, <2>1, <2>2, DoomKept DEF Sound
<1> QED
  BY <1>1, <1>2, <1>3, <1>4, <1>5, <1>10, <1>11, <1>12, <1>13, <1>14, <1>15, <1>16, <1>17, Elsewhere DEF Sound, IInv

LEMMA InvResetCur ==
  ASSUME IInv, TInv', NEW a \in Actors, NEW t \in Timers, act[a].timer = t, ResetCur(a)
  PROVE  IInv'
<1>1. pc[a] = "cur"
  BY DEF ResetCur
<1>2. /\ Sound(t) /\ life[t] = "alive"
      /\ \A b \in Actors \ {a} : ~At(b, t, StartPC \cup ResetPC)
      /\ a \in Users => act[a].then \in {"ready", "delete"}
      /\ a = Loop => act[a].next # "dtor"
      /\ act[a].then \in {"ready", "return", "call", "delete"}
  BY <1>1, InReset DEF ResetPC
<1>3. /\ pc' = [pc EXCEPT ![a] = act[a].then] /\ cur' = [cur EXCEPT ![t] = round[t] + 1]
      /\ UNCHANGED <<shared, event, heap, round, handler, history, running, act, fault>>
  BY <1>2 DEF ResetCur, Writes, Goto
<1>4. /\ pc'[a] = act[a].then /\ \A b \in Actors \ {a} : pc'[b] = pc[b] /\ act'[b] = act[b]
      /\ UNCHANGED <<life, map, hold, audit, event, heap, round, handler, calls, stopped, running, act, fault>>
      /\ cur'[t] = round[t] + 1 /\ \A u \in Timers \ {t} : cur'[u] = cur[u]
  BY <1>3 DEF IInv, TInv, TypeOK, shared, history
<1>5. \A u \in Timers \ {t} : SameData(u)
  BY <1>4, OwnersSame DEF SameData
<1>6. Places'
  <2>1. CASE a = Loop
    BY <1>1, <1>2, <1>4, <2>1, LoopPlaces DEF IInv, Places, StartPC, ResetPC, CallPC, LockPC, Active, Engaged, Between, Actors
  <2>2. CASE a \in Users
    BY <1>1, <1>2, <1>4, <2>2, UserPlaces DEF IInv, StartPC, ResetPC, CallPC, LockPC, Active, Engaged, Actors
  <2> QED
    BY <2>1, <2>2 DEF Actors
<1>7. Made(t)' = Made(t) /\ Pending(t)' = Pending(t) /\ Unowned(t)' = Unowned(t)
  BY <1>4, HeapSame, OwnersSame
<1>8. InCallback(t)' = InCallback(t) /\ (a \in Users => ~At(Loop, t, CallPC))
  BY <1>1, <1>2, <1>4 DEF Sound, Rights, InCallback, At, ResetPC, CallPC, Actors
<1>9. event[t] = 0 /\ ~Pending(t)
  BY <1>1, <1>2 DEF Sound, Steps, Events, At, ResetPC, Pending, Starts
<1> USE DEF At, StartPC, ResetPC, CallPC, LockPC, Active, Engaged, Actors
<1>10. Owned(t)'
  BY <1>1, <1>2, <1>4, <1>7 DEF Sound, Owned
<1>11. Events(t)'
  BY <1>1, <1>2, <1>4, <1>7 DEF Sound, Events
<1>12. Steps(t)'
  BY <1>1, <1>2, <1>4, <1>9 DEF Sound, Steps
<1>13. Rights(t)'
  BY <1>1, <1>2, <1>4, <1>7, <1>8 DEF Sound, Rights, Endless, InCB
<1>14. Alone(t)'
  BY <1>1, <1>2, <1>4 DEF Sound, Alone
<1>15. Callback(t)'
  <2>1. InCallback(t) => a = Loop /\ pc'[Loop] = "call"
    BY <1>1, <1>2, <1>4, <1>8 DEF InCallback
  <2> QED
    BY <1>2, <1>4, <1>8, <2>1 DEF Sound, Callback
<1>16. Counts(t)'
  <2>0. round[t] \in Nat
    BY CellTypes DEF IInv, TInv
  <2>1. Rounded(t)'
    BY <1>1, <1>2, <1>4, <1>7, <1>9, <2>0 DEF Rounded
  <2>2. ASSUME Called(t) PROVE Called(t)'
    BY <1>1, <1>2, <1>4, <1>7, <1>8, <1>9, <2>2 DEF Called, InCallback
  <2>3. \A b \in Actors : ~At(b, t, StartPC)
    BY <1>1, <1>2
  <2> QED
    BY <1>2, <1>4, <1>7, <2>1, <2>2, <2>3 DEF Sound, Counts
<1>17. Doom(t)'
  <2>1. \A u \in Users : pc'[u] = "erase" => pc[u] = "erase" /\ act'[u] = act[u]
    BY <1>1, <1>2, <1>4
  <2>2. Spared(t) => Spared(t)'
    BY <1>4 DEF Spared, Endless, InCB
  <2> QED
    BY <1>2, <1>4, <2>1, <2>2, DoomKept DEF Sound
<1> QED
  BY <1>1, <1>2, <1>4, <1>5, <1>6, <1>10, <1>11, <1>12, <1>13, <1>14, <1>15, <1>16, <1>17, Elsewhere DEF Sound, IInv

LEMMA CallsBound ==
  ASSUME IInv, NEW t \in Timers, life[t] = "alive", \A a \in Actors : ~At(a, t, StartPC), ~InCallback(t)
  PROVE  calls[t] <= round[t]
<1>1. /\ round[t] \in 0..Forever /\ calls[t] \in 0..Forever /\ cur[t] \in 0..Forever + 1
      /\ event[t] \in 0..MaxStarts /\ Made(t) \in 0..MaxStarts
  BY CellTypes, MadeType DEF IInv, TInv
<1>2. Counts(t) /\ Events(t)
  BY DEF IInv, Sound
<1>3. CASE Made(t) = 0
  BY <1>1, <1>2, <1>3 DEF Counts
<1>4. CASE Made(t) > 0
  <2>1. Called(t)
    BY <1>2, <1>4 DEF Counts
  <2> QED
    BY <1>1, <2>1 DEF Called
<1> QED
  BY <1>1, <1>3, <1>4

LEMMA InvDelete ==
  ASSUME IInv, TInv', NEW a \in Actors, NEW t \in Timers, act[a].timer = t, Delete(a)
  PROVE  IInv'
<1>1. /\ pc[a] = "delete" /\ pc' = [pc EXCEPT ![a] = act[a].next] /\ act' = [act EXCEPT ![a] = Idle]
      /\ life' = [life EXCEPT ![t] = "dead"]
      /\ UNCHANGED <<map, hold, mtx, audit, fields, history, running, fault>>
  BY DEF Delete, Goto
<1>2. /\ Sound(t) /\ life[t] = "alive"
      /\ \A b \in Actors \ {a} : ~At(b, t, StartPC \cup ResetPC)
      /\ a = Loop => act[a].next # "dtor"
  BY <1>1, InReset DEF ResetPC
<1>3. act[a].then = "delete" /\ act[a].next \in {"ready", "unlock", "dtor"}
  BY <1>1 DEF IInv, Places, TInv, TypeOK, Acts
<1>4. /\ pc'[a] = act[a].next /\ \A b \in Actors \ {a} : pc'[b] = pc[b] /\ act'[b] = act[b]
      /\ UNCHANGED <<map, hold, audit, event, heap, round, cur, handler, calls, stopped, running, fault>>
      /\ life'[t] = "dead" /\ \A u \in Timers \ {t} : life'[u] = life[u]
  BY <1>1 DEF IInv, TInv, TypeOK, fields, history
<1>5. \A u \in Timers \ {t} : SameData(u)
  BY <1>4, OwnersSame DEF SameData
<1>6. Places'
  <2>1. CASE a = Loop
    BY <1>1, <1>2, <1>3, <1>4, <2>1, LoopPlaces DEF IInv, Places, StartPC, ResetPC, CallPC, LockPC, Active, Engaged, Between, Actors
  <2>2. CASE a \in Users
    BY <1>1, <1>2, <1>3, <1>4, <2>2, UserPlaces DEF IInv, StartPC, ResetPC, CallPC, LockPC, Active, Engaged, Actors
  <2> QED
    BY <2>1, <2>2 DEF Actors
<1>7. Made(t)' = Made(t) /\ Pending(t)' = Pending(t) /\ Unowned(t)' = Unowned(t)
  BY <1>4, HeapSame, OwnersSame
<1>8. ~InCallback(t) /\ ~At(Loop, t, CallPC)
  BY <1>1, <1>2, <1>3 DEF Sound, Rights, InCallback, At, ResetPC, CallPC, Actors
<1>9. Unowned(t) /\ t \in stopped /\ ~Pending(t)
  BY <1>1, <1>2, <1>3 DEF Sound, Rights, Steps, Events, At, ResetPC, Pending, Starts
<1>10. \A b \in Actors : ~At(b, t, Active)'
  <2>1. pc'[a] \notin Active
    BY <1>3, <1>4 DEF Active, StartPC, ResetPC, CallPC, LockPC
  <2>2. ASSUME NEW b \in Actors \ {a} PROVE ~At(b, t, CallPC)
    BY <1>8 DEF IInv, Places, At, StartPC, ResetPC, CallPC, LockPC, Actors
  <2> QED
    BY <1>2, <1>4, <2>1, <2>2 DEF Active, At
<1>11. calls[t] <= round[t]
  BY <1>1, <1>2, <1>8, CallsBound DEF At, StartPC
<1> USE DEF At, StartPC, ResetPC, CallPC, LockPC, Active, Engaged, Actors
<1>12. Owned(t)'
  BY <1>2, <1>4, <1>7, <1>9, <1>10, <1>11 DEF Sound, Owned
<1>13. Events(t)'
  BY <1>2, <1>4, <1>7 DEF Sound, Events
<1>14. Steps(t)' /\ Alone(t)' /\ Callback(t)'
  BY <1>10 DEF Steps, Alone, Callback, InCallback
<1>15. Rights(t)'
  <2>1. \A b \in Actors : ~At(b, t, {"emplace"})'
    BY <1>2, <1>3, <1>4, <1>9 DEF Sound, Rights, Unowned
  <2> QED
    BY <1>10, <2>1 DEF Rights
<1>16. Counts(t)'
  BY <1>2, <1>4, <1>7, <1>10 DEF Sound, Counts
<1>17. Doom(t)'
  BY <1>4, <1>9 DEF Doom, Unowned
<1> QED
  BY <1>1, <1>2, <1>3, <1>4, <1>5, <1>6, <1>12, <1>13, <1>14, <1>15, <1>16, <1>17, Elsewhere DEF Sound, IInv

\* A step of a thread with no timer in hand, before and after, but to kill.
LEMMA Nowhere ==
  ASSUME NEW a \in Actors, \A b \in Actors \ {a} : pc'[b] = pc[b] /\ act'[b] = act[b],
         pc[a] \notin Active,
         pc'[a] \in Engaged => pc'[a] = "erase" /\ (a = Loop \/ MayGo(act'[a].timer)),
         \A u \in Timers : SameData(u) /\ Sound(u)
  PROVE  \A u \in Timers : Sound(u)'
<1> SUFFICES ASSUME NEW u \in Timers PROVE Sound(u)'
  OBVIOUS
<1>2. ~At(a, u, Active) /\ ~At(a, u, Active)' /\ ~At(a, u, {"emplace"})'
  BY DEF At, Engaged, LockPC, Active, StartPC, ResetPC, CallPC
<1>3. At(a, u, {"erase"})' => a = Loop \/ MayGo(u)
  BY DEF At, Engaged, LockPC
<1>4. \A b \in Actors \ {a} : pc'[b] = pc[b] /\ act'[b] = act[b]
  OBVIOUS
<1>1. SameThreads(u)
  BY <1>2, <1>3, <1>4 DEF SameThreads, At
<1> QED
  BY <1>1, Frame

LEMMA InvIdle ==
  ASSUME CarefulUse, IInv, TInv', NEW a \in Actors, Unlock(a) \/ DtorAudit(a)
  PROVE  IInv'
<1>1. /\ pc[a] \in {"unlock", "ready"} /\ pc'[a] \in {"ready", "dtor"} /\ (a = Loop => pc'[a] = "ready")
      /\ \A b \in Actors \ {a} : pc'[b] = pc[b] /\ act'[b] = act[b]
      /\ UNCHANGED <<life, map, hold, event, heap, round, cur, handler, calls, stopped, running, act, fault>>
      /\ audit' = audit \/ \A t \in map : Killable(t) \/ Holders(t) # {}
  <2>1. CASE Unlock(a)
    BY <2>1 DEF Unlock, Goto, IInv, TInv, TypeOK, fields, history, Actors
  <2>2. CASE DtorAudit(a)
    <3>1. /\ a \in Users /\ pc[a] = "ready" /\ pc' = [pc EXCEPT ![a] = "dtor"]
          /\ \A t \in map : Killable(t) \/ Holders(t) # {}
          /\ UNCHANGED <<life, map, hold, fields, history, running, act, fault>>
      BY <2>2 DEF DtorAudit, Goto
    <3> QED
      BY <3>1 DEF IInv, TInv, TypeOK, fields, history, Actors
  <2> QED
    BY <2>1, <2>2
<1>2. Places'
  <2>1. CASE a = Loop
    BY <1>1, <2>1, LoopPlaces DEF IInv, Places, StartPC, ResetPC, CallPC, LockPC, Active, Between, Actors
  <2>2. CASE a \in Users
    BY <1>1, <2>2, UserPlaces DEF IInv, StartPC, ResetPC, CallPC, LockPC, Active, Actors
  <2> QED
    BY <2>1, <2>2 DEF Actors
<1>3. ASSUME NEW u \in Timers PROVE SameData(u)
  <2>1. audit' = audit \/ MayGo(u)
    BY <1>1 DEF CarefulUse, MayGo, Killable, Holders, Spared, Endless
  <2> QED
    BY <1>1, <2>1, OwnersSame DEF SameData
<1>4. pc[a] \notin Active /\ pc'[a] \notin Engaged
  BY <1>1 DEF Active, Engaged, StartPC, ResetPC, CallPC, LockPC
<1> QED
  BY <1>1, <1>2, <1>3, <1>4, Nowhere DEF IInv

LEMMA InvPolls == ASSUME IInv, TInv', AuditFire \/ LoopOver PROVE IInv'
<1>1. /\ pc[Loop] = "poll" /\ pc'[Loop] \in {"audit", "over"}
      /\ \A b \in Actors \ {Loop} : pc'[b] = pc[b] /\ act'[b] = act[b]
      /\ UNCHANGED <<life, map, hold, audit, event, heap, round, cur, handler, calls, stopped, running, act, fault>>
  BY DEF AuditFire, LoopOver, Goto, IInv, TInv, TypeOK, shared, fields, history, Actors
<1>2. Places'
  BY <1>1, LoopPlaces DEF IInv, Places, StartPC, ResetPC, CallPC, LockPC, Active, Between, Actors
<1>3. \A u \in Timers : SameData(u)
  BY <1>1, OwnersSame DEF SameData
<1>4. pc[Loop] \notin Active /\ pc'[Loop] \notin Engaged /\ Loop \in Actors
  BY <1>1 DEF Active, Engaged, StartPC, ResetPC, CallPC, LockPC, Actors
<1> QED
  BY <1>1, <1>2, <1>3, <1>4, Nowhere DEF IInv

LEMMA InvAuditAdd == ASSUME IInv, TInv', AuditAdd PROVE IInv'
<1>1. /\ UNCHANGED <<life, map, hold, event, heap, round, cur, handler, calls, stopped, running, act, pc, fault>>
      /\ audit' # "gone"
  BY DEF AuditAdd, fields, history
<1>2. Places'
  BY <1>1 DEF IInv, Places
<1>3. \A u \in Timers : SameData(u) /\ SameThreads(u)
  BY <1>1, OwnersSame DEF SameData, SameThreads, At
<1>4. \A u \in Timers : Sound(u)'
  BY <1>3, Frame DEF IInv
<1> QED
  BY <1>1, <1>2, <1>4 DEF IInv

LEMMA InvCallReturn == ASSUME IInv, TInv', CallReturn PROVE IInv'
<1>1. /\ pc[Loop] \in {"ready", "return"} /\ pc'[Loop] = "poll" /\ running'.timer = None
      /\ \A b \in Actors \ {Loop} : pc'[b] = pc[b] /\ act'[b] = act[b]
      /\ UNCHANGED <<life, map, hold, audit, event, heap, round, cur, handler, calls, stopped, act, fault>>
  BY DEF CallReturn, Goto, NotRunning, IInv, TInv, TypeOK, shared, fields, history, Actors
<1>2. Places'
  BY <1>1, LoopPlaces DEF IInv, Places, StartPC, ResetPC, CallPC, LockPC, Active, Engaged, Between, Actors
<1>3. running.timer \in Timers
  BY <1>1 DEF IInv, Places, Between
<1>4. PICK t \in Timers : running.timer = t
  BY <1>3
<1>5. \A u \in Timers \ {t} : SameData(u)
  BY <1>1, <1>4, OwnersSame DEF SameData
<1>6. Sound(t) /\ ~InCallback(t) /\ ~InCallback(t)'
  BY <1>1 DEF IInv, InCallback, At, ResetPC, CallPC
<1>7. Made(t)' = Made(t) /\ Pending(t)' = Pending(t) /\ Unowned(t)' = Unowned(t)
  BY <1>1, HeapSame, OwnersSame
<1>8. \A b \in Actors, S \in SUBSET Active : At(b, t, S)' = At(b, t, S)
  BY <1>1 DEF At, Active, StartPC, ResetPC, CallPC, LockPC
<1> USE DEF At, StartPC, ResetPC, CallPC, LockPC, Active, Engaged, Actors
<1>9. Owned(t)'
  BY <1>1, <1>6, <1>7 DEF Sound, Owned
<1>10. Events(t)'
  BY <1>1, <1>6, <1>7 DEF Sound, Events
<1>11. Steps(t)'
  BY <1>1, <1>6 DEF Sound, Steps
<1>12. Rights(t)'
  BY <1>1, <1>6, <1>7 DEF Sound, Rights, Endless, InCB
<1>13. Alone(t)' /\ Callback(t)'
  BY <1>1, <1>6 DEF Sound, Alone, Callback
<1>14. Counts(t)'
  <2>1. ASSUME Rounded(t) PROVE Rounded(t)'
    BY <1>1, <1>7, <2>1 DEF Rounded
  <2>2. ASSUME Called(t) PROVE Called(t)'
    BY <1>1, <1>6, <1>7, <2>2 DEF Called
  <2> QED
    BY <1>1, <1>6, <1>7, <2>1, <2>2 DEF Sound, Counts
<1>16. Doom(t)'
  <2>1. \A u \in Users : pc'[u] = "erase" => pc[u] = "erase" /\ act'[u] = act[u]
    BY <1>1
  <2>2. Spared(t) => Spared(t)'
    BY <1>1 DEF Spared, Endless, InCB, NotRunning
  <2> QED
    BY <1>1, <1>6, <2>1, <2>2, DoomKept DEF Sound
<1>15. \A u \in Timers : Sound(u)'
  BY <1>1, <1>5, <1>6, <1>9, <1>10, <1>11, <1>12, <1>13, <1>14, <1>16, Elsewhere DEF Sound, IInv
<1> QED
  BY <1>1, <1>2, <1>15 DEF IInv

LEMMA InvGetTimer == ASSUME IInv, TInv', NEW a \in Actors, GetTimer(a) PROVE IInv'
<1>1. PICK t \in Timers : /\ life[t] = "unborn" /\ life' = [life EXCEPT ![t] = "alive"]
                          /\ hold' = [hold EXCEPT ![a] = @ \cup {t}]
                          /\ Does(a, t, "ready", "ready")
  BY DEF GetTimer
<1>2. /\ pc[a] = "ready" /\ pc'[a] = "emplace" /\ \A b \in Actors \ {a} : pc'[b] = pc[b]
      /\ UNCHANGED <<map, audit, event, heap, round, cur, handler, calls, stopped, running, fault>>
  BY DEF GetTimer, Goto, fields, history, IInv, TInv, TypeOK
<1>3. /\ life'[t] = "alive" /\ \A u \in Timers \ {t} : life'[u] = life[u]
      /\ hold'[a] = hold[a] \cup {t} /\ \A b \in Actors \ {a} : hold'[b] = hold[b]
      /\ act'[a].timer = t /\ \A b \in Actors \ {a} : act'[b] = act[b]
  <2>1. life \in [Timers -> {"unborn", "alive", "dead"}] /\ hold \in [Actors -> SUBSET Timers]
    BY DEF IInv, TInv, TypeOK
  <2>2. life'[t] = "alive" /\ \A u \in Timers \ {t} : life'[u] = life[u]
    BY <1>1, <2>1
  <2>3. hold'[a] = hold[a] \cup {t} /\ \A b \in Actors \ {a} : hold'[b] = hold[b]
    BY <1>1, <2>1
  <2> QED
    BY <1>1, <2>2, <2>3, DoesIs
<1>4. \A u \in Timers \ {t} : SameData(u)
  BY <1>1, <1>2, <1>3 DEF SameData, Unowned
<1>5. Places'
  <2>1. CASE a = Loop
    BY <1>2, <1>3, <2>1, LoopPlaces DEF IInv, Places, StartPC, ResetPC, CallPC, LockPC, Active, Between, Actors
  <2>2. CASE a \in Users
    BY <1>2, <1>3, <2>2, UserPlaces DEF IInv, StartPC, ResetPC, CallPC, LockPC, Active, Actors
  <2> QED
    BY <2>1, <2>2 DEF Actors
<1>6. Made(t)' = Made(t) /\ Pending(t)' = Pending(t)
  BY <1>2, HeapSame
<1>7. /\ Sound(t) /\ Unowned(t) /\ ~Pending(t) /\ Made(t) = 0 /\ event[t] = 0
      /\ \A b \in Actors : ~At(b, t, Active)
  BY <1>1 DEF IInv, Sound, Owned
<1>8. \A b \in Actors : ~At(b, t, Active)'
  BY <1>2, <1>3, <1>7 DEF At, Active, StartPC, ResetPC, CallPC
<1>9. Owned(t)'
  BY <1>3, <1>7 DEF Unowned, Owned
<1>10. Events(t)'
  BY <1>2, <1>6, <1>7 DEF Sound, Events, Starts
<1>20. Doom(t)'
  BY <1>3 DEF Doom
<1> USE DEF At, StartPC, ResetPC, CallPC, LockPC, Active, Engaged, Actors
<1>11. Steps(t)' /\ Alone(t)' /\ Callback(t)'
  BY <1>8 DEF Steps, Alone, Callback, InCallback
<1>12. Rights(t)'
  <2>1. \A b \in Actors : At(b, t, {"emplace"})' => t \in hold'[b]
    BY <1>2, <1>3, <1>7 DEF Sound, Rights, Unowned
  <2> QED
    BY <1>8, <2>1 DEF Rights
<1>13. Counts(t)'
  BY <1>2, <1>6, <1>7, <1>8 DEF Sound, Counts
<1>14. pc[a] \notin Engaged
  BY <1>2
<1> QED
  BY <1>2, <1>3, <1>4, <1>5, <1>9, <1>10, <1>11, <1>12, <1>13, <1>14, <1>20, Elsewhere DEF Sound, IInv

\* The thread that got a timer still holds it when the map takes it.
LEMMA InvEmplace == ASSUME IInv, TInv', NEW a \in Actors, Emplace(a) PROVE IInv'
<1>1. PICK t \in Timers : act[a].timer = t
  BY DEF Emplace, IInv, TInv, InHand, LockPC
<1>2. /\ pc[a] = "emplace" /\ pc'[a] = "ready" /\ map' = map \cup {t}
      /\ \A b \in Actors \ {a} : pc'[b] = pc[b] /\ act'[b] = act[b]
      /\ UNCHANGED <<life, hold, audit, event, heap, round, cur, handler, calls, stopped, running, act, fault>>
  BY <1>1 DEF Emplace, Goto, fields, history, IInv, TInv, TypeOK
<1>3. t \in hold[a]
  BY <1>1, <1>2 DEF IInv, Sound, Rights, At
<1>4. Places'
  <2>1. CASE a = Loop
    BY <1>2, <2>1, LoopPlaces DEF IInv, Places, StartPC, ResetPC, CallPC, LockPC, Active, Between, Actors
  <2>2. CASE a \in Users
    BY <1>2, <2>2, UserPlaces DEF IInv, StartPC, ResetPC, CallPC, LockPC, Active, Actors
  <2> QED
    BY <2>1, <2>2 DEF Actors
<1>5. ASSUME NEW u \in Timers PROVE SameData(u)
  BY <1>2, <1>3 DEF SameData, Unowned
<1>6. pc[a] \notin Active /\ pc'[a] \notin Engaged
  BY <1>2 DEF Active, Engaged, StartPC, ResetPC, CallPC, LockPC
<1> QED
  BY <1>2, <1>4, <1>5, <1>6, Nowhere DEF IInv

\* A pointer goes from hand to hand: nobody was using it.
LEMMA InvTake == ASSUME IInv, TInv', NEW a \in Actors, Take(a) PROVE IInv'
<1>0. PICK b \in Actors \ {a} : /\ pc[b] = "ready"
                                /\ \E t \in hold[b] : hold' = [hold EXCEPT ![b] = @ \ {t}, ![a] = @ \cup {t}]
  BY DEF Take
<1>1. PICK t \in hold[b] : hold' = [hold EXCEPT ![b] = @ \ {t}, ![a] = @ \cup {t}]
  BY <1>0
<1>2. /\ pc[a] = "ready"
      /\ UNCHANGED <<life, map, audit, event, heap, round, cur, handler, calls, stopped, running, act, pc, fault>>
  BY DEF Take, fields, history
<1>3. /\ t \in Timers /\ Sound(t) /\ life[t] = "alive" /\ ~Unowned(t)
      /\ \A x \in Actors \ {b} : t \notin hold[x]
  <2>1. t \in Timers
    BY DEF IInv, TInv, TypeOK
  <2>2. Sound(t)
    BY <2>1 DEF IInv
  <2> QED
    BY <2>1, <2>2 DEF Sound, Owned, Unowned
<1>4. /\ hold'[b] = hold[b] \ {t} /\ hold'[a] = hold[a] \cup {t}
      /\ \A x \in Actors \ {a, b} : hold'[x] = hold[x]
  BY <1>1 DEF IInv, TInv, TypeOK
<1>5. \A u \in Timers \ {t} : SameData(u)
  BY <1>2, <1>4 DEF SameData, Unowned
<1>6. Places'
  BY <1>2 DEF IInv, Places
<1>7. /\ Made(t)' = Made(t) /\ Pending(t)' = Pending(t) /\ ~Unowned(t)'
      /\ InCallback(t)' = InCallback(t)
      /\ \A x \in Actors, S \in {StartPC, ResetPC, CallPC, Active, StartPC \cup ResetPC} : At(x, t, S)' = At(x, t, S)
  BY <1>2, <1>3, <1>4, HeapSame DEF Unowned, InCallback, At
<1>8. Owned(t)'
  BY <1>2, <1>3, <1>4, <1>7 DEF Sound, Owned
<1>9. Events(t)' /\ Steps(t)' /\ Alone(t)'
  BY <1>2, <1>3, <1>7 DEF Sound, Events, Steps, Alone, At
<1>10. Rights(t)'
  <2>1. \A x \in Actors : pc[x] # "ready" => (t \in hold[x] <=> t \in hold'[x])
    BY <1>0, <1>2, <1>4
  <2>2. \A x \in Actors : pc[x] \in StartPC \cup ResetPC \cup {"emplace"} => pc[x] # "ready"
    BY DEF StartPC, ResetPC
  <2>3. /\ Endless(t)' = Endless(t) /\ InCB(t)' = InCB(t) /\ Loop \in Actors /\ Users \subseteq Actors
    BY <1>2 DEF Endless, InCB, Actors
  <2>4. /\ \A x \in Actors : At(x, t, {"emplace"}) => t \in hold[x]
        /\ \A x \in Actors : At(x, t, {"emplace"}) => t \in hold'[x]
    BY <1>3, <2>1, <2>2 DEF Sound, Rights, At
  <2> QED
    BY <1>2, <1>3, <1>7, <2>1, <2>2, <2>3, <2>4 DEF Sound, Rights, At
<1>11. Doom(t)'
  BY <1>4 DEF Doom
<1>12. Callback(t)'
  BY <1>2, <1>3, <1>7 DEF Sound, Callback
<1>13. Counts(t)'
  <2>1. Rounded(t)' = Rounded(t)
    BY <1>2, <1>7 DEF Rounded, At
  <2>2. Called(t)' = Called(t)
    BY <1>2, <1>7 DEF Called
  <2> QED
    BY <1>2, <1>3, <1>7, <2>1, <2>2 DEF Sound, Counts, At
<1>14. pc[a] \notin Engaged /\ pc'[a] \notin Engaged
  BY <1>2 DEF Engaged, Active, StartPC, ResetPC, CallPC, LockPC
<1> QED
  BY <1>2, <1>3, <1>5, <1>6, <1>8, <1>9, <1>10, <1>11, <1>12, <1>13, <1>14, Elsewhere DEF Sound, IInv

LEMMA MadeNext ==
  ASSUME NEW t \in Timers, NEW m \in Nat, Made(t) = m, m + 1 \in Starts,
         \A k \in Starts : heap[t][k] # "none" <=> k <= m,
         heap'[t][m + 1] = "idle", \A k \in Starts \ {m + 1} : heap'[t][k] = heap[t][k]
  PROVE  Made(t)' = m + 1
<1> DEFINE made == {k \in Starts : heap[t][k] # "none"}
<1>1. {k \in Starts : heap'[t][k] # "none"} = made \cup {m + 1}
  OBVIOUS
<1>2. m + 1 \notin made
  OBVIOUS
<1>3. IsFiniteSet(made)
  <2>1. IsFiniteSet(Starts)
    BY FS_Interval DEF Starts
  <2>2. made \in SUBSET Starts
    OBVIOUS
  <2> QED
    BY <2>1, <2>2, FS_Subset
<1>4. Cardinality(made \cup {m + 1}) = Cardinality(made) + 1
  BY <1>2, <1>3, FS_AddElement
<1>5. Made(t)' = Cardinality({k \in Starts : heap'[t][k] # "none"})
  BY DEF Made
<1>6. Made(t) = Cardinality(made)
  BY DEF Made
<1> QED
  BY <1>1, <1>4, <1>5, <1>6

LEMMA InvBegin ==
  ASSUME IInv, TInv', NEW a \in Actors, NEW t \in Timers, NEW n \in 1..Forever, NEW h \in Handlers,
         NEW then \in {"ready", "return"}, Begin(a, t, n, h, then), event[t] = 0, life[t] = "alive",
         pc[a] \in {"ready", "call"}, pc[a] = "call" => act[a].timer = t,
         \A b \in Actors : ~At(b, t, StartPC \cup ResetPC),
         a \in Users => t \in hold[a] /\ running.timer # t /\ then = "ready",
         a = Loop => IF then = "ready" THEN t \in hold[a]
                                       ELSE running.timer = t /\ handler[t].kind = "after",
         UNCHANGED <<life, map, hold, audit, round, cur, handler, running, fault>>,
         \A u \in Timers \ {t} : calls'[u] = calls[u], calls'[t] <= round[t]
  PROVE  IInv'
<1>1. Sound(t)
  BY DEF IInv
<1> DEFINE m == Made(t)
<1>2. m \in 0..MaxStarts /\ m < MaxStarts /\ m \in Nat /\ m + 1 \in Starts
  BY MadeType DEF IInv, TInv, Begin, Starts
<1> HIDE DEF m
<1>3. /\ event' = [event EXCEPT ![t] = m + 1] /\ heap' = [heap EXCEPT ![t][m + 1] = "idle"]
      /\ stopped' = stopped \ {t} /\ pc' = [pc EXCEPT ![a] = "add"]
      /\ act' = [act EXCEPT ![a] = [Idle EXCEPT !.timer = t, !.rounds = n, !.handler = h,
                                              !.then = then]]
  BY DEF Begin, Goto, m
<1>4. /\ event'[t] = m + 1 /\ \A u \in Timers \ {t} : event'[u] = event[u]
      /\ pc'[a] = "add" /\ act'[a].timer = t /\ act'[a].rounds = n /\ act'[a].handler = h /\ act'[a].then = then
      /\ \A b \in Actors \ {a} : pc'[b] = pc[b] /\ act'[b] = act[b]
  BY <1>3 DEF IInv, TInv, TypeOK, Idle
<1>5. /\ \A u \in Timers \ {t} : heap'[u] = heap[u]
      /\ heap'[t][m + 1] = "idle" /\ \A k \in Starts \ {m + 1} : heap'[t][k] = heap[t][k]
  BY <1>2, <1>3 DEF IInv, TInv, TypeOK
<1>6. \A u \in Timers \ {t} : SameData(u)
  BY <1>3, <1>4, <1>5, OwnersSame DEF SameData
<1>7. h # Empty
  BY DEF Handlers, Empty
<1>8. Places'
  <2>1. CASE a = Loop
    BY <1>4, <1>7, <2>1, LoopPlaces DEF IInv, Places, StartPC, ResetPC, CallPC, LockPC, Active, Engaged, Between, Actors
  <2>2. CASE a \in Users
    BY <1>4, <1>7, <2>2, UserPlaces DEF IInv, StartPC, ResetPC, CallPC, LockPC, Active, Engaged, Actors
  <2> QED
    BY <2>1, <2>2 DEF Actors
<1>9. \A k \in Starts : heap[t][k] # "none" <=> k <= m
  BY <1>1 DEF Sound, Events, m
<1>10. Made(t)' = m + 1
  BY <1>2, <1>5, <1>9, MadeNext DEF m
<1>11. Unowned(t)' = Unowned(t) /\ ~Pending(t)'
  <2>1. \A k \in Starts : heap[t][k] \notin {"idle", "once", "every"}
    BY <1>1 DEF Sound, Events, Starts
  <2>2. \A k \in Starts : heap'[t][k] \notin {"once", "every"}
    BY <1>5, <2>1
  <2> QED
    BY <2>2, OwnersSame DEF Pending, Starts
<1>12. ~InCallback(t)'
  BY <1>1, <1>4 DEF Sound, Callback, InCallback, At, ResetPC, CallPC, Actors, IInv, Places
<1> USE DEF At, StartPC, ResetPC, CallPC, LockPC, Active, Engaged, Actors
<1>13. Owned(t)'
  BY <1>1 DEF Sound, Owned
<1>14. Events(t)'
  <2>1. \A k \in Starts : heap[t][k] \notin {"idle", "once", "every"}
    BY <1>1 DEF Sound, Events, Starts
  <2>2. \A k \in Starts : heap'[t][k] # "none" <=> k <= m + 1
    BY <1>2, <1>5, <1>9 DEF Starts
  <2> QED
    BY <1>2, <1>4, <1>5, <1>10, <2>1, <2>2 DEF Events
<1>15. Steps(t)'
  BY <1>2, <1>4, <1>5 DEF Steps
<1>16. Rights(t)'
  BY <1>1, <1>4, <1>11, <1>12 DEF Sound, Rights, InCallback
<1>17. Alone(t)'
  BY <1>4 DEF Alone
<1>18. Callback(t)'
  BY <1>12 DEF Callback
<1>19. Counts(t)'
  <2>1. Rounded(t)'
    BY <1>2, <1>4, <1>11 DEF Rounded
  <2>2. At(a, t, StartPC)'
    BY <1>4
  <2> QED
    BY <1>1, <1>2, <1>10, <2>1, <2>2 DEF Sound, Counts
<1>20. Doom(t)'
  <2>1. \A u \in Users : pc'[u] = "erase" => pc[u] = "erase" /\ act'[u] = act[u]
    BY <1>4
  <2>2. (\E b \in Actors : t \in hold[b]) \/ ~Spared(t)
    BY DEF Spared, Endless
  <2> QED
    BY <1>1, <2>1, <2>2, DoomKept DEF Sound
<1> QED
  BY <1>4, <1>6, <1>8, <1>13, <1>14, <1>15, <1>16, <1>17, <1>18, <1>19, <1>20, Elsewhere DEF Sound, IInv

LEMMA InvStart == ASSUME CarefulUse, IInv, TInv', NEW a \in Actors, Start(a) PROVE IInv'
<1>0. PICK t \in hold[a], n \in Rounds :
        /\ a = Loop \/ Made(t) = 0
        /\ \/ Begin(a, t, n, [kind |-> "plain", rounds |-> n], "ready")
           \/ n = Forever /\ StartCB(a, t)
           \/ Begin(a, t, 1, [kind |-> "after", rounds |-> n], "ready")
  BY DEF Start, CarefulUse
<1>2. /\ pc[a] = "ready" /\ UNCHANGED calls
  BY DEF Start
<1>3. t \in Timers /\ Sound(t) /\ life[t] = "alive"
  <2>1. t \in Timers
    BY DEF IInv, TInv, TypeOK
  <2>2. Sound(t)
    BY <2>1 DEF IInv
  <2> QED
    BY <2>1, <2>2 DEF Sound, Owned, Unowned
<1>4. a \in Users => running.timer # t
  BY <1>0, <1>3 DEF Sound, Events, Actors
<1>1. PICK m \in 1..Forever, h \in Handlers : Begin(a, t, m, h, "ready")
  <2>1. \A k \in {"plain", "cb", "after"} : [kind |-> k, rounds |-> n] \in Handlers
    BY DEF Handlers
  <2>2. CASE n = Forever /\ StartCB(a, t)
    <3>1. Begin(a, t, Forever, [kind |-> "cb", rounds |-> Forever], "ready")
      BY <1>4, <2>2 DEF StartCB, InCB, Actors
    <3>2. Forever \in Rounds
      BY <2>2
    <3> QED
      BY <3>1, <3>2 DEF Handlers
  <2>3. n \in 1..Forever /\ 1 \in 1..Forever
    OBVIOUS
  <2> QED
    BY <1>0, <2>1, <2>2, <2>3
<1>5. event[t] = 0 /\ UNCHANGED <<life, map, hold, audit, round, cur, handler, calls, running, fault>>
  BY <1>1, <1>2 DEF Begin, shared
<1>6. ASSUME NEW b \in Actors PROVE ~At(b, t, StartPC \cup ResetPC)
  <2> SUFFICES ASSUME At(b, t, StartPC \cup ResetPC) PROVE FALSE
    OBVIOUS
  <2>1. ~At(b, t, StartPC)
    BY <1>3, <1>5 DEF Sound, Steps
  <2>2. At(b, t, ResetPC) /\ a # b
    BY <1>2, <2>1 DEF At, StartPC, ResetPC
  <2>3. act[b].then \in {"ready", "return", "call", "delete"}
    BY DEF IInv, TInv, TypeOK, Acts
  <2>4. CASE act[b].then = "ready"
    BY <1>3, <1>4, <2>2, <2>4 DEF Sound, Rights, Owned, Actors
  <2>5. CASE act[b].then = "delete"
    BY <1>3, <2>2, <2>5 DEF Sound, Rights, Unowned
  <2>6. CASE act[b].then \in {"call", "return"}
    <3>1. b = Loop /\ a \in Users
      BY <2>2, <2>6 DEF At, IInv, Places, Actors
    <3> QED
      BY <1>3, <1>4, <2>2, <2>6, <3>1 DEF Sound, Rights, Callback, InCallback, Actors
  <2> QED
    BY <2>3, <2>4, <2>5, <2>6
<1>7. calls[t] <= round[t]
  <2>1. CASE Made(t) = 0
    BY <1>3, <2>1, CellTypes DEF Sound, Counts, IInv, TInv
  <2>2. CASE a = Loop
    <3>1. ~InCallback(t)
      BY <1>2, <2>2 DEF InCallback, At, CallPC, ResetPC
    <3> QED
      BY <1>3, <1>6, <3>1, CallsBound DEF At
  <2> QED
    BY <1>0, <2>1, <2>2
<1>8. a = Loop \/ a \in Users
  BY DEF Actors
<1> QED
  BY <1>1, <1>2, <1>3, <1>4, <1>5, <1>6, <1>7, <1>8, InvBegin

\* Whoever stops t, or lets go of it as the last, finds nobody else in startRounds or
\* reset for it.
LEMMA NobodyElse ==
  ASSUME IInv, NEW a \in Actors, NEW t \in Timers, pc[a] \notin StartPC \cup ResetPC,
         ~Unowned(t), \A b \in Actors \ {a} : t \notin hold[b],
         a = Loop \/ Spared(t)
  PROVE  \A b \in Actors : ~At(b, t, StartPC \cup ResetPC)
<1> SUFFICES ASSUME NEW b \in Actors, At(b, t, StartPC \cup ResetPC) PROVE FALSE
  OBVIOUS
<1>1. a # b /\ Sound(t)
  BY DEF At, IInv
<1>2. b = Loop => a # Loop /\ ((event[t] = 0 /\ running.timer # t) \/ (Endless(t) /\ ~InCB(t)))
  BY <1>1 DEF Spared
<1>3. ~At(b, t, StartPC)
  BY <1>1, <1>2 DEF Sound, Rights, Steps, Endless, Actors
<1>4. At(b, t, ResetPC)
  BY <1>3 DEF At
<1>5. act[b].then \in {"ready", "return", "call", "delete"}
  BY DEF IInv, TInv, TypeOK, Acts
<1>6. CASE act[b].then = "ready"
  BY <1>1, <1>2, <1>4, <1>6 DEF Sound, Rights, Endless, Actors
<1>7. CASE act[b].then = "delete"
  BY <1>1, <1>4, <1>7 DEF Sound, Rights
<1>8. CASE act[b].then = "call"
  BY <1>1, <1>2, <1>4, <1>8 DEF Sound, Rights, Callback, InCallback, Endless, At, Actors, IInv, Places
<1>9. CASE act[b].then = "return"
  BY <1>1, <1>2, <1>4, <1>9 DEF Sound, Rights, Endless, InCB, At, Actors, IInv, Places
<1> QED
  BY <1>5, <1>6, <1>7, <1>8, <1>9

\* stop(), from any thread, or by the lambda of startCB: the timer keeps its owners.
LEMMA InvStops ==
  ASSUME IInv, TInv', NEW a \in Actors, NEW t \in Timers, NEW then \in {"ready", "return"},
         life[t] = "alive", pc[a] = "ready",
         \A b \in Actors : ~At(b, t, StartPC \cup ResetPC),
         Does(a, t, then, "ready"), Goto(a, "reset"), stopped' = stopped \cup {t},
         then = "ready" => t \in hold[a],
         then = "return" => a = Loop /\ running.timer = t /\ running.cb,
         a \in Users => Endless(t) /\ ~InCB(t),
         UNCHANGED <<life, map, hold, audit, event, heap, round, cur, handler, calls, running, fault>>
  PROVE  IInv'
<1>1. Sound(t)
  BY DEF IInv
<1>2. /\ pc'[a] = "reset" /\ \A b \in Actors \ {a} : pc'[b] = pc[b] /\ act'[b] = act[b]
      /\ act'[a].timer = t /\ act'[a].then = then /\ act'[a].next = "ready"
  BY DoesIs DEF Goto, IInv, TInv, TypeOK
<1>3. \A u \in Timers \ {t} : SameData(u)
  BY OwnersSame DEF SameData
<1>30. a \in Users => then = "ready"
  OBVIOUS
<1>4. Places'
  <2>1. CASE a = Loop
    BY <1>2, <2>1, LoopPlaces DEF IInv, Places, StartPC, ResetPC, CallPC, LockPC, Active, Between, Actors
  <2>2. CASE a \in Users
    BY <1>2, <1>30, <2>2, UserPlaces DEF IInv, StartPC, ResetPC, CallPC, LockPC, Active, Actors
  <2> QED
    BY <2>1, <2>2 DEF Actors
<1>5. Made(t)' = Made(t) /\ Pending(t)' = Pending(t) /\ Unowned(t)' = Unowned(t)
  BY HeapSame, OwnersSame
<1>6. InCallback(t)' = InCallback(t) /\ (InCallback(t) => pc'[Loop] = pc[Loop] /\ act'[Loop] = act[Loop])
  BY <1>2 DEF InCallback, At, ResetPC, CallPC, Actors
<1> USE DEF At, StartPC, ResetPC, CallPC, LockPC, Active, Engaged, Actors
<1>7. Owned(t)'
  BY <1>1, <1>5 DEF Sound, Owned
<1>8. Events(t)'
  BY <1>1, <1>5 DEF Sound, Events
<1>9. Steps(t)'
  BY <1>2 DEF Steps
<1>10. Rights(t)'
  <2>1. \A b \in Actors : At(b, t, {"emplace"})' => t \in hold'[b]
    BY <1>1, <1>2 DEF Sound, Rights
  <2> QED
    BY <1>1, <1>2, <1>5, <1>30, <2>1 DEF Sound, Rights, Endless, InCB
<1>11. Alone(t)'
  BY <1>2 DEF Alone
<1>12. Callback(t)'
  BY <1>1, <1>2, <1>6 DEF Sound, Callback
<1>13. Doom(t)'
  <2>1. \A u \in Users : pc'[u] = "erase" => pc[u] = "erase" /\ act'[u] = act[u]
    BY <1>2
  <2>2. Spared(t) => Spared(t)'
    BY DEF Spared, Endless, InCB
  <2> QED
    BY <1>1, <2>1, <2>2, DoomKept DEF Sound
<1>14. Counts(t)'
  <2>1. ASSUME Rounded(t) PROVE Rounded(t)'
    BY <1>2, <1>5, <2>1 DEF Rounded
  <2>2. ASSUME Called(t) PROVE Called(t)'
    BY <1>2, <1>5, <1>6, <2>2 DEF Called
  <2> QED
    BY <1>1, <1>2, <1>5, <2>1, <2>2 DEF Sound, Counts
<1> QED
  BY <1>2, <1>3, <1>4, <1>7, <1>8, <1>9, <1>10, <1>11, <1>12, <1>13, <1>14, Elsewhere DEF Sound, IInv

LEMMA InvStop == ASSUME CarefulUse, IInv, TInv', NEW a \in Actors, Stop(a) PROVE IInv'
<1>1. PICK t \in hold[a] : /\ event[t] # 0 /\ (a = Loop \/ (Endless(t) /\ ~InCB(t)))
                           /\ stopped' = stopped \cup {t} /\ Does(a, t, "ready", "ready")
  BY DEF Stop, CarefulUse, Killable, Endless
<1>2. /\ pc[a] = "ready" /\ Goto(a, "reset")
      /\ UNCHANGED <<life, map, hold, audit, event, heap, round, cur, handler, calls, running, fault>>
  BY DEF Stop, shared, fields
<1>3. t \in Timers /\ Sound(t) /\ life[t] = "alive" /\ ~Unowned(t) /\ \A b \in Actors \ {a} : t \notin hold[b]
  <2>1. t \in Timers
    BY DEF IInv, TInv, TypeOK
  <2>2. Sound(t)
    BY <2>1 DEF IInv
  <2> QED
    BY <2>1, <2>2 DEF Sound, Owned, Unowned
<1>4. a = Loop \/ Spared(t)
  BY <1>1 DEF Spared
<1>5. \A b \in Actors : ~At(b, t, StartPC \cup ResetPC)
  BY <1>2, <1>3, <1>4, NobodyElse DEF StartPC, ResetPC
<1>6. a \in Users => Endless(t) /\ ~InCB(t)
  BY <1>1
<1> QED
  BY <1>1, <1>2, <1>3, <1>5, <1>6, InvStops

\* The callback of startCB returned -1, and its timer is still there.
LEMMA InvCBStop == ASSUME CarefulUse, IInv, TInv', CBStop PROVE IInv'
<1>0. Loop \in Actors /\ pc[Loop] = "ready" /\ running.cb
  BY DEF CBStop, Actors
<1>1. PICK t \in Timers : running.timer = t
  BY <1>0 DEF IInv, Places, Between
<1>2. Sound(t) /\ life[t] = "alive"
  <2>1. Sound(t)
    BY DEF IInv
  <2>2. Made(t) > 0
    BY <1>1, <2>1 DEF Sound, Events
  <2>3. life[t] # "unborn"
    BY <2>1, <2>2 DEF Sound, Owned
  <2>4. life[t] # "dead"
    BY <1>1 DEF CBStop, CarefulUse
  <2> QED
    BY <2>1, <2>3, <2>4 DEF IInv, TInv, TypeOK
<1>3. /\ stopped' = stopped \cup {t} /\ Does(Loop, t, "return", "ready") /\ Goto(Loop, "reset")
      /\ UNCHANGED <<life, map, hold, audit, event, heap, round, cur, handler, calls, running, fault>>
  BY <1>1, <1>2 DEF CBStop, Writes, shared, fields
<1>4. ASSUME NEW b \in Actors PROVE ~At(b, t, StartPC \cup ResetPC)
  <2>1. CASE b = Loop
    BY <1>0, <2>1 DEF At, StartPC, ResetPC
  <2>2. CASE b \in Users
    BY <1>0, <1>1, <1>2, <2>2 DEF Sound, Rights, InCB, At
  <2> QED
    BY <2>1, <2>2 DEF Actors
<1>5. Loop \notin Users
  OBVIOUS
<1> QED
  BY <1>0, <1>1, <1>2, <1>3, <1>4, <1>5, InvStops

\* A thread lets go of t, and keeps the other owners; ~Timer, if there is none.
LEMMA InvLetsGo ==
  ASSUME IInv, TInv', NEW a \in Actors, NEW t \in Timers, life[t] = "alive",
         NEW kept \in BOOLEAN, NEW next \in {"ready", "unlock", "dtor"}, LetGo(a, t, kept, next),
         pc[a] \in {"ready", "dtor", "erase"}, pc[a] = "erase" => act[a].timer = t,
         a = Loop => next # "dtor",
         \A b \in Actors \ {a} : hold'[b] = hold[b],
         hold'[a] = hold[a] \/ (t \in hold[a] /\ hold'[a] = hold[a] \ {t}),
         \A u \in Timers \ {t} : Unowned(u)' = Unowned(u) /\ (u \in map' => u \in map),
         ~Unowned(t), Doom(t)',
         ~kept => /\ Unowned(t)' /\ \A b \in Actors \ {a} : t \notin hold[b]
                  /\ a = Loop \/ Spared(t),
         UNCHANGED <<life, audit, event, heap, round, cur, handler, calls, running, fault>>
  PROVE  IInv'
<1>1. Sound(t)
  BY DEF IInv
<1>2. /\ pc'[a] = IF kept THEN next ELSE "reset"
      /\ \A b \in Actors \ {a} : pc'[b] = pc[b] /\ act'[b] = act[b]
      /\ kept => act' = act /\ stopped' = stopped
      /\ ~kept => /\ act'[a].timer = t /\ act'[a].then = "delete" /\ act'[a].next = next
                  /\ stopped' = stopped \cup {t}
  BY DoesIs DEF LetGo, Goto, IInv, TInv, TypeOK
<1>3. \A u \in Timers \ {t} : SameData(u)
  BY <1>2 DEF SameData
<1>4. Places'
  <2>1. CASE a = Loop
    BY <1>2, <2>1, LoopPlaces DEF IInv, Places, StartPC, ResetPC, CallPC, LockPC, Active, Between, Actors
  <2>2. CASE a \in Users
    BY <1>2, <2>2, UserPlaces DEF IInv, StartPC, ResetPC, CallPC, LockPC, Active, Actors
  <2> QED
    BY <2>1, <2>2 DEF Actors
<1>5. Made(t)' = Made(t) /\ Pending(t)' = Pending(t)
  BY HeapSame
<1>6. ~kept => \A b \in Actors : ~At(b, t, StartPC \cup ResetPC)
  BY NobodyElse DEF StartPC, ResetPC
<1>7. InCallback(t)' = InCallback(t) /\ (InCallback(t) => pc'[Loop] = pc[Loop] /\ act'[Loop] = act[Loop])
  BY <1>2 DEF InCallback, At, ResetPC, CallPC, Actors
<1> USE DEF At, StartPC, ResetPC, CallPC, LockPC, Active, Engaged, Actors
<1>8. Owned(t)'
  BY <1>1 DEF Sound, Owned
<1>9. Events(t)'
  BY <1>1, <1>2, <1>5 DEF Sound, Events
<1>10. Steps(t)'
  BY <1>1, <1>2 DEF Sound, Steps
<1>11. Rights(t)'
  <2>0. Endless(t)' = Endless(t) /\ InCB(t)' = InCB(t)
    BY DEF Endless, InCB
  <2>1. CASE kept
    BY <1>1, <1>2, <1>5, <2>0, <2>1 DEF Sound, Rights, Owned
  <2>2. CASE ~kept
    <3>1. \A b \in Actors : At(b, t, {"emplace"})' => t \in hold'[b]
      BY <1>1, <1>2, <2>2 DEF Sound, Rights
    <3>2. a \in Users => (Endless(t) /\ ~InCB(t)) \/ (~Pending(t) /\ running.timer # t)
      BY <1>1, <2>2 DEF Sound, Events, Spared, Pending, Starts
    <3> QED
      BY <1>1, <1>2, <1>5, <1>6, <2>0, <2>2, <3>1, <3>2 DEF Sound, Rights
  <2> QED
    BY <2>1, <2>2
<1>12. Alone(t)'
  BY <1>1, <1>2, <1>6 DEF Sound, Alone
<1>13. Callback(t)'
  BY <1>1, <1>7 DEF Sound, Callback
<1>14. Counts(t)'
  <2>1. ASSUME Rounded(t) PROVE Rounded(t)'
    BY <1>2, <1>5, <2>1 DEF Rounded
  <2>2. ASSUME Called(t) PROVE Called(t)'
    BY <1>2, <1>5, <1>7, <2>2 DEF Called
  <2>3. (\A b \in Actors : ~At(b, t, StartPC)') => \A b \in Actors : ~At(b, t, StartPC)
    BY <1>2
  <2> QED
    BY <1>1, <1>2, <1>5, <2>1, <2>2, <2>3 DEF Sound, Counts
<1> QED
  BY <1>2, <1>3, <1>4, <1>8, <1>9, <1>10, <1>11, <1>12, <1>13, <1>14, Elsewhere DEF Sound, IInv

LEMMA InvDrop == ASSUME CarefulUse, IInv, TInv', NEW a \in Actors, Drop(a) PROVE IInv'
<1>1. PICK t \in hold[a] : /\ Killable(t) \/ (IF Others(a, t) THEN ~Doomed(t) ELSE a = Loop)
                           /\ hold' = [hold EXCEPT ![a] = hold[a] \ {t}]
                           /\ LetGo(a, t, Others(a, t), "ready")
  BY DEF Drop
<1>2. /\ pc[a] = "ready"
      /\ UNCHANGED <<life, map, audit, event, heap, round, cur, handler, calls, running, fault>>
  BY DEF Drop, fields
<1>3. t \in Timers /\ Sound(t) /\ life[t] = "alive" /\ ~Unowned(t) /\ \A b \in Actors \ {a} : t \notin hold[b]
  <2>1. t \in Timers
    BY DEF IInv, TInv, TypeOK
  <2>2. Sound(t)
    BY <2>1 DEF IInv
  <2> QED
    BY <2>1, <2>2 DEF Sound, Owned, Unowned
<1>4. hold'[a] = hold[a] \ {t} /\ \A b \in Actors \ {a} : hold'[b] = hold[b]
  BY <1>1 DEF IInv, TInv, TypeOK
<1>5. \A u \in Timers \ {t} : Unowned(u)' = Unowned(u) /\ (u \in map' => u \in map)
  BY <1>2, <1>4 DEF Unowned
<1>50. Killable(t) => Spared(t)
  BY DEF CarefulUse, Killable, Spared, Endless
<1> DEFINE kept == Others(a, t)
<1>6. ~kept => Unowned(t)' /\ (a = Loop \/ Spared(t))
  BY <1>1, <1>2, <1>3, <1>4, <1>50 DEF Others, Unowned, Holders
<1>7. kept \in BOOLEAN
  BY DEF Others
<1>9. Doom(t)'
  <2>1. \A u \in Users : pc'[u] = "erase" => pc[u] = "erase" /\ act'[u] = act[u]
    <3>1. pc'[a] # "erase" /\ \A b \in Actors \ {a} : pc'[b] = pc[b] /\ act'[b] = act[b]
      BY <1>1, <1>3, DoesIs DEF LetGo, Goto, IInv, TInv, TypeOK
    <3> QED
      BY <3>1 DEF Actors
  <2>2. Doomed(t)' => Doomed(t)
    BY <1>2, <2>1 DEF Doomed
  <2>3. Spared(t) => Spared(t)'
    BY <1>2 DEF Spared, Endless, InCB
  <2>4. ~kept => t \notin map'
    BY <1>2 DEF Others
  <2> QED
    BY <1>1, <1>50, <2>2, <2>3, <2>4 DEF Doom
<1> HIDE DEF kept
<1>8. LetGo(a, t, kept, "ready")
  BY <1>1 DEF kept
<1> QED
  BY <1>2, <1>3, <1>4, <1>5, <1>6, <1>7, <1>8, <1>9, InvLetsGo

\* A thread takes t out of the map.
LEMMA InvOut ==
  ASSUME IInv, TInv', NEW a \in Actors, NEW t \in map, NEW next \in {"unlock", "dtor"},
         pc[a] \in {"dtor", "erase"}, pc[a] = "erase" => act[a].timer = t, a = Loop => next = "unlock",
         a = Loop \/ Doomed(t),
         map' = map \ {t}, LetGo(a, t, Holders(t) # {}, next),
         UNCHANGED <<life, hold, audit, event, heap, round, cur, handler, calls, running, fault>>
  PROVE  IInv'
<1>1. t \in Timers /\ Sound(t) /\ life[t] = "alive" /\ ~Unowned(t)
  <2>1. t \in Timers
    BY DEF IInv, TInv, TypeOK
  <2>2. Sound(t)
    BY <2>1 DEF IInv
  <2> QED
    BY <2>1, <2>2 DEF Sound, Owned, Unowned
<1>2. \A u \in Timers \ {t} : Unowned(u)' = Unowned(u) /\ (u \in map' => u \in map)
  BY DEF Unowned
<1> DEFINE kept == Holders(t) # {}
<1>3. ~kept => /\ Unowned(t)' /\ \A b \in Actors \ {a} : t \notin hold[b]
               /\ a = Loop \/ Spared(t)
  BY <1>1 DEF Holders, Unowned, Sound, Doom
<1>6. Doom(t)'
  BY DEF Doom
<1> HIDE DEF kept
<1>4. LetGo(a, t, kept, next)
  BY DEF kept
<1>5. kept \in BOOLEAN
  BY DEF kept
<1> QED
  BY <1>1, <1>2, <1>3, <1>4, <1>5, <1>6, InvLetsGo

LEMMA InvKillTimer == ASSUME CarefulUse, IInv, TInv', NEW a \in Actors, KillTimer(a) PROVE IInv'
<1>1. PICK t \in map : /\ a = Loop \/ Killable(t) \/ Holders(t) # {}
                       /\ Does(a, t, "ready", "ready")
  BY DEF KillTimer
<1>2. t \in Timers
  BY DEF IInv, TInv, TypeOK
<1>3. /\ pc[a] = "ready" /\ pc'[a] = "erase" /\ act'[a].timer = t
      /\ \A b \in Actors \ {a} : pc'[b] = pc[b] /\ act'[b] = act[b]
      /\ UNCHANGED <<life, map, hold, audit, event, heap, round, cur, handler, calls, stopped, running, fault>>
  BY <1>1, <1>2, DoesIs DEF KillTimer, Goto, shared, fields, history, IInv, TInv, TypeOK
<1>4. a = Loop \/ MayGo(t)
  BY <1>1 DEF CarefulUse, Killable, MayGo, Holders, Spared, Endless
<1>5. Places'
  <2>1. CASE a = Loop
    BY <1>3, <2>1, LoopPlaces DEF IInv, Places, StartPC, ResetPC, CallPC, LockPC, Active, Between, Actors
  <2>2. CASE a \in Users
    BY <1>3, <2>2, UserPlaces DEF IInv, StartPC, ResetPC, CallPC, LockPC, Active, Actors
  <2> QED
    BY <2>1, <2>2 DEF Actors
<1>6. \A u \in Timers : SameData(u)
  BY <1>3, OwnersSame DEF SameData
<1>7. pc[a] \notin Active
  BY <1>3 DEF Active, StartPC, ResetPC, CallPC
<1> QED
  BY <1>3, <1>4, <1>5, <1>6, <1>7, Nowhere DEF IInv

LEMMA InvErase == ASSUME IInv, TInv', NEW a \in Actors, Erase(a) PROVE IInv'
<1>1. PICK t \in Timers : act[a].timer = t
  BY DEF Erase, IInv, TInv, InHand, LockPC
<1>2. /\ pc[a] = "erase" /\ map' = map \ {t}
      /\ LetGo(a, t, t \notin map \/ Holders(t) # {}, "unlock")
      /\ UNCHANGED <<life, hold, audit, event, heap, round, cur, handler, calls, running, fault>>
  BY <1>1 DEF Erase, fields
<1>3. CASE t \in map
  <2>1. a = Loop \/ Doomed(t)
    BY <1>1, <1>2 DEF Doomed, Actors
  <2>2. LetGo(a, t, Holders(t) # {}, "unlock")
    BY <1>2, <1>3
  <2> QED
    BY <1>1, <1>2, <1>3, <2>1, <2>2, InvOut
<1>4. CASE t \notin map
  <2>1. /\ pc'[a] = "unlock" /\ \A b \in Actors \ {a} : pc'[b] = pc[b]
        /\ UNCHANGED <<map, act, stopped>>
    BY <1>2, <1>4 DEF LetGo, Goto, IInv, TInv, TypeOK
  <2>2. Places'
    <3>1. CASE a = Loop
      BY <1>2, <2>1, <3>1, LoopPlaces DEF IInv, Places, StartPC, ResetPC, CallPC, LockPC, Active, Between, Actors
    <3>2. CASE a \in Users
      BY <1>2, <2>1, <3>2, UserPlaces DEF IInv, StartPC, ResetPC, CallPC, LockPC, Active, Actors
    <3> QED
      BY <3>1, <3>2 DEF Actors
  <2>3. \A u \in Timers : SameData(u)
    BY <1>2, <2>1, OwnersSame DEF SameData
  <2>4. pc[a] \notin Active /\ pc'[a] \notin Engaged
    BY <1>2, <2>1 DEF Active, Engaged, StartPC, ResetPC, CallPC, LockPC
  <2> QED
    BY <1>2, <2>1, <2>2, <2>3, <2>4, Nowhere DEF IInv
<1> QED
  BY <1>3, <1>4

\* The manager's destructor is at work only when the audit timer is gone.
Ending ==
  \A u \in Users : pc[u] = "dtor" \/ act[u].next = "dtor" => audit = "gone"

LEMMA InvDtorMap == ASSUME IInv, Ending, TInv', NEW a \in Actors, DtorMap(a) PROVE IInv'
<1>1. /\ pc[a] = "dtor" /\ a # Loop /\ a \in Users
      /\ UNCHANGED <<life, hold, audit, event, heap, round, cur, handler, calls, running, fault>>
  BY DEF DtorMap, fields, IInv, Places, Active, StartPC, ResetPC, CallPC, LockPC, Between, Actors
<1>2. CASE \E t \in map : map' = map \ {t} /\ LetGo(a, t, Holders(t) # {}, "dtor")
  <2>1. PICK t \in map : map' = map \ {t} /\ LetGo(a, t, Holders(t) # {}, "dtor")
    BY <1>2
  <2>2. Doomed(t)
    BY <1>1 DEF Ending, Doomed
  <2> QED
    BY <1>1, <2>1, <2>2, InvOut
<1>3. CASE map = {} /\ Goto(a, "ready") /\ UNCHANGED <<map, act, stopped>>
  <2>1. pc'[a] = "ready" /\ \A b \in Actors \ {a} : pc'[b] = pc[b] /\ act'[b] = act[b]
    BY <1>3 DEF Goto, IInv, TInv, TypeOK
  <2>2. Places'
    BY <1>1, <1>3, <2>1, UserPlaces DEF IInv, StartPC, ResetPC, CallPC, LockPC, Actors
  <2>3. \A u \in Timers : SameData(u)
    BY <1>1, <1>3, OwnersSame DEF SameData
  <2>4. pc[a] \notin Active /\ pc'[a] \notin Engaged
    BY <1>1, <2>1 DEF Active, Engaged, StartPC, ResetPC, CallPC, LockPC
  <2> QED
    BY <1>1, <2>1, <2>2, <2>3, <2>4, Nowhere DEF IInv
<1> QED
  BY <1>2, <1>3 DEF DtorMap

LEMMA InvFire == ASSUME CarefulUse, IInv, TInv', NEW t \in Timers, Fire(t) PROVE IInv'
<1>1. PICK k \in Starts :
        /\ heap[t][k] \in {"once", "every"}
        /\ heap' = [heap EXCEPT ![t][k] = IF heap[t][k] = "once" THEN "idle" ELSE heap[t][k]]
        /\ running' = [timer |-> t, ev |-> k, cb |-> handler[t].kind = "cb"]
  BY DEF Fire
<1>2. /\ pc[Loop] = "poll" /\ ~Starting(t) /\ Goto(Loop, "count")
      /\ act' = [act EXCEPT ![Loop] =
                   [Idle EXCEPT !.timer = t, !.handler = handler[t], !.then = "call"]]
      /\ UNCHANGED <<life, map, hold, audit, event, round, cur, handler, calls, stopped, fault>>
  BY DEF Fire, CarefulUse, shared, history
<1>3. /\ pc'[Loop] = "count" /\ act'[Loop].timer = t /\ act'[Loop].handler = handler[t]
      /\ act'[Loop].then = "call" /\ act'[Loop].next = "ready"
      /\ \A b \in Actors \ {Loop} : pc'[b] = pc[b] /\ act'[b] = act[b]
  BY <1>2 DEF Goto, Idle, IInv, TInv, TypeOK, Actors
<1>4. /\ \A u \in Timers \ {t} : heap'[u] = heap[u]
      /\ \A j \in Starts \ {k} : heap'[t][j] = heap[t][j]
      /\ heap'[t][k] \in {"idle", "every"}
  <2>1. heap \in [Timers -> [Starts -> {"none", "idle", "once", "every", "freed"}]]
    BY DEF IInv, TInv, TypeOK
  <2> QED
    BY <1>1, <2>1
<1>5. /\ Sound(t) /\ life[t] = "alive" /\ Pending(t) /\ k = event[t] /\ Made(t) > 0
      /\ event[t] = Made(t) /\ event[t] # 0
  <2>1. Sound(t) /\ Pending(t)
    BY <1>1 DEF IInv, Pending
  <2>2. life[t] = "alive"
    BY <2>1 DEF Sound, Owned
  <2>3. k = event[t]
    BY <1>1, <2>1, <2>2 DEF Sound, Events
  <2> QED
    BY <2>1, <2>2, <2>3 DEF Sound, Events, Starts
<1>6. \A b \in Actors : ~At(b, t, StartPC) /\ ~At(b, t, {"null", "cur", "delete"})
  <2>1. \A b \in Actors : ~At(b, t, StartPC)
    BY <1>2 DEF Starting, At, StartPC
  <2>2. \A b \in Actors : ~At(b, t, {"null", "cur", "delete"})
    BY <1>1, <1>5 DEF Sound, Steps, At
  <2> QED
    BY <2>1, <2>2
<1>7. ~InCallback(t) /\ InCallback(t)' /\ running.timer = None
  BY <1>2, <1>3 DEF InCallback, At, ResetPC, CallPC, IInv, Places, Between
<1>8. \A u \in Timers \ {t} : SameData(u)
  BY <1>1, <1>2, <1>4, <1>7, OwnersSame DEF SameData
<1>9. Places'
  BY <1>1, <1>3, LoopPlaces DEF IInv, StartPC, ResetPC, CallPC, LockPC, Active, Engaged, Between, Actors
<1>10. Made(t)' = Made(t) /\ Unowned(t)' = Unowned(t)
  BY <1>1, <1>2, <1>4, MadeSame, OwnersSame
<1>11. Rounded(t) /\ Called(t)
  BY <1>5, <1>6 DEF Sound, Counts
<1>12. /\ round[t] \in 0..Forever /\ cur[t] \in 0..Forever + 1 /\ calls[t] \in 0..Forever
  BY CellTypes DEF IInv, TInv
<1>13. cur[t] < round[t]
  BY <1>2, <1>5, <1>6, <1>11 DEF Rounded, At, StartPC
<1> USE DEF At, StartPC, ResetPC, CallPC, LockPC, Active, Engaged, Actors
<1>14. Owned(t)'
  BY <1>2, <1>5 DEF Sound, Owned
<1>15. Events(t)'
  BY <1>1, <1>2, <1>3, <1>4, <1>5, <1>10 DEF Sound, Events
<1>16. Steps(t)'
  BY <1>2, <1>3, <1>5, <1>6 DEF Sound, Steps
<1>17. Rights(t)'
  <2>1. \A a \in Actors : At(a, t, {"emplace"})' => t \in hold'[a]
    BY <1>2, <1>3, <1>5 DEF Sound, Rights
  <2>2. \A u \in Users : At(u, t, ResetPC)' =>
          Endless(t)' /\ pc'[u] \in {"reset", "free"} /\ act'[u] = act[u] /\ At(u, t, ResetPC)
    BY <1>2, <1>3, <1>5, <1>6 DEF Sound, Rights, Endless
  <2>3. Endless(t)' => ~InCB(t)'
    BY <1>1, <1>2 DEF Endless, InCB
  <2>4. \A a \in Actors : At(a, t, ResetPC)' => a \in Users
    BY <1>3
  <2>5. \A a \in Actors : At(a, t, StartPC)' => FALSE
    BY <1>3, <1>6
  <2>6. \A u \in Users : At(u, t, ResetPC) =>
          /\ act[u].then = "ready" => t \in hold[u]
          /\ act[u].then = "delete" => Unowned(t)
          /\ act[u].then \in {"ready", "delete"} /\ t \in stopped
    BY <1>5 DEF Sound, Rights, IInv, Places
  <2>7. ~At(Loop, t, {"last"})' /\ ~At(Loop, t, ResetPC)' /\ ~At(Loop, t, StartPC)'
    BY <1>3
  <2> QED
    BY <1>2, <1>10, <2>1, <2>2, <2>3, <2>4, <2>5, <2>6, <2>7 DEF Rights
<1>18. Alone(t)'
  BY <1>3, <1>5 DEF Sound, Alone
<1>19. Callback(t)'
  BY <1>1, <1>2, <1>3, <1>5, <1>11, <1>13 DEF Callback, Called
<1>20. Counts(t)'
  <2>1. Rounded(t)'
    BY <1>2, <1>3, <1>5, <1>6, <1>13 DEF Rounded
  <2>2. Called(t)'
    BY <1>2, <1>3, <1>5, <1>7, <1>11, <1>12 DEF Called
  <2> QED
    BY <1>2, <1>3, <1>5, <1>6, <1>10, <2>1, <2>2 DEF Sound, Counts
<1>21. pc[Loop] \notin Active /\ Loop \in Actors
  BY <1>2
<1>22. Doom(t)'
  <2>1. \A u \in Users : pc'[u] = "erase" => pc[u] = "erase" /\ act'[u] = act[u]
    BY <1>3
  <2>2. Spared(t) => Spared(t)'
    BY <1>1, <1>2, <1>5 DEF Spared, Endless, InCB
  <2> QED
    BY <1>2, <1>5, <2>1, <2>2, DoomKept DEF Sound
<1> QED
  BY <1>2, <1>3, <1>8, <1>9, <1>14, <1>15, <1>16, <1>17, <1>18, <1>19, <1>20, <1>21, <1>22, Elsewhere DEF Sound, IInv

\* The loop's thread between eventHandler's first line and the handler.
LEMMA InHandler ==
  ASSUME IInv, NEW t \in Timers, act[Loop].timer = t, pc[Loop] \in CallPC
  PROVE  /\ Sound(t) /\ life[t] = "alive" /\ InCallback(t) /\ Made(t) > 0
         /\ running.timer = t /\ running.ev \in Starts /\ act[Loop].then = "call" /\ act[Loop].next # "dtor"
         /\ Rounded(t) /\ Called(t) /\ \A a \in Actors : ~At(a, t, StartPC)
         /\ \A u \in Users : At(u, t, ResetPC) => Endless(t) /\ pc[u] \in {"reset", "free"}
         /\ round[t] \in 0..Forever /\ cur[t] \in 0..Forever + 1 /\ calls[t] \in 0..Forever
         /\ event[t] \in 0..MaxStarts
<1>1. Sound(t) /\ life[t] = "alive" /\ InCallback(t)
  BY AtWork DEF Active, InCallback, At, Actors
<1>2. running.timer = t /\ Made(t) > 0
  BY <1>1 DEF Sound, Callback, Events
<1>3. running.ev \in Starts /\ act[Loop].then = "call" /\ act[Loop].next # "dtor"
  BY DEF IInv, Places, CallPC, Between
<1>4. \A a \in Actors : ~At(a, t, StartPC)
  BY <1>1, <1>2 DEF Sound, Rights, At, CallPC, StartPC, Actors
<1>5. Rounded(t) /\ Called(t)
  BY <1>1, <1>2, <1>4 DEF Sound, Counts
<1>6. \A u \in Users : At(u, t, ResetPC) => Endless(t) /\ pc[u] \in {"reset", "free"}
  BY <1>1, <1>2 DEF Sound, Rights, At, ResetPC
<1>7. /\ round[t] \in 0..Forever /\ cur[t] \in 0..Forever + 1 /\ calls[t] \in 0..Forever
      /\ event[t] \in 0..MaxStarts
  BY CellTypes DEF IInv, TInv
<1> QED
  BY <1>1, <1>2, <1>3, <1>4, <1>5, <1>6, <1>7

LEMMA InvCount == ASSUME IInv, TInv', NEW t \in Timers, act[Loop].timer = t, Count PROVE IInv'
<1>1. pc[Loop] = "count"
  BY DEF Count
<1>2. /\ Sound(t) /\ life[t] = "alive" /\ InCallback(t) /\ Made(t) > 0
      /\ running.timer = t /\ running.ev \in Starts /\ act[Loop].then = "call" /\ act[Loop].next # "dtor"
      /\ Rounded(t) /\ Called(t) /\ \A a \in Actors : ~At(a, t, StartPC)
      /\ round[t] \in 0..Forever /\ cur[t] \in 0..Forever + 1 /\ calls[t] \in 0..Forever
  BY <1>1, InHandler DEF CallPC
<1>3. event[t] # 0 /\ cur[t] < round[t]
  BY <1>1, <1>2 DEF Sound, Callback
<1>4. /\ cur' = [cur EXCEPT ![t] = Counted(cur[t])]
      /\ Goto(Loop, IF Counted(cur[t]) >= round[t] THEN "last" ELSE "call")
      /\ UNCHANGED <<life, map, hold, audit, event, heap, round, handler, calls, stopped, running, act, fault>>
  BY DEF Count, shared, history
<1>5. /\ pc'[Loop] = (IF Counted(cur[t]) >= round[t] THEN "last" ELSE "call")
      /\ \A b \in Actors \ {Loop} : pc'[b] = pc[b] /\ act'[b] = act[b]
      /\ cur'[t] = Counted(cur[t]) /\ \A u \in Timers \ {t} : cur'[u] = cur[u]
  BY <1>4 DEF Goto, IInv, TInv, TypeOK, Actors
<1>6. /\ Counted(cur[t]) >= round[t] => round[t] < Forever /\ Counted(cur[t]) = cur[t] + 1 /\ cur[t] + 1 = round[t]
      /\ Counted(cur[t]) < round[t] /\ round[t] < Forever => Counted(cur[t]) = cur[t] + 1
  BY <1>2, <1>3 DEF Counted
<1>7. Counted(cur[t]) \in Nat
  BY <1>2 DEF Counted
<1>8. \A u \in Timers \ {t} : SameData(u)
  BY <1>4, <1>5, OwnersSame DEF SameData
<1>9. Places'
  BY <1>1, <1>2, <1>4, <1>5, LoopPlaces DEF IInv, StartPC, ResetPC, CallPC, LockPC, Active, Engaged, Between, Actors
<1>10. Made(t)' = Made(t) /\ Pending(t)' = Pending(t) /\ Unowned(t)' = Unowned(t)
  BY <1>4, HeapSame, OwnersSame
<1>11. InCallback(t)'
  BY <1>4, <1>5 DEF InCallback, At, CallPC
<1> HIDE DEF Counted
<1> USE DEF At, StartPC, ResetPC, CallPC, LockPC, Active, Engaged, Actors
<1>12. Owned(t)'
  BY <1>2, <1>4 DEF Sound, Owned
<1>13. Events(t)'
  BY <1>1, <1>2, <1>4, <1>5, <1>10 DEF Sound, Events
<1>14. Steps(t)'
  BY <1>1, <1>2, <1>4, <1>5 DEF Sound, Steps
<1>15. Rights(t)'
  BY <1>1, <1>2, <1>4, <1>5, <1>6, <1>10 DEF Sound, Rights, Endless, InCB
<1>16. Alone(t)'
  BY <1>1, <1>2, <1>4, <1>5 DEF Sound, Alone
<1>17. Callback(t)'
  BY <1>1, <1>2, <1>3, <1>4, <1>5 DEF Sound, Callback
<1>18. Counts(t)'
  <2>1. Rounded(t)'
    BY <1>2, <1>3, <1>4, <1>5, <1>7 DEF Rounded
  <2>2. Called(t)'
    BY <1>1, <1>2, <1>3, <1>4, <1>5, <1>6, <1>7, <1>10, <1>11 DEF Called
  <2> QED
    BY <1>2, <1>4, <1>5, <1>10, <2>1, <2>2 DEF Sound, Counts
<1>19. Doom(t)'
  <2>1. \A u \in Users : pc'[u] = "erase" => pc[u] = "erase" /\ act'[u] = act[u]
    BY <1>5
  <2>2. Spared(t) => Spared(t)'
    BY <1>4 DEF Spared, Endless, InCB
  <2> QED
    BY <1>2, <1>4, <2>1, <2>2, DoomKept DEF Sound
<1> QED
  BY <1>1, <1>4, <1>5, <1>8, <1>9, <1>12, <1>13, <1>14, <1>15, <1>16, <1>17, <1>18, <1>19, Elsewhere DEF Sound, IInv

LEMMA InvLast == ASSUME IInv, TInv', NEW t \in Timers, act[Loop].timer = t, Last PROVE IInv'
<1>1. pc[Loop] = "last"
  BY DEF Last
<1>2. /\ Sound(t) /\ life[t] = "alive" /\ InCallback(t) /\ Made(t) > 0
      /\ running.timer = t /\ running.ev \in Starts /\ act[Loop].then = "call" /\ act[Loop].next # "dtor"
      /\ Rounded(t) /\ Called(t) /\ \A a \in Actors : ~At(a, t, StartPC)
      /\ \A u \in Users : At(u, t, ResetPC) => Endless(t) /\ pc[u] \in {"reset", "free"}
      /\ round[t] \in 0..Forever /\ cur[t] \in 0..Forever + 1 /\ calls[t] \in 0..Forever
  BY <1>1, InHandler DEF CallPC
<1>3. round[t] < Forever
  BY <1>1, <1>2 DEF Sound, Rights, At
<1>4. \A a \in Actors : ~At(a, t, StartPC \cup ResetPC)
  BY <1>1, <1>2, <1>3 DEF Endless, At, StartPC, ResetPC, Actors
<1>5. event[t] # 0 /\ event[t] \in Starts /\ event[t] = Made(t)
  <2>1. event[t] # 0
    BY <1>1, <1>2 DEF Sound, Callback
  <2> QED
    BY <1>2, <2>1, CellTypes DEF Sound, Events, IInv, TInv
<1>6. heap[t][event[t]] # "freed" /\ heap[t][event[t]] # "none"
  <2>1. heap[t][event[t]] # "freed"
    BY <1>2, <1>4, <1>5 DEF Sound, Events, At, ResetPC
  <2>2. heap[t][event[t]] # "none"
    BY <1>2, <1>5 DEF Sound, Events, Starts
  <2> QED
    BY <2>1, <2>2
<1>7. /\ heap' = [heap EXCEPT ![t][event[t]] = "idle"] /\ Goto(Loop, "reset")
      /\ UNCHANGED <<life, map, hold, audit, event, round, cur, handler, calls, stopped, running, act, fault>>
  BY <1>5, <1>6 DEF Last, shared, history
<1>8. pc'[Loop] = "reset" /\ \A b \in Actors \ {Loop} : pc'[b] = pc[b] /\ act'[b] = act[b]
  BY <1>7 DEF Goto, IInv, TInv, TypeOK, Actors
<1>9. /\ \A u \in Timers \ {t} : heap'[u] = heap[u]
      /\ heap'[t][event[t]] = "idle" /\ \A k \in Starts \ {event[t]} : heap'[t][k] = heap[t][k]
  BY <1>5, <1>7 DEF IInv, TInv, TypeOK
<1>10. \A u \in Timers \ {t} : SameData(u)
  BY <1>7, <1>9, OwnersSame DEF SameData
<1>11. Places'
  BY <1>1, <1>2, <1>7, <1>8, LoopPlaces DEF IInv, StartPC, ResetPC, CallPC, LockPC, Active, Engaged, Between, Actors
<1>12. Made(t)' = Made(t) /\ Unowned(t)' = Unowned(t) /\ ~Pending(t)'
  <2>1. \A k \in Starts \ {event[t]} : heap[t][k] \notin {"once", "every"}
    BY <1>2 DEF Sound, Events
  <2>2. ~Pending(t)'
    BY <1>9, <2>1 DEF Pending, Starts
  <2> QED
    BY <1>6, <1>7, <1>9, <2>2, MadeSame, OwnersSame
<1>13. InCallback(t)'
  BY <1>2, <1>7, <1>8 DEF InCallback, At, CallPC, ResetPC
<1> USE DEF At, StartPC, ResetPC, CallPC, LockPC, Active, Engaged, Actors
<1>14. Owned(t)'
  BY <1>2, <1>7 DEF Sound, Owned
<1>15. Events(t)'
  BY <1>2, <1>5, <1>6, <1>7, <1>9, <1>12 DEF Sound, Events
<1>16. Steps(t)'
  BY <1>4, <1>7, <1>8 DEF Steps
<1>17. Rights(t)'
  BY <1>2, <1>3, <1>4, <1>7, <1>8 DEF Sound, Rights
<1>18. Alone(t)'
  BY <1>4, <1>7, <1>8 DEF Alone
<1>19. Callback(t)'
  BY <1>2, <1>3, <1>7, <1>8 DEF Sound, Callback
<1>20. Counts(t)'
  <2>1. Rounded(t)'
    BY <1>4, <1>5, <1>7, <1>8, <1>12 DEF Rounded
  <2>2. Called(t)'
    BY <1>1, <1>2, <1>5, <1>7, <1>8, <1>12, <1>13 DEF Called
  <2> QED
    BY <1>2, <1>4, <1>7, <1>8, <1>12, <2>1, <2>2 DEF Sound, Counts
<1>21. Doom(t)'
  <2>1. \A u \in Users : pc'[u] = "erase" => pc[u] = "erase" /\ act'[u] = act[u]
    BY <1>8
  <2>2. Spared(t) => Spared(t)'
    BY <1>7 DEF Spared, Endless, InCB
  <2> QED
    BY <1>2, <1>7, <2>1, <2>2, DoomKept DEF Sound
<1> QED
  BY <1>1, <1>7, <1>8, <1>10, <1>11, <1>14, <1>15, <1>16, <1>17, <1>18, <1>19, <1>20, <1>21, Elsewhere DEF Sound, IInv

\* The handler ran and the loop's thread goes on in it.
LEMMA InvCalled ==
  ASSUME IInv, TInv', NEW t \in Timers, act[Loop].timer = t, pc[Loop] = "call",
         NEW l \in {"ready", "return"}, Goto(Loop, l), calls'[t] = calls[t] + 1 \/ round[t] = Forever,
         \A u \in Timers \ {t} : calls'[u] = calls[u],
         UNCHANGED <<life, map, hold, audit, event, heap, round, cur, handler, stopped, running, act, fault>>
  PROVE  IInv'
<1>1. /\ Sound(t) /\ life[t] = "alive" /\ InCallback(t) /\ Made(t) > 0
      /\ running.timer = t /\ running.ev \in Starts
      /\ Rounded(t) /\ Called(t) /\ \A a \in Actors : ~At(a, t, StartPC)
      /\ round[t] \in 0..Forever /\ cur[t] \in 0..Forever + 1 /\ calls[t] \in 0..Forever
  BY InHandler DEF CallPC
<1>2. event[t] = 0 => round[t] < Forever
  BY <1>1 DEF Sound, Callback
<1>3. pc'[Loop] = l /\ \A b \in Actors \ {Loop} : pc'[b] = pc[b] /\ act'[b] = act[b]
  BY DEF Goto, IInv, TInv, TypeOK, Actors
<1>4. \A u \in Timers \ {t} : SameData(u)
  BY OwnersSame DEF SameData
<1>5. Places'
  BY <1>1, <1>3, LoopPlaces DEF IInv, StartPC, ResetPC, CallPC, LockPC, Active, Engaged, Between, Actors
<1>6. Made(t)' = Made(t) /\ Pending(t)' = Pending(t) /\ Unowned(t)' = Unowned(t)
  BY HeapSame, OwnersSame
<1>7. ~InCallback(t)'
  BY <1>3 DEF InCallback, At, CallPC, ResetPC
<1> USE DEF At, StartPC, ResetPC, CallPC, LockPC, Active, Engaged, Actors
<1>8. Owned(t)'
  BY <1>1 DEF Sound, Owned
<1>9. Events(t)'
  BY <1>1, <1>3, <1>6 DEF Sound, Events
<1>10. Steps(t)'
  BY <1>1, <1>3 DEF Sound, Steps
<1>11. Rights(t)'
  BY <1>1, <1>3, <1>6 DEF Sound, Rights, Endless, InCB
<1>12. Alone(t)'
  BY <1>1, <1>3 DEF Sound, Alone
<1>13. Callback(t)'
  BY <1>7 DEF Callback
<1>14. Counts(t)'
  <2>1. Rounded(t)'
    BY <1>1, <1>3, <1>6 DEF Rounded
  <2>3. event[t] = 0 => ~Pending(t)
    BY <1>1 DEF Sound, Events, Pending, Starts
  <2>2. Called(t)'
    BY <1>1, <1>2, <1>6, <1>7, <2>3 DEF Called
  <2> QED
    BY <1>1, <1>3, <1>6, <2>1, <2>2 DEF Sound, Counts
<1>15. Doom(t)'
  <2>1. \A u \in Users : pc'[u] = "erase" => pc[u] = "erase" /\ act'[u] = act[u]
    BY <1>3
  <2>2. Spared(t) => Spared(t)'
    BY <1>1 DEF Spared, Endless, InCB
  <2> QED
    BY <1>1, <2>1, <2>2, DoomKept DEF Sound
<1> QED
  BY <1>3, <1>4, <1>5, <1>8, <1>9, <1>10, <1>11, <1>12, <1>13, <1>14, <1>15, Elsewhere DEF Sound, IInv

LEMMA InvCall == ASSUME IInv, TInv', NEW t \in Timers, act[Loop].timer = t, Call PROVE IInv'
<1>1. pc[Loop] = "call"
  BY DEF Call
<1>2. /\ Sound(t) /\ life[t] = "alive" /\ InCallback(t) /\ Made(t) > 0
      /\ running.timer = t /\ running.ev \in Starts /\ act[Loop].then = "call" /\ act[Loop].next # "dtor"
      /\ Rounded(t) /\ Called(t) /\ \A a \in Actors : ~At(a, t, StartPC)
      /\ \A u \in Users : At(u, t, ResetPC) => Endless(t) /\ pc[u] \in {"reset", "free"}
      /\ round[t] \in 0..Forever /\ cur[t] \in 0..Forever + 1 /\ calls[t] \in 0..Forever
  BY <1>1, InHandler DEF CallPC
<1> DEFINE h == handler[t]
<1>3. act[Loop].handler = h /\ h # Empty /\ (event[t] = 0 => round[t] < Forever)
  BY <1>2 DEF Sound, Callback
<1>4. h \in Handlers
  BY <1>3, CellTypes DEF IInv, TInv
<1>5. h.kind \in {"plain", "cb", "after"} /\ h.rounds \in 1..Forever
  BY <1>4 DEF Handlers
<1>6. /\ calls' = [calls EXCEPT ![t] = IF calls[t] < Forever THEN calls[t] + 1 ELSE calls[t]]
      /\ IF h.kind = "after"
         THEN AfterLambda(t, h.rounds)
         ELSE Goto(Loop, "ready") /\ UNCHANGED <<event, heap, stopped, act>>
      /\ UNCHANGED <<life, map, hold, audit, round, cur, handler, running, fault>>
  BY <1>2, <1>3, <1>5 DEF Call, shared
<1>7. /\ \A u \in Timers \ {t} : calls'[u] = calls[u]
      /\ calls'[t] = calls[t] + 1 \/ round[t] = Forever
  <2>1. calls \in [Timers -> 0..Forever]
    BY DEF IInv, TInv, TypeOK
  <2>2. calls'[t] = IF calls[t] < Forever THEN calls[t] + 1 ELSE calls[t]
    BY <1>6, <2>1
  <2>3. \A u \in Timers \ {t} : calls'[u] = calls[u]
    BY <1>6, <2>1
  <2>4. calls[t] = Forever => round[t] = Forever
    BY <1>1, <1>2 DEF Called
  <2> QED
    BY <1>2, <2>2, <2>3, <2>4
<1>8. CASE /\ \E l \in {"ready", "return"} : Goto(Loop, l)
           /\ UNCHANGED <<event, heap, stopped, act>>
  BY <1>1, <1>6, <1>7, <1>8, InvCalled
<1>9. ASSUME h.kind = "after" PROVE \A a \in Actors : ~At(a, t, StartPC \cup ResetPC)
  BY <1>1, <1>2, <1>9 DEF Endless, At, StartPC, ResetPC, Actors
<1>11. CASE /\ h.kind = "after" /\ event[t] = 0
            /\ Begin(Loop, t, h.rounds, [kind |-> "plain", rounds |-> h.rounds], "return")
  <2>1. [kind |-> "plain", rounds |-> h.rounds] \in Handlers
    BY <1>4 DEF Handlers
  <2>2. calls'[t] <= round[t]
    <3>1. round[t] < Forever /\ calls[t] + 1 = round[t]
      BY <1>1, <1>2, <1>3, <1>11 DEF Called
    <3> QED
      BY <1>2, <1>7, <3>1
  <2>3. Loop \in Actors /\ Loop \notin Users
    BY DEF Actors
  <2> QED
    BY <1>1, <1>2, <1>5, <1>6, <1>7, <1>9, <1>11, <2>1, <2>2, <2>3, InvBegin
<1> QED
  BY <1>5, <1>6, <1>8, <1>11 DEF AfterLambda

LEMMA InvAudit == ASSUME IInv, TInv', Audit PROVE IInv'
<1> DEFINE gone == {t \in map : isFinished(t)}
           freed == {t \in gone : Holders(t) = {}}
<1>1. /\ pc[Loop] = "audit" /\ pc'[Loop] = "poll"
      /\ \A b \in Actors \ {Loop} : pc'[b] = pc[b]
      /\ map' = map \ gone /\ stopped' = stopped \cup freed
      /\ life' = [t \in Timers |-> IF t \in freed THEN "dead" ELSE life[t]]
      /\ heap' = [t \in Timers |-> IF t \in freed /\ event[t] # 0
                                   THEN [heap[t] EXCEPT ![event[t]] = "freed"] ELSE heap[t]]
      /\ UNCHANGED <<hold, audit, event, round, cur, handler, calls, running, act, fault>>
  BY DEF Audit, Goto, IInv, TInv, TypeOK, Actors
<1>2. Places'
  BY <1>1, LoopPlaces DEF IInv, Places, StartPC, ResetPC, CallPC, LockPC, Active, Between, Actors
<1>3. ASSUME NEW t \in Timers \ freed PROVE Sound(t)'
  <2>1. Unowned(t)' = Unowned(t)
    BY <1>1, <1>3 DEF Unowned, Holders
  <2>2. /\ life'[t] = life[t] /\ heap'[t] = heap[t] /\ (t \in stopped' <=> t \in stopped)
    BY <1>1, <1>3
  <2>3. SameData(t)
    BY <1>1, <2>1, <2>2 DEF SameData
  <2>4. SameThreads(t)
    <3>1. /\ ~At(Loop, t, Active) /\ ~At(Loop, t, Active)' /\ ~At(Loop, t, {"emplace"})'
          /\ ~At(Loop, t, {"erase"})'
      BY <1>1 DEF At, Active, StartPC, ResetPC, CallPC
    <3>2. \A b \in Actors \ {Loop} : pc'[b] = pc[b] /\ act'[b] = act[b]
      BY <1>1
    <3> QED
      BY <3>1, <3>2 DEF SameThreads, At
  <2> QED
    BY <2>3, <2>4, Frame DEF IInv
<1>4. ASSUME NEW t \in freed PROVE Sound(t)'
  <2>1. t \in Timers /\ t \in map /\ isFinished(t) /\ \A a \in Actors : t \notin hold[a]
    BY <1>4 DEF Holders, IInv, TInv, TypeOK
  <2>2. /\ life'[t] = "dead" /\ t \in stopped' /\ t \notin map'
        /\ heap'[t] = IF event[t] # 0 THEN [heap[t] EXCEPT ![event[t]] = "freed"] ELSE heap[t]
    BY <1>1, <1>4, <2>1
  <2> HIDE DEF freed
  <2>3. Sound(t) /\ ~Unowned(t) /\ life[t] = "alive"
    BY <2>1 DEF IInv, Unowned, Sound, Owned
  <2>4. ~InCallback(t) /\ ~At(Loop, t, Active)
    BY <1>1 DEF InCallback, At, Active, StartPC, ResetPC, CallPC
  <2>5. \A a \in Actors : ~At(a, t, Active)
    <3>1. ASSUME NEW u \in Users, At(u, t, Active) PROVE FALSE
      <4>1. ~At(u, t, CallPC) /\ ~At(u, t, StartPC) /\ At(u, t, ResetPC)
        BY <2>1, <2>3, <3>1
           DEF Sound, Rights, At, Active, IInv, Places, StartPC, ResetPC, CallPC, LockPC, Actors
      <4>2. act[u].then \in {"ready", "delete"}
        BY <4>1 DEF IInv, Places, TInv, TypeOK, Acts, At, Actors
      <4> QED
        BY <2>1, <2>3, <4>1, <4>2 DEF Sound, Rights, Actors
    <3> QED
      BY <2>4, <3>1 DEF Actors
  <2>6. \A a \in Actors : ~At(a, t, Active)'
    BY <1>1, <2>5 DEF At, Active, StartPC, ResetPC, CallPC
  <2>7. calls[t] <= round[t]
    BY <2>1, <2>3, <2>4, <2>5, CallsBound DEF At, Active
  <2>8. event[t] \in 0..MaxStarts /\ event[t] \in {0, Made(t)}
    BY <2>1, <2>3, CellTypes DEF Sound, Events, IInv, TInv
  <2>9. \A k \in Starts : heap'[t][k] = IF k = event[t] THEN "freed" ELSE heap[t][k]
    <3>1. heap[t] \in [Starts -> {"none", "idle", "once", "every", "freed"}]
      BY <2>1 DEF IInv, TInv, TypeOK
    <3> QED
      BY <2>2, <2>8, <3>1 DEF Starts
  <2>10. Made(t)' = Made(t)
    <3>1. event[t] # 0 => event[t] \in Starts /\ heap[t][event[t]] # "none"
      BY <2>3, <2>8 DEF Sound, Events, Starts
    <3>2. \A k \in Starts : heap'[t][k] = "none" <=> heap[t][k] = "none"
      <4>1. ASSUME NEW k \in Starts PROVE heap'[t][k] = "none" <=> heap[t][k] = "none"
        <5>1. CASE k = event[t]
          <6>1. event[t] # 0
            BY <5>1 DEF Starts
          <6> QED
            BY <2>9, <3>1, <5>1, <6>1
        <5>2. CASE k # event[t]
          BY <2>9, <5>2
        <5> QED
          BY <5>1, <5>2
      <4> QED
        BY <4>1
    <3> QED
      BY <2>1, <3>2, MadeSame
  <2>11. \A k \in Starts : heap'[t][k] # "none" <=> k <= Made(t)
    BY <2>3, <2>8, <2>9 DEF Sound, Events, Starts
  <2>12. ~Pending(t)'
    <3>1. \A k \in Starts : heap'[t][k] \notin {"once", "every"}
      BY <2>3, <2>9 DEF Sound, Events
    <3> QED
      BY <3>1 DEF Pending, Starts
  <2>13. Unowned(t)'
    BY <1>1, <2>1, <2>2 DEF Unowned
  <2>14. Owned(t)'
    BY <1>1, <2>2, <2>3, <2>6, <2>7, <2>12, <2>13 DEF Owned, Unowned
  <2>15. Events(t)'
    BY <1>1, <2>2, <2>3, <2>10, <2>11 DEF Sound, Events, Starts
  <2>16. \A a \in Actors : /\ ~At(a, t, StartPC)' /\ ~At(a, t, ResetPC)' /\ ~At(a, t, CallPC)'
                           /\ ~At(a, t, StartPC \cup ResetPC)'
    BY <2>6 DEF At, Active
  <2>17. Steps(t)' /\ Alone(t)' /\ Callback(t)'
    BY <2>6, <2>16 DEF Steps, Alone, Callback, InCallback, At, Active, StartPC, ResetPC, CallPC, LockPC, Actors
  <2>18. Rights(t)'
    <3>1. \A a \in Actors : ~At(a, t, {"emplace"})'
      BY <1>1, <2>1, <2>3 DEF Sound, Rights, At
    <3> QED
      BY <2>6, <2>16, <3>1 DEF Rights, At, Active, CallPC, Actors
  <2>19. Counts(t)'
    BY <1>1, <2>2, <2>3, <2>10, <2>16 DEF Sound, Counts, At, StartPC
  <2>20. Doom(t)'
    BY <2>2 DEF Doom
  <2> QED
    BY <2>14, <2>15, <2>17, <2>18, <2>19, <2>20 DEF Sound
<1>5. \A t \in Timers : Sound(t)'
  BY <1>3, <1>4
<1> QED
  BY <1>1, <1>2, <1>5 DEF IInv

LEMMA InvInit == Init => IInv
<1> SUFFICES ASSUME Init PROVE IInv
  OBVIOUS
<1>1. TInv
  BY TypeInit
<1>2. \A a \in Actors : pc[a] \in {"poll", "ready"} /\ (a \in Users => pc[a] = "ready")
  BY DEF Init
<1>3. pc[Loop] = "poll" /\ running.timer = None
  BY DEF Init, NotRunning, Actors
<1>4. Places
  BY <1>2, <1>3 DEF Places, Between, Active, StartPC, ResetPC, CallPC, LockPC, Actors
<1>5. ASSUME NEW t \in Timers PROVE Sound(t)
  <2>1. /\ life[t] = "unborn" /\ event[t] = 0 /\ calls[t] = 0 /\ \A k \in Starts : heap[t][k] = "none"
        /\ Unowned(t)
    BY DEF Init, Unowned
  <2>2. {k \in Starts : heap[t][k] # "none"} = {}
    BY <2>1
  <2>3. Made(t) = 0
    BY <2>2, FS_EmptySet DEF Made
  <2>4. ~Pending(t)
    BY <2>1 DEF Pending
  <2>5. \A a \in Actors : pc[a] \notin Active
    BY <1>2 DEF Active, StartPC, ResetPC, CallPC, LockPC
  <2>6. \A a \in Actors : pc[a] \notin StartPC /\ pc[a] \notin ResetPC /\ pc[a] \notin CallPC
    BY <2>5 DEF Active
  <2>7. Owned(t)
    BY <2>1, <2>3, <2>4, <2>5 DEF Owned, Unowned, At
  <2>8. Events(t)
    BY <1>3, <2>1, <2>3 DEF Events, Starts
  <2>9. Steps(t) /\ Alone(t) /\ Callback(t)
    BY <1>2, <2>6 DEF Steps, Alone, Callback, InCallback, At, Actors
  <2>10. Rights(t)
    BY <1>2, <1>3, <2>6 DEF Rights, At, Actors
  <2>11. Counts(t)
    BY <1>2, <2>1 DEF Counts, At, Init
  <2>12. Doom(t)
    BY <2>1 DEF Doom, Unowned
  <2> QED
    BY <2>7, <2>8, <2>9, <2>10, <2>11, <2>12 DEF Sound
<1> QED
  BY <1>1, <1>4, <1>5 DEF IInv, Init

\* A step of thread a, as far as the manager's destructor goes.
LEMMA EndingKept ==
  ASSUME Ending, NEW a \in Actors, \A b \in Actors \ {a} : pc'[b] = pc[b] /\ act'[b] = act[b],
         audit = "gone" => audit' = "gone",
         a \in Users /\ (pc'[a] = "dtor" \/ act'[a].next = "dtor") =>
           pc[a] = "dtor" \/ act[a].next = "dtor" \/ audit' = "gone"
  PROVE  Ending'
BY DEF Ending, Actors

LEMMA EndingDie == ASSUME Ending, NEW why, Die(why) PROVE Ending'
BY DEF Ending, Die, shared, Actors

LEMMA EndingLetGo ==
  ASSUME TInv, NEW a \in Actors, NEW t, NEW kept, NEW next, LetGo(a, t, kept, next)
  PROVE  /\ pc'[a] \in {"reset", next} /\ (act'[a] = act[a] \/ act'[a].next = next)
         /\ \A b \in Actors \ {a} : pc'[b] = pc[b] /\ act'[b] = act[b]
<1> USE DEF TInv, TypeOK, Goto
<1>1. CASE kept
  BY <1>1 DEF LetGo
<1>2. CASE ~kept
  <2>1. /\ pc' = [pc EXCEPT ![a] = "reset"]
        /\ act' = [act EXCEPT ![a] = [Idle EXCEPT !.timer = t, !.then = "delete", !.next = next]]
    BY <1>2 DEF LetGo, Does
  <2> QED
    BY <2>1 DEF Idle
<1> QED
  BY <1>1, <1>2

LEMMA EndingChooses == ASSUME TInv, Ending, NEW a \in Actors, Chooses(a) PROVE Ending'
<1> USE DEF TInv, TypeOK, Goto, shared
<1>1. CASE GetTimer(a) \/ Stop(a) \/ KillTimer(a)
  <2>1. /\ \E t \in Timers : Does(a, t, "ready", "ready")
        /\ pc'[a] # "dtor" /\ audit' = audit /\ \A b \in Actors \ {a} : pc'[b] = pc[b]
    BY <1>1 DEF GetTimer, Stop, KillTimer
  <2>2. act'[a].next = "ready" /\ \A b \in Actors \ {a} : act'[b] = act[b]
    BY <2>1 DEF Does, Idle
  <2> QED
    BY <2>1, <2>2, EndingKept
<1>2. CASE Take(a)
  <2>1. UNCHANGED <<audit, act, pc>>
    BY <1>2 DEF Take
  <2> QED
    BY <2>1 DEF Ending
<1>3. CASE Start(a)
  <2>1. \/ \E why : Die(why)
        \/ \E t \in Timers, n \in 0..Forever, h \in Handlers : Begin(a, t, n, h, "ready")
    <3>1. PICK t \in hold[a], n \in Rounds :
            \/ Begin(a, t, n, [kind |-> "plain", rounds |-> n], "ready")
            \/ n = Forever /\ StartCB(a, t)
            \/ Begin(a, t, 1, [kind |-> "after", rounds |-> n], "ready")
      BY <1>3 DEF Start
    <3>2. t \in Timers /\ n \in 0..Forever /\ 1 \in 0..Forever /\ Forever \in 0..Forever
      OBVIOUS
    <3>3. \A k \in {"plain", "cb", "after"} : [kind |-> k, rounds |-> n] \in Handlers
      BY DEF Handlers
    <3>4. n = Forever /\ StartCB(a, t) =>
            (\E why : Die(why)) \/ Begin(a, t, n, [kind |-> "cb", rounds |-> n], "ready")
      BY DEF StartCB
    <3> QED
      BY <3>1, <3>2, <3>3, <3>4
  <2>2. CASE \E why : Die(why)
    BY <2>2, EndingDie
  <2>3. ASSUME NEW t \in Timers, NEW n \in 0..Forever, NEW h \in Handlers, Begin(a, t, n, h, "ready")
        PROVE  Ending'
    <3>1. /\ pc'[a] = "add" /\ audit' = audit /\ \A b \in Actors \ {a} : pc'[b] = pc[b]
          /\ act'[a].next = "ready" /\ \A b \in Actors \ {a} : act'[b] = act[b]
      BY <2>3 DEF Begin, Idle
    <3> QED
      BY <3>1, EndingKept
  <2> QED
    BY <2>1, <2>2, <2>3
<1>4. CASE Drop(a)
  <2>1. PICK t \in Timers, kept \in BOOLEAN : LetGo(a, t, kept, "ready") /\ audit' = audit
    BY <1>4 DEF Drop, Others
  <2>2. /\ pc'[a] # "dtor" /\ (act'[a] = act[a] \/ act'[a].next = "ready")
        /\ \A b \in Actors \ {a} : pc'[b] = pc[b] /\ act'[b] = act[b]
    BY <2>1, EndingLetGo
  <2> QED
    BY <2>1, <2>2, EndingKept
<1>5. CASE DtorAudit(a)
  <2>1. /\ audit' = "gone" /\ \A b \in Actors \ {a} : pc'[b] = pc[b] /\ act'[b] = act[b]
    BY <1>5 DEF DtorAudit
  <2> QED
    BY <2>1, EndingKept
<1> QED
  BY <1>1, <1>2, <1>3, <1>4, <1>5 DEF Chooses

LEMMA EndingGoes == ASSUME TInv, Ending, NEW a \in Actors, Goes(a) PROVE Ending'
<1> USE DEF TInv, TypeOK, Goto, shared
<1>0. act[a].then \in {"ready", "return", "call", "delete"}
  BY DEF Acts
<1>1. CASE \E why : Die(why)
  BY <1>1, EndingDie
<1>2. CASE /\ \A b \in Actors \ {a} : pc'[b] = pc[b] /\ act'[b] = act[b]
           /\ audit' = audit /\ pc'[a] # "dtor"
           /\ act'[a].next = "dtor" => act[a].next = "dtor"
  BY <1>2, EndingKept
<1>3. CASE StartAdd(a)
  <2>1. \/ \E why : Die(why)
        \/ /\ \E l : l # "dtor" /\ Goto(a, l)
           /\ UNCHANGED audit
           /\ UNCHANGED act \/ Does(a, act[a].timer, act[a].then, "ready")
    BY <1>3 DEF StartAdd
  <2>2. ASSUME Does(a, act[a].timer, act[a].then, "ready")
        PROVE  act'[a].next = "ready" /\ \A b \in Actors \ {a} : act'[b] = act[b]
    BY <2>2 DEF Does, Idle
  <2>3. CASE UNCHANGED act
    BY <1>1, <1>2, <2>1, <2>3
  <2>4. CASE Does(a, act[a].timer, act[a].then, "ready")
    BY <1>1, <1>2, <2>1, <2>2, <2>4
  <2> QED
    BY <1>1, <2>1, <2>3, <2>4
<1>4. CASE StartRound(a) \/ ResetFree(a) \/ ResetNull(a) \/ ResetCur(a) \/ Emplace(a) \/ Unlock(a)
  <2>1. \/ \E why : Die(why)
        \/ /\ \E l : l # "dtor" /\ Goto(a, l)
           /\ UNCHANGED <<audit, act>>
    BY <1>0, <1>4 DEF StartRound, ResetFree, ResetNull, ResetCur, Emplace, Unlock, Writes
  <2> QED
    BY <1>1, <1>2, <2>1
<1>5. CASE StartHandler(a)
  <2>1. \/ \E why : Die(why)
        \/ /\ Goto(a, act[a].then) /\ UNCHANGED audit /\ act' = [act EXCEPT ![a] = Idle]
    BY <1>5 DEF StartHandler, Writes
  <2> QED
    BY <1>0, <1>1, <1>2, <2>1 DEF Idle
<1>6. CASE Reset(a)
  <2>1. /\ \E l : l # "dtor" /\ Goto(a, l)
        /\ UNCHANGED audit
        /\ UNCHANGED act \/ act' = [act EXCEPT ![a].ev = event[act[a].timer]]
    BY <1>0, <1>6 DEF Reset
  <2>2. act'[a].next = act[a].next
    BY <2>1 DEF Acts
  <2> QED
    BY <1>2, <2>1, <2>2
<1>7. CASE Delete(a)
  <2>1. /\ pc'[a] = act[a].next /\ act'[a] = Idle /\ audit' = audit
        /\ \A b \in Actors \ {a} : pc'[b] = pc[b] /\ act'[b] = act[b]
    BY <1>7 DEF Delete
  <2> QED
    BY <2>1, EndingKept DEF Idle
<1>8. CASE Erase(a)
  <2>1. (\E t, kept : LetGo(a, t, kept, "unlock")) /\ audit' = audit
    BY <1>8 DEF Erase
  <2> QED
    BY <1>2, <2>1, EndingLetGo
<1>9. CASE DtorMap(a)
  <2>1. /\ pc[a] = "dtor" /\ audit' = audit
        /\ (\E t, kept : LetGo(a, t, kept, "dtor")) \/ (Goto(a, "ready") /\ UNCHANGED act)
    BY <1>9 DEF DtorMap
  <2>2. \A b \in Actors \ {a} : pc'[b] = pc[b] /\ act'[b] = act[b]
    BY <2>1, EndingLetGo
  <2> QED
    BY <2>1, <2>2, EndingKept
<1> QED
  BY <1>3, <1>4, <1>5, <1>6, <1>7, <1>8, <1>9 DEF Goes

LEMMA EndingStep == ASSUME TInv, Ending, [Next]_vars PROVE Ending'
<1>1. CASE UNCHANGED vars
  BY <1>1 DEF vars, shared, Ending
<1>2. ASSUME NEW a \in Actors, Chooses(a) \/ Goes(a) PROVE Ending'
  BY <1>2, EndingChooses, EndingGoes
<1>3. ASSUME \E why : Die(why) PROVE Ending'
  BY <1>3, EndingDie
<1>4. ASSUME audit = "gone" => audit' = "gone", \A u \in Users : pc'[u] = pc[u] /\ act'[u] = act[u] PROVE Ending'
  BY <1>4 DEF Ending
<1>5. CASE \E t \in Timers : Fire(t)
  BY <1>4, <1>5 DEF Fire, Goto, shared, TInv, TypeOK
<1>6. ASSUME audit' = audit \/ audit = "off", \E l : Goto(Loop, l),
             UNCHANGED act \/ \E x : act' = [act EXCEPT ![Loop] = x]
      PROVE  Ending'
  BY <1>4, <1>6 DEF Goto, TInv, TypeOK, Actors
<1>7. CASE CallReturn \/ LoopOver \/ AuditFire \/ Audit
  BY <1>6, <1>7 DEF CallReturn, LoopOver, AuditFire, Audit, shared
<1>8. CASE Count
  <2>1. audit' = audit /\ (\E l : Goto(Loop, l)) /\ UNCHANGED act
    BY <1>8 DEF Count, shared
  <2> QED
    BY <1>6, <2>1
<1>9. CASE AuditAdd
  BY <1>4, <1>9 DEF AuditAdd
<1>10. CASE Last
  <2>1. (\E why : Die(why)) \/ (audit' = audit /\ Goto(Loop, "reset") /\ UNCHANGED act)
    BY <1>10 DEF Last, shared
  <2> QED
    BY <1>3, <1>6, <2>1
<1>11. CASE CBStop
  <2>1. \/ \E why : Die(why)
        \/ audit' = audit /\ Goto(Loop, "reset") /\ \E x : act' = [act EXCEPT ![Loop] = x]
    BY <1>11 DEF CBStop, Writes, Does, shared
  <2> QED
    BY <1>3, <1>6, <2>1
<1>12. CASE Call
  <2>1. \/ \E why : Die(why)
        \/ /\ audit' = audit /\ \E l : Goto(Loop, l)
           /\ UNCHANGED act \/ \E x : act' = [act EXCEPT ![Loop] = x]
    <3>1. CASE act[Loop].handler.kind = "empty"
      BY <1>12, <3>1 DEF Call
    <3>2. CASE act[Loop].handler.kind \in {"cb", "after"} /\ life[act[Loop].timer] = "dead"
      BY <1>12, <3>2 DEF Call
    <3>3. CASE /\ act[Loop].handler.kind # "empty"
               /\ ~(act[Loop].handler.kind \in {"cb", "after"} /\ life[act[Loop].timer] = "dead")
      BY <1>12, <3>3 DEF Call, AfterLambda, Begin, shared
    <3> QED
      BY <3>1, <3>2, <3>3
  <2> QED
    BY <1>3, <1>6, <2>1
<1> QED
  BY <1>1, <1>2, <1>5, <1>7, <1>8, <1>9, <1>10, <1>11, <1>12 DEF Next, Handles

-----------------------------------------------------------------------------
(* The invariant and what follows from it                                   *)

LEMMA InvStep == CarefulUse /\ IInv /\ Ending /\ [Next]_vars => IInv'
<1> SUFFICES ASSUME CarefulUse, IInv, Ending, [Next]_vars PROVE IInv'
  OBVIOUS
<1>1. TInv'
  BY TypeStep DEF IInv
<1>2. CASE UNCHANGED vars
  <2>1. UNCHANGED <<life, map, hold, audit, event, heap, round, cur, handler, calls, stopped, running, act, pc, fault>>
    BY <1>2 DEF vars, shared, fields, history
  <2>2. \A u \in Timers : SameData(u) /\ SameThreads(u)
    BY <2>1, OwnersSame DEF SameData, SameThreads, At
  <2>3. \A u \in Timers : Sound(u)'
    BY <2>2, Frame DEF IInv
  <2>4. Places'
    BY <2>1 DEF IInv, Places
  <2> QED
    BY <1>1, <2>1, <2>3, <2>4 DEF IInv
<1>3. ASSUME NEW a \in Actors, Chooses(a) PROVE IInv'
  BY <1>1, <1>3, InvGetTimer, InvTake, InvStart, InvStop, InvDrop, InvKillTimer, InvIdle DEF Chooses
<1>4. ASSUME NEW a \in Actors, Goes(a) PROVE IInv'
  <2>1. CASE pc[a] \in StartPC \cup ResetPC
    <3>1. PICK t \in Timers : act[a].timer = t
      BY <2>1 DEF IInv, TInv, InHand
    <3>2. ~Unlock(a) /\ ~DtorMap(a) /\ ~Emplace(a) /\ ~Erase(a)
      BY <2>1 DEF Unlock, DtorMap, Emplace, Erase, StartPC, ResetPC
    <3>3. CASE Reset(a)
      BY <1>1, <3>1, <3>3, InvResetSkip, InvResetTakes
    <3> QED
      BY <1>1, <1>4, <3>1, <3>2, <3>3, InvStartAdd, InvStartRound, InvStartHandler, InvResetFree,
         InvResetNull, InvResetCur, InvDelete DEF Goes
  <2>2. CASE pc[a] \notin StartPC \cup ResetPC
    <3>1. Unlock(a) \/ DtorMap(a) \/ Emplace(a) \/ Erase(a)
      BY <1>4, <2>2 DEF Goes, StartAdd, StartRound, StartHandler, Reset, ResetFree, ResetNull,
                        ResetCur, Delete, StartPC, ResetPC
    <3> QED
      BY <1>1, <3>1, InvIdle, InvDtorMap, InvEmplace, InvErase
  <2> QED
    BY <2>1, <2>2
<1>5. ASSUME NEW t \in Timers, Fire(t) PROVE IInv'
  BY <1>1, <1>5, InvFire
<1>6. CASE Count \/ Last \/ Call
  <2>1. pc[Loop] \in CallPC
    BY <1>6 DEF Count, Last, Call, CallPC
  <2>2. PICK t \in Timers : act[Loop].timer = t
    BY <2>1 DEF IInv, TInv, InHand, Actors
  <2> QED
    BY <1>1, <1>6, <2>2, InvCount, InvLast, InvCall
<1>7. CASE CBStop \/ CallReturn \/ LoopOver \/ AuditFire \/ Audit \/ AuditAdd
  BY <1>1, <1>7, InvCBStop, InvCallReturn, InvPolls, InvAudit, InvAuditAdd
<1> QED
  BY <1>2, <1>3, <1>4, <1>5, <1>6, <1>7 DEF Next, Handles

LEMMA InvAlways == ASSUME CarefulUse PROVE Spec => []IInv
<1>1. Init => IInv /\ Ending
  <2>1. Init => Ending
    BY DEF Init, Ending, Actors, Idle
  <2> QED
    BY <2>1, InvInit
<1>2. IInv /\ Ending /\ [Next]_vars => (IInv /\ Ending)'
  BY InvStep, EndingStep DEF IInv
<1> QED
  BY <1>1, <1>2, PTL DEF Spec

\* No thread uses an event that was freed, a Timer that was destroyed or an empty handler:
\* event_free waits for the callback, and whoever stops a timer is alone with it.
THEOREM NeverFaults == ASSUME CarefulUse PROVE Spec => []NoFault
<1>1. IInv => NoFault
  BY DEF IInv, NoFault
<1> QED
  BY <1>1, InvAlways, PTL

\* isFinished() of a timer without an event, once it was started, is TRUE: the audit finds
\* it.
THEOREM ReportsFinished == ASSUME CarefulUse PROVE Spec => []FinishedReported
<1>1. ASSUME IInv, NEW t \in Timers, life[t] = "alive", Made(t) > 0, event[t] = 0, ~Busy(t)
      PROVE  isFinished(t)
  <2>1. ~\E a \in Actors : At(a, t, {"cur"})
    BY <1>1 DEF Busy, At
  <2>2. Rounded(t)
    BY <1>1 DEF IInv, Sound, Counts
  <2> QED
    BY <1>1, <2>1, <2>2 DEF Rounded, isFinished
<1>2. IInv => FinishedReported
  BY <1>1 DEF FinishedReported
<1> QED
  BY <1>2, InvAlways, PTL

\* isFinished() of a timer whose event can still fire is FALSE: the audit leaves it.
THEOREM LiveNeverFinished == ASSUME CarefulUse PROVE Spec => []LiveNotFinished
<1>1. ASSUME IInv, NEW t \in Timers, life[t] = "alive", Pending(t), ~Busy(t), pc[Loop] # "last"
      PROVE  ~isFinished(t)
  <2>1. /\ ~\E a \in Actors : At(a, t, {"round"})
        /\ ~At(Loop, t, {"last"})
    BY <1>1 DEF Busy, At
  <2>2. Sound(t)
    BY <1>1 DEF IInv
  <2>3. Made(t) > 0
    BY <1>1, <2>2, MadeType DEF Pending, Sound, Events, Starts, IInv, TInv
  <2>4. Rounded(t)
    BY <1>1, <2>2, <2>3 DEF Sound, Counts
  <2>5. round[t] \in 0..Forever /\ cur[t] \in 0..Forever + 1
    BY <1>1, CellTypes DEF IInv, TInv
  <2> QED
    BY <1>1, <2>1, <2>4, <2>5 DEF Rounded, isFinished
<1>2. IInv => LiveNotFinished
  BY <1>1 DEF LiveNotFinished
<1> QED
  BY <1>2, InvAlways, PTL

\* A timer that ended by itself called its handler as often as startRounds was told, and
\* none more often.
THEOREM CallsInFull == ASSUME CarefulUse PROVE Spec => []CalledInFull
<1>1. ASSUME IInv, NEW t \in Timers, ~Busy(t), Made(t) > 0
      PROVE  /\ calls[t] <= round[t]
             /\ event[t] = 0 /\ t \notin stopped /\ ~(running.timer = t /\ pc[Loop] \notin {"ready", "return"})
                  => calls[t] = round[t]
  <2>1. Sound(t)
    BY <1>1 DEF IInv
  <2>2. round[t] \in 0..Forever /\ calls[t] \in 0..Forever /\ cur[t] \in 0..Forever + 1
    BY <1>1, CellTypes DEF IInv, TInv
  <2>3. life[t] \in {"unborn", "alive", "dead"}
    BY <1>1 DEF IInv, TInv, TypeOK
  <2>4. CASE life[t] # "alive"
    BY <1>1, <2>1, <2>3, <2>4 DEF Sound, Owned
  <2>5. CASE life[t] = "alive"
    <3>1. \A a \in Actors : ~At(a, t, StartPC)
      BY <1>1 DEF Busy, At, StartPC
    <3>2. Called(t)
      BY <1>1, <2>1, <2>5, <3>1 DEF Sound, Counts
    <3>3. InCallback(t) => /\ running.timer = t /\ pc[Loop] \in {"count", "last", "call"} \cup ResetPC
                           /\ pc[Loop] \notin {"ready", "return"}
      BY <2>1 DEF Sound, Callback, InCallback, At, CallPC, ResetPC
    <3>4. calls[t] <= round[t]
      <4>1. CASE round[t] = Forever
        BY <2>2, <4>1
      <4>2. CASE round[t] < Forever /\ InCallback(t)
        <5>1. \/ calls[t] = cur[t] /\ pc[Loop] = "count"
              \/ calls[t] + 1 = round[t]
              \/ calls[t] + 1 = cur[t] /\ cur[t] < round[t]
          BY <3>2, <3>3, <4>2 DEF Called
        <5>2. pc[Loop] = "count" => cur[t] < round[t]
          BY <2>1, <4>2 DEF Sound, Callback
        <5> QED
          BY <2>2, <5>1, <5>2
      <4>3. CASE round[t] < Forever /\ ~InCallback(t)
        BY <2>2, <3>2, <4>3 DEF Called
      <4> QED
        BY <2>2, <4>1, <4>2, <4>3
    <3>5. event[t] = 0 /\ t \notin stopped /\ ~InCallback(t) => calls[t] = round[t]
      BY <3>2 DEF Called
    <3> QED
      BY <3>3, <3>4, <3>5
  <2> QED
    BY <2>4, <2>5
<1>2. IInv => CalledInFull
  BY <1>1 DEF CalledInFull
<1> QED
  BY <1>2, InvAlways, PTL

\* Once ~Timer is over no event of the timer can fire and no callback is on its way to its
\* handler.
THEOREM DeadStaySilent == ASSUME CarefulUse PROVE Spec => []DeadIsSilent
<1>1. ASSUME IInv, NEW t \in Timers, life[t] = "dead"
      PROVE  ~Pending(t) /\ ~(running.timer = t /\ pc[Loop] \in {"count", "last", "call"})
  <2>1. Sound(t) /\ ~Pending(t) /\ ~At(Loop, t, Active)
    BY <1>1 DEF IInv, Sound, Owned, Actors
  <2>2. ASSUME pc[Loop] \in CallPC PROVE running.timer # t
    <3>1. PICK x \in Timers : act[Loop].timer = x
      BY <1>1, <2>2 DEF IInv, TInv, InHand, Actors
    <3>2. running.timer = x
      BY <1>1, <2>2, <3>1, InHandler
    <3> QED
      BY <2>1, <2>2, <3>1, <3>2 DEF At, Active
  <2> QED
    BY <2>1, <2>2 DEF CallPC
<1>2. IInv => DeadIsSilent
  BY <1>1 DEF DeadIsSilent
<1> QED
  BY <1>2, InvAlways, PTL
=============================================================================
