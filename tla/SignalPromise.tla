---------------------------- MODULE SignalPromise ----------------------------
(***************************************************************************)
(* What an EventFdClient and the EventFdServers on its descriptor promise: *)
(* a signal raised is seen at most once, and only after it was raised,     *)
(* however many are seen together.                                         *)
(***************************************************************************)
CONSTANT Signals

VARIABLES pending,   \* signals raised and not seen yet
          seen       \* signals the application has counted

vars == <<pending, seen>>

Init == pending = {} /\ seen = {}

Raise(s) == /\ s \notin pending \cup seen
            /\ pending' = pending \cup {s}
            /\ UNCHANGED seen

See(some) == /\ some \subseteq pending
             /\ pending' = pending \ some
             /\ seen' = seen \cup some

Next == \/ \E s \in Signals : Raise(s)
        \/ \E some \in SUBSET Signals : See(some)

Spec == Init /\ [][Next]_vars
=============================================================================
