----------------------------- MODULE LoopPromise -----------------------------
(***************************************************************************)
(* What a Loop promises its users, whatever its threads do: the loop is    *)
(* run at most once and by one thread at a time, status() tells whether    *)
(* that thread is inside, and the event_base is not freed under it.        *)
(***************************************************************************)
CONSTANT Procs

VARIABLES phase,    \* what status() returns
          inside,   \* the threads executing the loop
          freed     \* the event_base is gone

vars == <<phase, inside, freed>>

Init == phase = "Init" /\ inside = {} /\ freed = FALSE

Begin(p) == /\ phase = "Init" /\ ~freed
            /\ phase' = "Running" /\ inside' = {p}
            /\ UNCHANGED freed

End(p) == /\ inside = {p} /\ phase = "Running"
          /\ phase' = "Finished" /\ inside' = {}
          /\ UNCHANGED freed

Free == /\ inside = {} /\ freed' = TRUE
        /\ UNCHANGED <<phase, inside>>

Next == (\E p \in Procs : Begin(p) \/ End(p)) \/ Free

Spec == Init /\ [][Next]_vars
=============================================================================
