----------------------------- MODULE SessionLife -----------------------------
(***************************************************************************)
(* What a TcpServer promises about each connection, without its threads    *)
(* and queues.  "serving" and "leaving" are the phases in which getSession *)
(* finds the session: from onNewSession until the application's own        *)
(* removal, or until after onSessionDisconnected.                          *)
(***************************************************************************)
CONSTANT Conns

VARIABLES phase,    \* phase[c]
          asked     \* sessions the application asked to remove

vars == <<phase, asked>>

Init == phase = [c \in Conns |-> "waiting"] /\ asked = {}

Moves(c, from, to) == phase[c] = from /\ phase' = [phase EXCEPT ![c] = to]

\* onNewSession may ask for the removal of the session it announces.
Serve(c)   == Moves(c, "waiting", "serving") /\ asked' \in {asked, asked \cup {c}}
Refuse(c)  == Moves(c, "waiting", "gone") /\ UNCHANGED asked
Depart(c)  == Moves(c, "serving", "leaving") /\ UNCHANGED asked
Release(c) == Moves(c, "leaving", "gone") /\ UNCHANGED asked
Drop(c)    == c \in asked /\ Moves(c, "serving", "gone") /\ UNCHANGED asked
Ask(c)     == asked' = asked \cup {c} /\ phase[c] # "waiting" /\ UNCHANGED phase

Next == \E c \in Conns : Serve(c) \/ Refuse(c) \/ Depart(c) \/ Release(c) \/ Drop(c) \/ Ask(c)

Spec == Init /\ [][Next]_vars
=============================================================================
