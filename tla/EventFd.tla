------------------------------- MODULE EventFd -------------------------------
(***************************************************************************)
(* An EventFdClient that timers and application threads call send() of,    *)
(* and the EventFdServers that read the same eventfd, each on a loop of    *)
(* its own.  The application's callback adds what it reads to a count, and *)
(* its main thread closes the descriptor when the count is complete, as    *)
(* the tests do (testCasesBody.hpp).                                       *)
(*                                                                         *)
(* External, as the code uses it: the kernel's counter (non-blocking, as   *)
(* the comment of the constructors asks) and libevent's level-triggered,   *)
(* persistent read event.  The counter is the set of the signals in it.    *)
(***************************************************************************)
EXTENDS Naturals, FiniteSets

CONSTANTS Signals,   \* the calls of send() that are made
          Servers,   \* EventFdServer objects
          Max        \* what the counter holds at most: 2^64 - 2 in the kernel

ASSUME SignalAssumption == IsFiniteSet(Signals) /\ Max \in Nat

VARIABLES open,      \* the descriptor is open
          counter,   \* the signals in the eventfd
          result,    \* result[s]: what send() number s returned, or "none"
          server,    \* server[r]: "none", "up" (_event added), "failed" or "gone"
          at,        \* at[r]: where the loop of r is: "poll", "callback" or "count"
          held,      \* held[r]: what the running callback of r has read
          count      \* fd_count, as the signals counted

vars == <<open, counter, result, server, at, held, count>>

TypeOK == /\ open \in BOOLEAN
          /\ counter \subseteq Signals /\ Cardinality(counter) <= Max
          /\ result \in [Signals -> {"none", "true", "false"}]
          /\ server \in [Servers -> {"none", "up", "failed", "gone"}]
          /\ at \in [Servers -> {"poll", "callback", "count"}]
          /\ held \in [Servers -> SUBSET Signals] /\ count \subseteq Signals

Init == /\ open = TRUE /\ counter = {}
        /\ result = [s \in Signals |-> "none"]
        /\ server = [r \in Servers |-> "none"]
        /\ at = [r \in Servers |-> "poll"] /\ held = [r \in Servers |-> {}]
        /\ count = {}

-----------------------------------------------------------------------------
(* EventFdClient                                                            *)

Returns(s, value) == result' = [result EXCEPT ![s] = value]

\* Mutant: a full counter is not noticed.
SendPastMax(s) ==
  /\ open /\ result[s] = "none"
  /\ Returns(s, "true") /\ counter' = counter \cup {s}
  /\ UNCHANGED <<open, server, at, held, count>>

\* send(): one write() of 1.  A full counter refuses it (EAGAIN); a number that was
\* closed may be another file's by now.
Send(s) ==
  /\ result[s] = "none"
  /\ IF open /\ Cardinality(counter) < Max
     THEN Returns(s, "true") /\ counter' = counter \cup {s}
     ELSE Returns(s, "false") /\ UNCHANGED counter
  /\ UNCHANGED <<open, server, at, held, count>>

-----------------------------------------------------------------------------
(* EventFdServer, and the application's callback on its loop                *)

\* event_new and event_add; if either fails the constructor throws.
Construct(r) ==
  /\ open /\ server[r] = "none"
  /\ \E outcome \in {"up", "failed"} : server' = [server EXCEPT ![r] = outcome]
  /\ UNCHANGED <<open, counter, result, at, held, count>>

\* ~EventFdServer, with signals pending or not: event_free waits for a running callback,
\* unless that is what calls it.  The callback has no pointer to the server and goes on.
Destroy(r) ==
  /\ server[r] = "up"
  /\ server' = [server EXCEPT ![r] = "gone"]
  /\ UNCHANGED <<open, counter, result, at, held, count>>

\* The loop finds the descriptor readable.  Another loop may find the same.
Dispatch(r) ==
  /\ open /\ server[r] = "up" /\ at[r] = "poll" /\ counter # {}
  /\ at' = [at EXCEPT ![r] = "callback"]
  /\ UNCHANGED <<open, counter, result, server, held, count>>

\* Mutant: the counter is read and not reset.
ReadKeeps(r) ==
  /\ at[r] = "callback" /\ counter # {} /\ open
  /\ held' = [held EXCEPT ![r] = counter]
  /\ at' = [at EXCEPT ![r] = "count"]
  /\ UNCHANGED <<open, counter, result, server, count>>

\* Mutant: the eventfd blocks.
ReadBlocks(r) ==
  /\ at[r] = "callback" /\ counter # {} /\ open
  /\ held' = [held EXCEPT ![r] = counter] /\ counter' = {}
  /\ at' = [at EXCEPT ![r] = "count"]
  /\ UNCHANGED <<open, result, server, count>>

\* onEVFDRead: read() takes the whole counter, or fails when another callback has
\* taken it since.
Read(r) ==
  /\ at[r] = "callback"
  /\ IF open /\ counter # {}
     THEN /\ held' = [held EXCEPT ![r] = counter] /\ counter' = {}
          /\ at' = [at EXCEPT ![r] = "count"]
     ELSE at' = [at EXCEPT ![r] = "poll"] /\ UNCHANGED <<held, counter>>
  /\ UNCHANGED <<open, result, server, count>>

\* Mutant: the callback counts itself, not what it read.
CountOne(r) ==
  /\ at[r] = "count"
  /\ count' = count \cup {CHOOSE s \in held[r] : TRUE} /\ held' = [held EXCEPT ![r] = {}]
  /\ at' = [at EXCEPT ![r] = "poll"]
  /\ UNCHANGED <<open, counter, result, server>>

\* fd_count += one.
Count(r) ==
  /\ at[r] = "count"
  /\ count' = count \cup held[r] /\ held' = [held EXCEPT ![r] = {}]
  /\ at' = [at EXCEPT ![r] = "poll"]
  /\ UNCHANGED <<open, counter, result, server>>

-----------------------------------------------------------------------------
(* The main thread                                                          *)

\* The callback that completes the count wakes the main thread, which closes the
\* descriptor while the timers' thread and the loops still run.
Close ==
  /\ open /\ count = Signals
  /\ open' = FALSE
  /\ UNCHANGED <<counter, result, server, at, held, count>>

-----------------------------------------------------------------------------
Serve(r) == Dispatch(r) \/ Read(r) \/ Count(r)

Next == \/ \E s \in Signals : Send(s)
        \/ \E r \in Servers : Construct(r) \/ Destroy(r) \/ Serve(r)
        \/ Close

Spec == Init /\ [][Next]_vars

\* The loops run and callbacks return.  Nobody has to send or to make a server.
FairSpec == Spec /\ \A r \in Servers : WF_vars(Serve(r))

-----------------------------------------------------------------------------
(* Properties                                                               *)

Promise == INSTANCE SignalPromise
             WITH pending <- counter \cup UNION {held[r] : r \in Servers}, seen <- count

\* Signals coalesce in the counter and several loops race for it, yet each send() that
\* returned true (eventClient.h:49-58) is counted at most once, and never before it was
\* made: the sum of what the callbacks read is the number of signals.
KeepsSignals == Promise!Spec

\* testCasesBody.hpp:75: "test if we got the number of test count".  Every signal that
\* send() accepted, before or after a server was made or while one was killed and a new
\* one started (eventServer.h:44), is counted in the end if some server stays.
EverySignalSeen ==
  \A r \in Servers : <>[](server[r] = "up") => \A s \in Signals : result[s] = "true" ~> s \in count

\* eventServer.h:41: "please make sure your fd is non-blocking".  With that no loop hangs
\* in a read whose signals another loop has taken.
CallbackReturns == \A r \in Servers : at[r] = "callback" ~> at[r] = "poll"
=============================================================================
