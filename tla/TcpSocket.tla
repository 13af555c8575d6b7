------------------------------ MODULE TcpSocket ------------------------------
(***************************************************************************)
(* The sending half of a connected TcpSocket, as a TcpSession has it:      *)
(* application threads and callbacks call send() and close(waiting), the   *)
(* loop's thread writes the output buffer to the kernel and runs the write *)
(* callback, whose checkClosing() carries out a close that had to wait.    *)
(* Received data is left out.                                              *)
(*                                                                         *)
(* External, as the code uses it: the bufferevent, with a lock of its own  *)
(* around each call, and its callbacks, deferred to the loop's thread.     *)
(***************************************************************************)
EXTENDS Naturals

CONSTANTS Users,      \* application threads
          Loop,       \* the loop's thread, which calls too, in its callbacks
          MaxSends    \* bound: the chunks sent over the connection

ASSUME SocketAssumption == MaxSends \in Nat /\ Loop \notin Users

Callers == Users \cup {Loop}

VARIABLES closing,    \* _isClosing
          output,     \* chunks in the output buffer
          enabled,    \* EV_WRITE is enabled on _bev
          due,        \* the write callback is due on the loop
          shut,       \* shutdown(socket(), 2) was called
          gone,       \* handleEvent has closed the descriptor
          accepted,   \* history: chunks send() returned true for
          written,    \* history: chunks given to the kernel
          asked,      \* history: the arguments close() has been called with
          owed,       \* history: accepted when close() was first called
          pc

history == <<accepted, written, asked, owed>>
vars == <<closing, output, enabled, due, shut, gone, history, pc>>

TypeOK == /\ closing \in BOOLEAN /\ enabled \in BOOLEAN /\ due \in BOOLEAN
          /\ shut \in BOOLEAN /\ gone \in BOOLEAN
          /\ output \in 0..MaxSends
          /\ accepted \in 0..MaxSends /\ written \in 0..MaxSends /\ owed \in 0..MaxSends
          /\ asked \subseteq BOOLEAN
          /\ pc \in [Callers -> {"idle", "write", "set", "length", "clear", "impl",
                                 "disable", "shutdown"}]

\* attach() has enabled EV_WRITE: a first write callback may come with no output.
Init == /\ closing = FALSE /\ output = 0 /\ enabled = TRUE /\ due \in BOOLEAN
        /\ shut = FALSE /\ gone = FALSE
        /\ accepted = 0 /\ written = 0 /\ asked = {} /\ owed = 0
        /\ pc = [a \in Callers |-> "idle"]

Goto(a, l) == pc' = [pc EXCEPT ![a] = l]

-----------------------------------------------------------------------------
(* send() and close(waiting), by any thread                                 *)

\* A send() that finds _isClosing set returns false.
SendTest(a) ==
  /\ pc[a] = "idle" /\ ~closing
  /\ Goto(a, "write")
  /\ UNCHANGED <<closing, output, enabled, due, shut, gone, history>>

\* Mutant: the data is appended again after a write that succeeded.
SendWriteAgain(a) ==
  /\ pc[a] = "write"
  /\ IF accepted < MaxSends
     THEN output' = output + 2 /\ accepted' = accepted + 1
     ELSE UNCHANGED <<output, accepted>>
  /\ Goto(a, "idle")
  /\ UNCHANGED <<closing, enabled, due, shut, gone, written, asked, owed>>

\* bufferevent_write takes the data whether or not writing is still enabled; at the
\* bound it fails, and so does send().
SendWrite(a) ==
  /\ pc[a] = "write"
  /\ IF accepted < MaxSends
     THEN output' = output + 1 /\ accepted' = accepted + 1
     ELSE UNCHANGED <<output, accepted>>
  /\ Goto(a, "idle")
  /\ UNCHANGED <<closing, enabled, due, shut, gone, written, asked, owed>>

\* The test of the output's length, before _isClosing is set or closeImpl called.
CloseTest(a) ==
  /\ pc[a] = "idle"
  /\ \E waiting \in BOOLEAN :
       /\ asked' = asked \cup {waiting}
       /\ Goto(a, IF waiting /\ output > 0 THEN "set" ELSE "impl")
  /\ owed' = IF asked = {} THEN accepted ELSE owed
  /\ UNCHANGED <<closing, output, enabled, due, shut, gone, accepted, written>>

\* Mutant: _isClosing is not set.
CloseSetForgets(a) ==
  /\ pc[a] = "set"
  /\ Goto(a, "idle")
  /\ UNCHANGED <<closing, output, enabled, due, shut, gone, history>>

CloseSet(a) ==
  /\ pc[a] = "set"
  /\ closing' = TRUE
  /\ Goto(a, "idle")
  /\ UNCHANGED <<output, enabled, due, shut, gone, history>>

\* closeImpl: _isClosing = false,
CloseImpl(a) ==
  /\ pc[a] = "impl"
  /\ closing' = FALSE
  /\ Goto(a, "disable")
  /\ UNCHANGED <<output, enabled, due, shut, gone, history>>

\* bufferevent_disable(_bev, EV_WRITE),
CloseDisable(a) ==
  /\ pc[a] = "disable"
  /\ enabled' = FALSE
  /\ Goto(a, "shutdown")
  /\ UNCHANGED <<closing, output, due, shut, gone, history>>

\* and shutdown(), which of a connection that is already closed does nothing to it.
CloseShutdown(a) ==
  /\ pc[a] = "shutdown"
  /\ shut' = (shut \/ ~gone)
  /\ Goto(a, "idle")
  /\ UNCHANGED <<closing, output, enabled, due, gone, history>>

-----------------------------------------------------------------------------
(* The loop's thread                                                        *)

\* libevent writes what the kernel takes; the write callback is due when the buffer
\* is empty.
Flush ==
  /\ pc[Loop] = "idle" /\ enabled /\ output > 0
  /\ \E n \in 1..output : /\ output' = output - n
                          /\ written' = written + n
                          /\ due' = (due \/ n = output)
  /\ UNCHANGED <<closing, enabled, shut, gone, accepted, asked, owed, pc>>

\* checkClosing reads _isClosing,
WriteCallback ==
  /\ pc[Loop] = "idle" /\ due
  /\ due' = FALSE
  /\ Goto(Loop, IF closing THEN "length" ELSE "idle")
  /\ UNCHANGED <<closing, output, enabled, shut, gone, history>>

\* Mutant: checkClosing goes by _isClosing alone.
CheckLengthNot ==
  /\ pc[Loop] = "length"
  /\ Goto(Loop, "clear")
  /\ UNCHANGED <<closing, output, enabled, due, shut, gone, history>>

\* then the length of the output buffer,
CheckLength ==
  /\ pc[Loop] = "length"
  /\ Goto(Loop, IF output = 0 THEN "clear" ELSE "idle")
  /\ UNCHANGED <<closing, output, enabled, due, shut, gone, history>>

\* and clears _isClosing before it calls closeImpl.
CheckClear ==
  /\ pc[Loop] = "clear"
  /\ closing' = FALSE
  /\ Goto(Loop, "impl")
  /\ UNCHANGED <<output, enabled, due, shut, gone, history>>

\* The peer closes, or our shutdown is read back as the end of the stream; the
\* bufferevent is disabled and the descriptor closed.
HandleEvent ==
  /\ pc[Loop] = "idle" /\ ~gone
  /\ enabled' = FALSE /\ gone' = TRUE
  /\ UNCHANGED <<closing, output, due, shut, history, pc>>

-----------------------------------------------------------------------------
Goes(a) == SendWrite(a) \/ CloseSet(a) \/ CloseImpl(a) \/ CloseDisable(a) \/ CloseShutdown(a)
LoopStep == Flush \/ WriteCallback
Check == CheckLength \/ CheckClear

Next == \/ \E a \in Callers : SendTest(a) \/ CloseTest(a) \/ Goes(a)
        \/ LoopStep \/ Check \/ HandleEvent

Spec == Init /\ [][Next]_vars

\* Threads run, callbacks return, and a peer that stays reads what is sent: the loop,
\* whatever its callbacks call in between, comes back to this socket.
FairSpec == /\ Spec
            /\ \A a \in Callers : WF_vars(Goes(a))
            /\ WF_vars(Check) /\ SF_vars(Flush) /\ SF_vars(WriteCallback)

-----------------------------------------------------------------------------
(* Properties                                                               *)

\* tcpSocket.h:59: "waiting: close after sending the data".  If every close() was a
\* waiting one, what send() had accepted before the first of them was given to the
\* kernel before shutdown, whichever thread shuts the socket down.
WaitingCloseFlushes == shut /\ FALSE \notin asked => written >= owed

\* A thread is past the test in close(), or in the closeImpl of checkClosing.
Closing(a) == pc[a] \in {"set", "impl", "disable", "shutdown"}

\* close() called on the loop's thread (from a callback, tcpSocket.cpp:73) closes the
\* connection, once its output is written, whatever other threads send and close.
LoopCloses == Closing(Loop) ~> (shut \/ gone)

\* tcpSocket.h:58: "close connection".  The same of a close() called by any thread.
CloseCloses == \A a \in Callers : Closing(a) ~> (shut \/ gone)
=============================================================================
