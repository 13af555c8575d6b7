------------------------------ MODULE TcpClient ------------------------------
(***************************************************************************)
(* A TcpClientTPKT that connects, sends frames, closes and connects again, *)
(* all in callbacks of its loop (tcpExample.cpp), and the session of a     *)
(* TcpServerTPKT at the other end of each of its connections.  The server  *)
(* sends nothing.                                                          *)
(*                                                                         *)
(* External, as the code uses it: the bufferevent, whose deferred          *)
(* callbacks come in the order connected, write, end; the two ends'        *)
(* kernels and the stream between them.                                    *)
(***************************************************************************)
EXTENDS Tpkt

CONSTANTS Payloads,       \* what the application sends, short enough for a header
          MaxConnects,    \* bound: connections of the client
          MaxFrames       \* bound: frames sent over all of them

ASSUME ClientAssumption ==
  /\ Payloads \subseteq Seq(Byte) /\ \A p \in Payloads : Len(p) + TPKT1_LENGTH < Base * Base * Base
  /\ MaxConnects \in Nat /\ MaxFrames \in Nat

Conns == 1..MaxConnects

VARIABLES bev,          \* _bev: the connection it is for, 0 for NULL
          isConnected,  \* _isConnected
          closing,      \* _isClosing
          output,       \* the output buffer of _bev
          enabled,      \* EV_WRITE is enabled on _bev
          pending,      \* the connected event is due on the loop
          due,          \* the write callback is due on the loop
          pc,           \* "loop", or "event" in onDisconnected
          net,          \* net[k]: connection k as the client's kernel has it
          wire,         \* wire[k]: bytes on their way to the server
          session,      \* session[k]: the server's end
          input,        \* input[k]: the input buffer of the session
          total,        \* frames sent, for the bound
          sent,         \* history: sent[k]: payloads sendWithTPKT returned true for
          got,          \* history: got[k]: payloads given to the server's onRead
          asked,        \* history: asked[k]: the arguments close() was called with
          owed,         \* history: owed[k]: Len(sent[k]) when close() was first called
          lost          \* the server met bytes it cannot be in step with

socket == <<bev, isConnected, closing, output, enabled, pending, due, pc>>
peer == <<session, input, got, lost>>
calls == <<total, sent, asked, owed>>
vars == <<socket, net, wire, peer, calls>>

TypeOK == /\ bev \in {0} \cup Conns
          /\ {isConnected, closing, enabled, pending, due, lost} \subseteq BOOLEAN
          /\ output \in Seq(Byte)
          /\ pc \in {"loop", "event"}
          /\ net \in [Conns -> {"none", "connecting", "up", "down"}]
          /\ wire \in [Conns -> Seq(Byte)] /\ input \in [Conns -> Seq(Byte)]
          /\ session \in [Conns -> {"none", "open", "gone"}]
          /\ total \in 0..MaxFrames /\ sent \in [Conns -> Seq(Payloads)] /\ got \in [Conns -> Seq(Seq(Byte))]
          /\ asked \in [Conns -> SUBSET BOOLEAN] /\ owed \in [Conns -> 0..MaxFrames]

Init == /\ bev = 0 /\ isConnected = FALSE /\ closing = FALSE
        /\ output = <<>> /\ enabled = FALSE /\ pending = FALSE /\ due = FALSE
        /\ pc = "loop"
        /\ net = [k \in Conns |-> "none"] /\ session = [k \in Conns |-> "none"]
        /\ wire = [k \in Conns |-> <<>>] /\ input = [k \in Conns |-> <<>>]
        /\ sent = [k \in Conns |-> <<>>] /\ got = [k \in Conns |-> <<>>]
        /\ asked = [k \in Conns |-> {}] /\ owed = [k \in Conns |-> 0]
        /\ total = 0 /\ lost = FALSE

-----------------------------------------------------------------------------
(* The application's calls                                                  *)

\* With a _bev already, or when libevent fails, connect returns false and nothing
\* has changed.
connect ==
  /\ pc = "loop" /\ bev = 0
  /\ \E k \in Conns : /\ net[k] = "none" /\ \A j \in Conns : net[j] = "none" => k <= j
                      /\ bev' = k
                      /\ net' = [net EXCEPT ![k] = "connecting"]
  /\ enabled' = TRUE
  /\ UNCHANGED <<isConnected, closing, output, pending, due, pc, wire, peer, calls>>

\* sendWithTPKT: two send()s, with nothing of this loop in between.  They refuse
\* without a _bev or with _isClosing set.
sendWithTPKT ==
  /\ bev # 0 /\ ~closing /\ total < MaxFrames
  /\ \E p \in Payloads : /\ output' = output \o Header(Len(p)) \o p
                         /\ sent' = [sent EXCEPT ![bev] = Append(@, p)]
  /\ total' = total + 1
  /\ UNCHANGED <<bev, isConnected, closing, enabled, pending, due, pc, net, wire, peer,
                 asked, owed>>

\* shutdown() of connection k.  In onDisconnected its number is closed already; before
\* the connection is there, the kernel gives it up, which libevent may take for
\* "connected" first.
Shutdown(k) ==
  /\ net' = [net EXCEPT ![k] = "down"]
  /\ pending' \in IF net[k] = "connecting" THEN BOOLEAN ELSE {pending}

\* Mutant: EV_WRITE is disabled, but the connection left as it is.
closeImplHalf(k) ==
  /\ closing' = FALSE /\ enabled' = FALSE
  /\ UNCHANGED <<net, pending>>

closeImpl(k) ==
  /\ closing' = FALSE /\ enabled' = FALSE
  /\ Shutdown(k)

\* Mutant: what is in the output buffer is not waited for.
MustWaitNot(waiting) == FALSE

MustWait(waiting) == waiting /\ output # <<>>

close ==
  /\ bev # 0
  /\ \E waiting \in BOOLEAN :
       /\ asked' = [asked EXCEPT ![bev] = @ \cup {waiting}]
       /\ IF MustWait(waiting)
          THEN closing' = TRUE /\ UNCHANGED <<enabled, pending, net>>
          ELSE closeImpl(bev)
  /\ owed' = IF asked[bev] = {} THEN [owed EXCEPT ![bev] = Len(sent[bev])] ELSE owed
  /\ UNCHANGED <<bev, isConnected, output, due, pc, wire, peer, total, sent>>

-----------------------------------------------------------------------------
(* The client's loop                                                        *)

\* handleEvent with BEV_EVENT_CONNECTED.  errno is what this thread's last failure left:
\* ECONNREFUSED or ETIMEDOUT of another connection make this one look refused, and
\* onConnected is then called with that.
Connected ==
  /\ pc = "loop" /\ pending
  /\ pending' = FALSE /\ isConnected' \in {TRUE, isConnected}
  /\ UNCHANGED <<bev, closing, output, enabled, due, pc, net, wire, peer, calls>>

\* libevent writes what the kernel takes.
Flush ==
  /\ pc = "loop" /\ bev # 0 /\ enabled /\ output # <<>>
  /\ net[bev] = "up"
  /\ \E n \in 1..Len(output) :
       /\ wire' = [wire EXCEPT ![bev] = @ \o SubSeq(output, 1, n)]
       /\ output' = SubSeq(output, n + 1, Len(output))
       /\ due' = (due \/ n = Len(output))
  /\ UNCHANGED <<bev, isConnected, closing, enabled, pending, pc, net, peer, calls>>

checkClosing == IF closing /\ output = <<>>
                THEN closeImpl(bev)
                ELSE UNCHANGED <<closing, enabled, net, pending>>

WriteCallback ==
  /\ pc = "loop" /\ due /\ ~pending
  /\ due' = FALSE
  /\ checkClosing
  /\ UNCHANGED <<bev, isConnected, output, pc, wire, peer, calls>>

\* handleEvent with the end of the stream, an error or a refused connection: up to
\* onDisconnected, in which the application can still call send and close,
HandleEvent ==
  /\ pc = "loop" /\ bev # 0 /\ net[bev] = "down" /\ ~pending /\ ~due
  /\ enabled' = FALSE /\ isConnected' = FALSE
  /\ pc' = "event"
  /\ UNCHANGED <<bev, closing, output, pending, due, net, wire, peer, calls>>

\* and bufferevent_free.  _isClosing stays as it is.
HandleFree ==
  /\ pc = "event"
  /\ bev' = 0 /\ output' = <<>>
  /\ pc' = "loop"
  /\ UNCHANGED <<isConnected, closing, enabled, pending, due, net, wire, peer, calls>>

-----------------------------------------------------------------------------
(* The network and the server                                               *)

Establish(k) ==
  /\ net[k] = "connecting"
  /\ net' = [net EXCEPT ![k] = "up"] /\ session' = [session EXCEPT ![k] = "open"]
  /\ pending' = TRUE
  /\ UNCHANGED <<bev, isConnected, closing, output, enabled, due, pc, wire, input, got, lost,
                 calls>>

\* The connection is refused or times out,
Refuse(k) ==
  /\ net[k] = "connecting"
  /\ net' = [net EXCEPT ![k] = "down"]
  /\ UNCHANGED <<socket, wire, peer, calls>>

\* or the server closes it, or it breaks.
ServerCloses(k) ==
  /\ session[k] = "open"
  /\ session' = [session EXCEPT ![k] = "gone"]
  /\ net' = [net EXCEPT ![k] = "down"]
  /\ wire' = [wire EXCEPT ![k] = <<>>]
  /\ UNCHANGED <<socket, input, got, lost, calls>>

\* Some more bytes arrive, and onSessionRead.
Receive(k) ==
  /\ session[k] = "open" /\ wire[k] # <<>>
  /\ \E n \in 1..Len(wire[k]) :
       LET taken == Taken[input[k] \o SubSeq(wire[k], 1, n)] IN
       /\ wire' = [wire EXCEPT ![k] = SubSeq(@, n + 1, Len(@))]
       /\ input' = [input EXCEPT ![k] = taken.rest]
       /\ got' = [got EXCEPT ![k] = @ \o taken.payloads]
       /\ lost' = (lost \/ taken.lost)
  /\ UNCHANGED <<socket, net, session, calls>>

-----------------------------------------------------------------------------
\* The application, whose timer runs on the client's loop.
Tick == connect \/ sendWithTPKT \/ close

LoopStep == Connected \/ Flush \/ WriteCallback \/ HandleEvent \/ HandleFree

Next == \/ Tick
        \/ LoopStep
        \/ \E k \in Conns : Establish(k) \/ Refuse(k) \/ ServerCloses(k) \/ Receive(k)

Spec == Init /\ [][Next]_vars

\* The loops run, callbacks return, a connection is established or refused in the end,
\* and bytes on the wire arrive.  Nobody has to call or to close.
FairSpec == /\ Spec
            /\ WF_vars(LoopStep)
            /\ \A k \in Conns : WF_vars(Receive(k)) /\ WF_vars(Establish(k) \/ Refuse(k))

-----------------------------------------------------------------------------
(* Properties                                                               *)

IsPrefix(s, t) == Len(s) <= Len(t) /\ s = SubSeq(t, 1, Len(s))

\* Whatever pieces the stream arrives in (tcpServerTPKT.h:72, "some message is still in
\* the air"), and over however many connections, the server's onRead is given the
\* payloads of sendWithTPKT, whole and in order, and never loses the magic number.
FramesIntact == ~lost /\ \A k \in Conns : IsPrefix(got[k], sent[k])

\* The first close of k was a waiting one, and so were those after it.
Waits(k) == asked[k] = {TRUE}
Broken(k) == session[k] = "gone" \/ (net[k] = "down" /\ session[k] = "none")

\* tcpSocket.h:59: "waiting: close after sending the data".  What was sent before close()
\* arrives, unless the server or the connection fails or close(false) is called.
CloseDelivers ==
  \A k \in Conns : Waits(k) ~> (Len(got[k]) >= owed[k] \/ ~Waits(k) \/ Broken(k))

\* tcpSocket.h:58: "close connection".  After close() the client gets rid of its _bev and
\* is not connected by it any more, so that it can connect again.
CloseEnds == \A k \in Conns : asked[k] # {} ~> (bev # k /\ (isConnected => bev # 0))
=============================================================================
