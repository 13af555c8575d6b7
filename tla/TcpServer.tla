------------------------------ MODULE TcpServer ------------------------------
(***************************************************************************)
(* TcpServer, its TcpServerDispatchers and their TcpSessions.  The master  *)
(* thread of a server accepts, numbers the connection and pushes it onto   *)
(* the queue of a dispatcher; that dispatcher's thread empties the queue   *)
(* once a frame under its mutex, attaching and erasing sessions, and runs  *)
(* the sessions' callbacks between frames.  Application threads look       *)
(* sessions up, close them and ask for their removal.                      *)
(*                                                                         *)
(* External, as the code uses it: the kernel's descriptor numbers, and     *)
(* libevent running the callbacks of a loop one at a time.                 *)
(***************************************************************************)
EXTENDS Naturals, Sequences

CONSTANTS Servers,    \* the TcpServers of the process: they share one id generator
          Slavers,    \* IO threads of each server; with none the master serves
          Conns,      \* connections clients make
          ServerOf,   \* ServerOf[c]: the server c connects to
          Numbers,    \* descriptor numbers of the process
          Users,      \* application threads
          None

ASSUME TcpAssumption ==
  /\ Slavers \in Nat
  /\ ServerOf \in [Conns -> Servers]
  /\ None \notin Conns /\ None \notin Numbers

Disps == Servers \X (0..Slavers)      \* <<s, 0>> is _master, the others _slavers
Master(s) == <<s, 0>>

VARIABLES gen,        \* s_sessionIdGenerator
          id,         \* id[c]: the SessionId of c, 0 before it has one
          number,     \* number[c]: the descriptor number accept gave c
          open,       \* connections whose descriptor is open on our side
          eof,        \* connections that will report a disconnect
          actions,    \* actions[d]: _actions, oldest first
          sessions,   \* sessions[d]: _sessions, keyed by the sessions' ids
          bev,        \* bev[c]: what became of c's TcpSession
          dropped,    \* history: sessions the application asked to remove
          ref,        \* ref[u]: the TcpSessionPtr thread u holds
          told,       \* told[s]: dispatchers of s that stop() has reached
          work,       \* work[d]: the connection d's thread is busy with, and the id read
          pc          \* pc[d]: where d's thread is

kernel == <<number, open, eof>>
vars == <<gen, id, kernel, actions, sessions, bev, dropped, ref, told, work, pc>>

-----------------------------------------------------------------------------
Action == [id : Nat, sock : Conns \cup {None}]   \* sock = None: SOCKET_FD_INVALID

TypeOK == /\ gen \in Nat
          /\ id \in [Conns -> Nat]
          /\ number \in [Conns -> Numbers \cup {None}]
          /\ open \subseteq Conns /\ eof \subseteq Conns
          /\ actions \in [Disps -> Seq(Action)]
          /\ sessions \in [Disps -> SUBSET Conns]
          /\ bev \in [Conns -> {"none", "on", "closed", "off", "failed"}]
          /\ dropped \subseteq Conns
          /\ ref \in [Users -> Conns \cup {None}]
          /\ told \in [Servers -> Nat]
          /\ work \in [Disps -> [conn : Conns \cup {None}, gen : Nat]]
          /\ pc \in [Disps -> {"poll", "number", "push", "frame", "remove", "ended"}]

\* listen() has succeeded: the loops of _master and of the slavers run.
Init == /\ gen = 0
        /\ id = [c \in Conns |-> 0]
        /\ number = [c \in Conns |-> None] /\ open = {} /\ eof = {}
        /\ actions = [d \in Disps |-> <<>>]
        /\ sessions = [d \in Disps |-> {}]
        /\ bev = [c \in Conns |-> "none"]
        /\ dropped = {}
        /\ ref = [u \in Users |-> None]
        /\ told = [s \in Servers |-> 0]
        /\ work = [d \in Disps |-> [conn |-> None, gen |-> 0]]
        /\ pc = [d \in Disps |-> "poll"]

-----------------------------------------------------------------------------
(* Helpers                                                                  *)

\* _slavers.empty() ? _master : _slavers[id % _slavers.size()]
GetSessionDispatcher(s, i) == IF Slavers = 0 THEN Master(s) ELSE <<s, 1 + (i % Slavers)>>

Home(c) == GetSessionDispatcher(ServerOf[c], id[c])

\* onFrame holds _mutex from its first action to its last.
Locked(d) == pc[d] = "frame"

\* addSession(i, c), and removeSession(i) with c = None.
Pushed(d, i, c) == [actions EXCEPT ![d] = Append(@, [id |-> i, sock |-> c])]

Erased(S, i) == {c \in S : id[c] # i}

\* The TcpSession of c exists while the map or an application thread holds it.
Alive(c) == c \in sessions[Home(c)] \/ \E u \in Users : ref[u] = c

Goto(d, l) == pc' = [pc EXCEPT ![d] = l]

-----------------------------------------------------------------------------
(* The master thread: listenEventCallback                                   *)

\* The kernel hands over a connection under a free number; ++s_sessionIdGenerator
\* reads the generator here and writes it in AcceptNumber: it is not atomic.
Accept(s) ==
  LET d == Master(s) IN
  /\ pc[d] = "poll"
  /\ \E c \in Conns, n \in Numbers :
       /\ ServerOf[c] = s /\ number[c] = None
       /\ \A x \in open : number[x] # n
       /\ number' = [number EXCEPT ![c] = n]
       /\ open' = open \cup {c}
       /\ work' = [work EXCEPT ![d] = [conn |-> c, gen |-> gen]]
  /\ Goto(d, "number")
  /\ UNCHANGED <<gen, id, eof, actions, sessions, bev, dropped, ref, told>>

AcceptNumber(s) ==
  LET d == Master(s) IN
  /\ pc[d] = "number"
  /\ gen' = work[d].gen + 1
  /\ id' = [id EXCEPT ![work[d].conn] = work[d].gen + 1]
  /\ Goto(d, "push")
  /\ UNCHANGED <<kernel, actions, sessions, bev, dropped, ref, told, work>>

\* Mutant: the connection is numbered but not handed to its dispatcher.
AcceptPushForgets(s) ==
  /\ pc[Master(s)] = "push"
  /\ Goto(Master(s), "poll")
  /\ UNCHANGED <<gen, id, kernel, actions, sessions, bev, dropped, ref, told, work>>

AcceptPush(s) ==
  LET d == Master(s)
      c == work[d].conn
  IN
  /\ pc[d] = "push" /\ ~Locked(Home(c))
  /\ actions' = Pushed(Home(c), id[c], c)
  /\ Goto(d, "poll")
  /\ UNCHANGED <<gen, id, kernel, sessions, bev, dropped, ref, told, work>>

-----------------------------------------------------------------------------
(* A dispatcher's thread: onFrame                                           *)

\* A frame that finds the queue empty returns and changes nothing.
FrameBegin(d) ==
  /\ pc[d] = "poll" /\ actions[d] # <<>>
  /\ Goto(d, "frame")
  /\ UNCHANGED <<gen, id, kernel, actions, sessions, bev, dropped, ref, told, work>>

\* Mutant: the test of action.sock is missing, a removal is attached too.
FrameAttachAny(d) ==
  /\ pc[d] = "frame" /\ actions[d] # <<>>
  /\ bev' = [bev EXCEPT ![Head(actions[d]).sock] = "on"]
  /\ sessions' = [sessions EXCEPT ![d] = @ \cup {Head(actions[d]).sock}]
  /\ actions' = [actions EXCEPT ![d] = Tail(@)]
  /\ UNCHANGED <<gen, id, kernel, dropped, ref, told, work, pc>>

\* Mutant: the attached session is not entered in _sessions.
FrameAttachUnlisted(d) ==
  /\ pc[d] = "frame" /\ actions[d] # <<>>
  /\ Head(actions[d]).sock # None
  /\ bev' = [bev EXCEPT ![Head(actions[d]).sock] = "on"]
  /\ actions' = [actions EXCEPT ![d] = Tail(@)]
  /\ UNCHANGED <<gen, id, kernel, sessions, dropped, ref, told, work, pc>>

\* attach() made the bufferevent, onNewSession() ran (the application may ask for
\* the removal of the session at once: _mutex is recursive), the map has it.
FrameAttach(d) ==
  /\ pc[d] = "frame" /\ actions[d] # <<>>
  /\ LET a == Head(actions[d])
         c == a.sock
     IN /\ c # None
        /\ bev' = [bev EXCEPT ![c] = "on"]
        /\ sessions' = [sessions EXCEPT ![d] = Erased(@, a.id) \cup {c}]
        /\ \/ actions' = [actions EXCEPT ![d] = Tail(@)] /\ UNCHANGED dropped
           \/ /\ actions' = [actions EXCEPT ![d] = Append(Tail(@), [id |-> a.id, sock |-> None])]
              /\ dropped' = dropped \cup {c}
  /\ UNCHANGED <<gen, id, kernel, ref, told, work, pc>>

\* attach() failed: the TcpSession is gone and nobody closes the descriptor.
FrameAttachFails(d) ==
  /\ pc[d] = "frame" /\ actions[d] # <<>>
  /\ Head(actions[d]).sock # None
  /\ bev' = [bev EXCEPT ![Head(actions[d]).sock] = "failed"]
  /\ actions' = [actions EXCEPT ![d] = Tail(@)]
  /\ UNCHANGED <<gen, id, kernel, sessions, dropped, ref, told, work, pc>>

\* Mutant: a removal empties the map.
FrameEraseAll(d) ==
  /\ pc[d] = "frame" /\ actions[d] # <<>>
  /\ Head(actions[d]).sock = None
  /\ sessions' = [sessions EXCEPT ![d] = {}]
  /\ actions' = [actions EXCEPT ![d] = Tail(@)]
  /\ UNCHANGED <<gen, id, kernel, bev, dropped, ref, told, work, pc>>

FrameErase(d) ==
  /\ pc[d] = "frame" /\ actions[d] # <<>>
  /\ Head(actions[d]).sock = None
  /\ sessions' = [sessions EXCEPT ![d] = Erased(@, Head(actions[d]).id)]
  /\ actions' = [actions EXCEPT ![d] = Tail(@)]
  /\ UNCHANGED <<gen, id, kernel, bev, dropped, ref, told, work, pc>>

FrameEnd(d) ==
  /\ pc[d] = "frame" /\ actions[d] = <<>>
  /\ Goto(d, "poll")
  /\ UNCHANGED <<gen, id, kernel, actions, sessions, bev, dropped, ref, told, work>>

-----------------------------------------------------------------------------
(* A dispatcher's thread: TcpSession::handleEvent, and the end of its loop   *)

\* bufferevent_disable and evutil_closesocket: the number is free again.
HandleEvent(d) ==
  /\ pc[d] = "poll"
  /\ \E c \in eof :
       /\ bev[c] = "on" /\ Home(c) = d /\ Alive(c)
       /\ bev' = [bev EXCEPT ![c] = "closed"]
       /\ open' = open \ {c}
       /\ work' = [work EXCEPT ![d] = [conn |-> c, gen |-> 0]]
  /\ Goto(d, "remove")
  /\ UNCHANGED <<gen, id, number, eof, actions, sessions, dropped, ref, told>>

\* Mutant: the removal is queued with the master instead of the session's dispatcher.
HandleRemoveAtMaster(d) ==
  LET c == work[d].conn IN
  /\ pc[d] = "remove"
  /\ bev' = [bev EXCEPT ![c] = "off"]
  /\ actions' = Pushed(Master(d[1]), id[c], None)
  /\ Goto(d, "poll")
  /\ UNCHANGED <<gen, id, kernel, sessions, dropped, ref, told, work>>

\* Mutant: the disconnect is reported, the removal is not queued.
HandleRemoveForgets(d) ==
  /\ pc[d] = "remove"
  /\ bev' = [bev EXCEPT ![work[d].conn] = "off"]
  /\ Goto(d, "poll")
  /\ UNCHANGED <<gen, id, kernel, actions, sessions, dropped, ref, told, work>>

\* onSessionDisconnected(), then removeSession(id()).
HandleRemove(d) ==
  LET c == work[d].conn IN
  /\ pc[d] = "remove"
  /\ bev' = [bev EXCEPT ![c] = "off"]
  /\ actions' = Pushed(d, id[c], None)
  /\ Goto(d, "poll")
  /\ UNCHANGED <<gen, id, kernel, sessions, dropped, ref, told, work>>

\* The loop that stop() reached returns when its pass is over; what is still in
\* the queue stays there.
LoopEnd(d) ==
  /\ pc[d] = "poll" /\ d[2] < told[d[1]]
  /\ Goto(d, "ended")
  /\ UNCHANGED <<gen, id, kernel, actions, sessions, bev, dropped, ref, told, work>>

-----------------------------------------------------------------------------
(* Peers and application threads                                            *)

PeerCloses(c) ==
  /\ number[c] # None
  /\ eof' = eof \cup {c}
  /\ UNCHANGED <<gen, id, number, open, actions, sessions, bev, dropped, ref, told, work, pc>>

\* getSession(id): the caller keeps the shared pointer until UserReleases.
UserGets(u) ==
  /\ ref[u] = None
  /\ \E d \in Disps : ~Locked(d) /\ \E c \in sessions[d] : ref' = [ref EXCEPT ![u] = c]
  /\ UNCHANGED <<gen, id, kernel, actions, sessions, bev, dropped, told, work, pc>>

UserReleases(u) ==
  /\ ref[u] # None
  /\ ref' = [ref EXCEPT ![u] = None]
  /\ UNCHANGED <<gen, id, kernel, actions, sessions, bev, dropped, told, work, pc>>

\* session->close(): shutdown(socket(), 2) on the number the bufferevent keeps.
UserCloses(u) ==
  /\ ref[u] # None
  /\ eof' = eof \cup {c \in open : number[c] = number[ref[u]]}
  /\ UNCHANGED <<gen, id, number, open, actions, sessions, bev, dropped, ref, told, work, pc>>

\* dispatcher()->removeSession(id()), at most once a session.
UserRemoves(u) ==
  LET c == ref[u] IN
  /\ c # None /\ c \notin dropped /\ ~Locked(Home(c))
  /\ actions' = Pushed(Home(c), id[c], None)
  /\ dropped' = dropped \cup {c}
  /\ UNCHANGED <<gen, id, kernel, sessions, bev, ref, told, work, pc>>

\* stop(): the master first, then each slaver.
Stop(s) ==
  /\ told[s] <= Slavers
  /\ told' = [told EXCEPT ![s] = @ + 1]
  /\ UNCHANGED <<gen, id, kernel, actions, sessions, bev, dropped, ref, work, pc>>

-----------------------------------------------------------------------------
AcceptCallback(s) == Accept(s) \/ AcceptNumber(s) \/ AcceptPush(s)
OnFrame(d) == FrameBegin(d) \/ FrameAttach(d) \/ FrameAttachFails(d) \/ FrameErase(d)
                \/ FrameEnd(d)
DispStep(d) == OnFrame(d) \/ HandleEvent(d) \/ HandleRemove(d) \/ LoopEnd(d)
User(u) == UserGets(u) \/ UserReleases(u) \/ UserCloses(u) \/ UserRemoves(u)

Next == \/ \E s \in Servers : AcceptCallback(s) \/ Stop(s)
        \/ \E d \in Disps : DispStep(d)
        \/ \E c \in Conns : PeerCloses(c)
        \/ \E u \in Users : User(u)

Spec == Init /\ [][Next]_vars

\* A dispatcher's thread never idles while a callback of its loop is due: libevent
\* polls again after each pass and the frame timer fires every _frameInterval ms.
\* Peers and application threads need do nothing.
FairSpec == /\ Spec
            /\ \A s \in Servers : WF_vars(AcceptCallback(s))
            /\ \A d \in Disps : WF_vars(DispStep(d))

-----------------------------------------------------------------------------
(* Properties                                                               *)

\* What the application sees of a session: not yet attached, in _sessions, in it
\* after onSessionDisconnected, or out of it.
Phase(c) == IF bev[c] = "none" THEN "waiting"
            ELSE IF c \notin sessions[Home(c)] THEN "gone"
            ELSE IF bev[c] \in {"on", "closed"} THEN "serving"
            ELSE "leaving"

Life == INSTANCE SessionLife
          WITH phase <- [c \in Conns |-> Phase(c)], asked <- dropped

\* Of the queues, the maps and the callbacks of all dispatchers together the
\* application sees one life per connection: onNewSession once, then in _sessions
\* until onSessionDisconnected or a removal it asked for (tcpServerDispatcher.cpp:54).
LivesOnce == Life!Spec

\* removeSession() queues behind addSession(): a removal, whichever thread asked for
\* it, waits in the queue only after the session it names was attached, in the queue
\* of the dispatcher that attached it.
RemovalFollowsAdd ==
  \A d \in Disps : \A i \in DOMAIN actions[d] :
    actions[d][i].sock = None =>
      \E c \in Conns : /\ id[c] = actions[d][i].id /\ Home(c) = d
                       /\ bev[c] \notin {"none", "failed"}

\* An accepted descriptor is not lost: until handleEvent closes it, it is on its way
\* to one dispatcher, once, or its session is in the map, or attach() failed or the
\* application removed the session (the two ways the code leaks it).
Carried(c) == {s \in Servers : pc[Master(s)] \in {"number", "push"} /\ work[Master(s)].conn = c}
Queued(c) == {i \in DOMAIN actions[Home(c)] : actions[Home(c)][i].sock = c}

DescriptorKept ==
  \A c \in open :
    \/ bev[c] = "none" /\ Carried(c) # {} /\ Queued(c) = {}
    \/ bev[c] = "none" /\ Carried(c) = {} /\ \E i \in Queued(c) : Queued(c) = {i}
    \/ bev[c] = "on" /\ Queued(c) = {} /\ (c \in sessions[Home(c)] \/ c \in dropped)
    \/ bev[c] = "failed"

\* Frames and the accept callback (tcpServer.cpp:139, tcpServerDispatcher.cpp:54)
\* attach every accepted connection, or fail to, unless stop() comes first.
EventuallyAttached ==
  \A c \in Conns : number[c] # None ~> bev[c] # "none" \/ told[ServerOf[c]] > 0

\* A disconnect is always reported, and the session then leaves the map: the removal
\* handleEvent queues (tcpSession.cpp:80) is carried out by a later frame.
EventuallyReleased ==
  \A c \in Conns : (bev[c] = "on" /\ c \in eof /\ c \in sessions[Home(c)])
                     ~> (c \notin sessions[Home(c)] \/ told[ServerOf[c]] > 0)

\* tcpSocket.h:58: close() is to "close connection" of the session it is called on.
\* The number it would shut down, for a session some thread holds, is not the number
\* of another connection by now.
CloseHitsOwn ==
  \A u \in Users : \A c \in open :
    ref[u] # None /\ number[c] = number[ref[u]] => c = ref[u]
=============================================================================
