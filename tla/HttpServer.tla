------------------------------ MODULE HttpServer ------------------------------
(***************************************************************************)
(* One HttpServer: the thread that owns it, the thread of the Loop it is,  *)
(* on which the application's handlers run, and the clients.  The owner    *)
(* registers before start(), as httpExample.cpp does, and destroys the     *)
(* server when it likes; a handler does not register its own path again.   *)
(* Headers are left out.                                                   *)
(*                                                                         *)
(* External, as the code uses it: evhttp, which calls the general callback *)
(* for a path nobody set a callback for and sends no body in answer to a   *)
(* HEAD; printf; the loop, of which Loop says more.                        *)
(***************************************************************************)
EXTENDS Naturals, Sequences

CONSTANTS Paths, Handlers, Requests,
          Contents,    \* what a handler puts into a reply
          Formats,     \* the contents that printf finds a conversion in
          MaxWrites,   \* bound: calls of setBody and setChunk for one request
          MaxRegs,     \* bound: handlers registered
          NONE

Marks == {"OK", "not found", "page", "end", "garbled"}

ASSUME HttpAssumption == /\ NONE \notin Paths \cup Handlers \cup Requests
                         /\ MaxWrites \in Nat /\ MaxRegs \in Nat
ASSUME ContentAssumption == Contents \cap Marks = {} /\ Formats \subseteq Contents

VARIABLES http,       \* _http: "NULL", "up", or "freed" by the destructor
          handlers,   \* _handlers, NONE for a path that is not in it
          regs,       \* handlers registered, for the bound
          loop,       \* the loop's thread: "init", "running", "finished" or "crashed"
          stopping,   \* the exit event of stop() is queued
          owner,      \* the owner: "idle", in listen(), in wait() ("join"), past ~HttpServer
                      \* ("freed") or past ~Loop ("gone")
          state,      \* state[q]: "none", "queued", "active", "done" or "lost"
          path,       \* path[q]: what request q asks for
          head,       \* the requests that are a HEAD
          current,    \* the request in mainCallback
          buffer,     \* _buffer of its HttpRequest
          reply,      \* reply[q]: what evhttp was given to send, in order
          served,     \* history: served[q]: the handler that was called for q
          wrote,      \* history: wrote[q]: what it passed to setBody and setChunk
          chunked,    \* history: the requests whose handler used setChunk
          last        \* history: last[p]: the handler registered last for p

server == <<http, handlers, regs, last>>
thread == <<loop, stopping>>
callback == <<current, buffer, wrote, chunked>>
clients == <<state, path, head, reply, served>>
vars == <<server, thread, owner, callback, clients>>

Text == Contents \cup {"garbled"}
Item == Contents \cup Marks

TypeOK == /\ http \in {"NULL", "up", "freed"}
          /\ handlers \in [Paths -> Handlers \cup {NONE}] /\ regs \in 0..MaxRegs
          /\ last \in [Paths -> Handlers \cup {NONE}]
          /\ loop \in {"init", "running", "finished", "crashed"} /\ stopping \in BOOLEAN
          /\ owner \in {"idle", "listen", "join", "freed", "gone"}
          /\ state \in [Requests -> {"none", "queued", "active", "done", "lost"}]
          /\ path \in [Requests -> Paths \cup {NONE}] /\ head \subseteq Requests
          /\ current \in Requests \cup {NONE} /\ buffer \in Seq(Text)
          /\ reply \in [Requests -> Seq(Item)]
          /\ served \in [Requests -> Handlers \cup {NONE}]
          /\ wrote \in [Requests -> Seq(Contents)] /\ chunked \subseteq Requests
          /\ current # NONE => loop = "running" /\ state[current] = "active"

Init == /\ http = "NULL" /\ regs = 0
        /\ handlers = [p \in Paths |-> NONE] /\ last = [p \in Paths |-> NONE]
        /\ loop = "init" /\ stopping = FALSE /\ owner = "idle"
        /\ state = [q \in Requests |-> "none"] /\ path = [q \in Requests |-> NONE]
        /\ head = {}
        /\ reply = [q \in Requests |-> <<>>] /\ served = [q \in Requests |-> NONE]
        /\ current = NONE /\ buffer = <<>>
        /\ wrote = [q \in Requests |-> <<>>] /\ chunked = {}

-----------------------------------------------------------------------------
(* The owner                                                                *)

\* listen() up to the bind: requests can come.  Where evhttp_new or the bind fails _http
\* is NULL again, and a second listen() returns false.
Listen ==
  /\ owner = "idle" /\ http = "NULL"
  /\ http' = "up" /\ owner' = "listen"
  /\ UNCHANGED <<handlers, regs, last, thread, callback, clients>>

\* evhttp_set_gencb.
ListenGencb ==
  /\ owner = "listen"
  /\ owner' = "idle"
  /\ UNCHANGED <<server, thread, callback, clients>>

\* Mutant: insert() in the place of operator[] leaves the handler that is there.
PutOnce(p, h) == IF handlers[p] = NONE THEN [handlers EXCEPT ![p] = h] ELSE handlers

\* _handlers[path] = handler.  evhttp has, or now gets, the address of the element.
Put(p, h) == [handlers EXCEPT ![p] = h]

\* regHandler() with _http NULL does nothing.
RegHandler(p, h) ==
  /\ regs < MaxRegs /\ http = "up"
  /\ handlers' = Put(p, h) /\ last' = [last EXCEPT ![p] = h]
  /\ regs' = regs + 1
  /\ UNCHANGED <<http, thread, owner, callback, clients>>

\* start(newThread): in this thread it comes back when the loop has ended.
Start ==
  /\ owner = "idle" /\ loop = "init"
  /\ loop' = "running"
  /\ \E newThread \in BOOLEAN : owner' = IF newThread THEN "idle" ELSE "join"
  /\ UNCHANGED <<server, stopping, callback, clients>>

\* wait(): without a thread, or with one that has finished, it returns at once.
Wait ==
  /\ owner = "idle" /\ loop = "running"
  /\ owner' = "join"
  /\ UNCHANGED <<server, thread, callback, clients>>

Joined ==
  /\ owner = "join" /\ loop = "finished"
  /\ owner' = "idle"
  /\ UNCHANGED <<server, thread, callback, clients>>

\* The connections of the requests in states S are closed.
Lost(S) == [q \in Requests |-> IF state[q] \in S THEN "lost" ELSE state[q]]

\* ~HttpServer frees the evhttp and its connections, and the handlers go, whether the
\* loop runs or not;
Destroy ==
  /\ owner = "idle"
  /\ owner' = "freed"
  /\ http' = IF http = "up" THEN "freed" ELSE http
  /\ state' = Lost({"queued"})
  /\ UNCHANGED <<handlers, regs, last, thread, callback, path, head, reply, served>>

\* ~Loop then calls stop(), which is Stop, and wait().
DestroyLoop ==
  /\ owner = "freed" /\ loop # "running"
  /\ owner' = "gone"
  /\ UNCHANGED <<server, thread, callback, clients>>

OwnerStep ==
  \/ Listen \/ ListenGencb \/ Start \/ Wait \/ Joined \/ Destroy \/ DestroyLoop
  \/ owner = "idle" /\ loop = "init" /\ \E p \in Paths, h \in Handlers : RegHandler(p, h)

\* stop() by a thread of the application, by a handler or by ~Loop.
Stop ==
  /\ loop \in {"init", "running"} /\ owner # "gone" /\ ~stopping
  /\ stopping' = TRUE
  /\ UNCHANGED <<server, loop, owner, callback, clients>>

-----------------------------------------------------------------------------
(* The loop's thread                                                        *)

\* Undefined behaviour: what the process does then is not modelled.
Crash ==
  /\ loop' = "crashed" /\ owner' = "gone"
  /\ http' = "freed" /\ current' = NONE /\ buffer' = <<>>
  /\ state' = Lost({"queued", "active"})
  /\ UNCHANGED <<handlers, regs, last, stopping, wrote, chunked, path, head, reply, served>>

\* The server was destroyed under the handler: the evhttp_request is gone.
UseFreed ==
  /\ current # NONE /\ http = "freed"
  /\ Crash

\* genericCallback; before evhttp_set_gencb libevent sends a page of its own.
NotFound(q) ==
  /\ loop = "running" /\ current = NONE
  /\ state[q] = "queued" /\ handlers[path[q]] = NONE
  /\ reply' = [reply EXCEPT ![q] = <<IF owner = "listen" THEN "page" ELSE "not found", "end">>]
  /\ state' = [state EXCEPT ![q] = "done"]
  /\ UNCHANGED <<server, thread, owner, callback, path, head, served>>

\* mainCallback: a new HttpRequest, and the handler is called.
Begin(q) ==
  /\ loop = "running" /\ current = NONE
  /\ state[q] = "queued" /\ handlers[path[q]] # NONE
  /\ current' = q /\ buffer' = <<>>
  /\ state' = [state EXCEPT ![q] = "active"]
  /\ served' = [served EXCEPT ![q] = handlers[path[q]]]
  /\ UNCHANGED <<server, thread, owner, wrote, chunked, path, head, reply>>

\* evbuffer_add_printf(_buffer, content): the content is the format.
Printed(c) == Append(buffer, IF c \in Formats THEN "garbled" ELSE c)

Writes(c) ==
  /\ current # NONE /\ http = "up" /\ Len(wrote[current]) < MaxWrites
  /\ wrote' = [wrote EXCEPT ![current] = Append(@, c)]

setBody(c) ==
  /\ Writes(c)
  /\ buffer' = Printed(c)
  /\ UNCHANGED <<server, thread, owner, current, chunked, clients>>

\* evhttp_send_reply_chunk: all that is in _buffer goes out, before the status line, and
\* nothing of it when the request is a HEAD.
setChunk(c) ==
  /\ Writes(c)
  /\ IF current \in head
     THEN buffer' = Printed(c) /\ UNCHANGED reply
     ELSE buffer' = <<>> /\ reply' = [reply EXCEPT ![current] = @ \o Printed(c)]
  /\ chunked' = chunked \cup {current}
  /\ UNCHANGED <<server, thread, owner, current, state, path, head, served>>

\* A conversion reads an argument that is not there.
PrintFails ==
  /\ Formats # {} /\ current # NONE /\ http = "up" /\ Len(wrote[current]) < MaxWrites
  /\ Crash

HandlerStep ==
  \/ \E c \in Contents : setBody(c) \/ setChunk(c)
  \/ PrintFails
  \/ /\ current # NONE
     /\ \E p \in Paths \ {path[current]}, h \in Handlers : RegHandler(p, h)

\* What evhttp_send_reply_chunk takes of _buffer for q.
Body(q) == IF q \in head THEN <<>> ELSE buffer

\* Mutant: the reply is started and given its chunk, but not ended.
EndForgotten(q) ==
  /\ current = q /\ http = "up"
  /\ reply' = [reply EXCEPT ![q] = @ \o <<"OK">> \o Body(q)]
  /\ current' = NONE /\ buffer' = <<>>
  /\ UNCHANGED <<server, thread, owner, wrote, chunked, state, path, head, served>>

\* Mutant: the HttpRequest is not deleted.
EndUndeleted(q) ==
  /\ current = q /\ http = "up"
  /\ reply' = [reply EXCEPT ![q] = @ \o <<"OK">> \o Body(q) \o <<"end">>]
  /\ state' = [state EXCEPT ![q] = "done"]
  /\ UNCHANGED <<server, thread, owner, callback, path, head, served>>

\* Mutant: the chunk is sent before the reply is started.
EndSwapped(q) ==
  /\ current = q /\ http = "up"
  /\ reply' = [reply EXCEPT ![q] = @ \o Body(q) \o <<"OK">> \o <<"end">>]
  /\ state' = [state EXCEPT ![q] = "done"]
  /\ current' = NONE /\ buffer' = <<>>
  /\ UNCHANGED <<server, thread, owner, wrote, chunked, path, head, served>>

\* The handler has returned: status line, what is in _buffer, end of the reply; the
\* HttpRequest is deleted.
End(q) ==
  /\ current = q /\ http = "up"
  /\ reply' = [reply EXCEPT ![q] = @ \o <<"OK">> \o Body(q) \o <<"end">>]
  /\ state' = [state EXCEPT ![q] = "done"]
  /\ current' = NONE /\ buffer' = <<>>
  /\ UNCHANGED <<server, thread, owner, wrote, chunked, path, head, served>>

\* _run returns: told to stop, or without any event.
LoopEnds ==
  /\ loop = "running" /\ current = NONE /\ (stopping \/ http # "up")
  /\ loop' = "finished"
  /\ UNCHANGED <<server, stopping, owner, callback, clients>>

-----------------------------------------------------------------------------
(* The clients                                                              *)

Ask(q) ==
  /\ http = "up" /\ state[q] = "none"
  /\ \E p \in Paths : path' = [path EXCEPT ![q] = p]
  /\ head' \in {head, head \cup {q}}
  /\ state' = [state EXCEPT ![q] = "queued"]
  /\ UNCHANGED <<server, thread, owner, callback, reply, served>>

\* A client gives up before it is served.
HangUp(q) ==
  /\ state[q] = "queued"
  /\ state' = [state EXCEPT ![q] = "lost"]
  /\ UNCHANGED <<server, thread, owner, callback, path, head, reply, served>>

-----------------------------------------------------------------------------
Answer(q) == NotFound(q) \/ Begin(q) \/ End(q)

Next == \/ OwnerStep \/ Stop
        \/ HandlerStep \/ UseFreed \/ LoopEnds
        \/ \E q \in Requests : Answer(q) \/ Ask(q) \/ HangUp(q)

Spec == Init /\ [][Next]_vars

\* The loop's thread runs and handlers return.  Nobody has to start or to stop it.
FairSpec == Spec /\ WF_vars(LoopEnds \/ UseFreed \/ \E q \in Requests : Answer(q))

-----------------------------------------------------------------------------
(* Properties                                                               *)

\* httpServer.cpp:82-83 stores the handler and gives evhttp the element's address, and
\* evhttp_set_cb refuses a path it has.  Yet a request is given to the handler that was
\* registered last for its path when it is served, also when that replaced another or
\* came from a handler after the request had arrived; 404 is sent when there is none.
RightHandler ==
  [][\A q \in Requests :
       state[q] = "queued" /\ state'[q] \in {"active", "done"} =>
         /\ served'[q] = last[path[q]]
         /\ state'[q] = "done" => last[path[q]] = NONE]_vars

Plain(s) == \A i \in DOMAIN s : s[i] \notin Formats

\* What the reply to q is to be, once it is over.
Expected(q) ==
  IF served[q] = NONE THEN {<<"not found", "end">>, <<"page", "end">>}
  ELSE {<<"OK">> \o (IF q \in head THEN <<>> ELSE wrote[q]) \o <<"end">>}

\* A handler that uses setBody alone, as httpExample.cpp's do, and no conversions, is
\* answered for with its contents, between one status line and one end
\* (httpServer.cpp:104-106, httpRequest.cpp:77-81), or without them when the request is a
\* HEAD; and nothing is sent before it has returned, nor any of another request's.
BodySent ==
  \A q \in Requests \ chunked :
    IF state[q] = "done" THEN Plain(wrote[q]) => reply[q] \in Expected(q)
                         ELSE reply[q] = <<>>

\* What ~HttpServer leaves to its owner's wait(), since ~Loop stops and joins the loop only
\* later: the evhttp and the handlers are not freed (httpServer.cpp:45) while it runs.
FreedAlone == http = "freed" => loop # "running"

\* A request is answered, by a handler or with 404, unless the client hangs up, the loop
\* is not started, it ends, or the server is destroyed.
EveryRequestAnswered ==
  \A q \in Requests :
    state[q] = "queued" /\ loop = "running" ~>
      state[q] \in {"done", "lost"} \/ loop \in {"finished", "crashed"}
=============================================================================
