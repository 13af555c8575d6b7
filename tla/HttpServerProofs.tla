--------------------------- MODULE HttpServerProofs ---------------------------
(***************************************************************************)
(* Proofs about HttpServer, for any paths, handlers, requests and contents *)
(* and any bounds.                                                         *)
(***************************************************************************)
EXTENDS HttpServer, SequenceTheorems, TLAPS

USE HttpAssumption DEF HttpAssumption

\* The element evhttp has the address of holds the handler registered last; a request
\* that has come in asks for a path, and one that no handler took has none yet.
Kept ==
  /\ handlers = last
  /\ \A q \in Requests : /\ state[q] # "none" => path[q] \in Paths
                         /\ state[q] \in {"none", "queued"} => served[q] = NONE

IInv == TypeOK /\ Kept

\* What is written and sent are sequences of contents, of texts and of items.
LEMMA Concats ==
  /\ <<>> \in Seq(Contents) /\ <<>> \in Seq(Text) /\ <<>> \in Seq(Item)
  /\ \A s \in Seq(Text) : s \in Seq(Item)
  /\ \A s \in Seq(Contents), c \in Contents : Append(s, c) \in Seq(Contents)
  /\ \A s \in Seq(Text), c \in Text : Append(s, c) \in Seq(Text)
  /\ \A s, t \in Seq(Item) : s \o t \in Seq(Item)
<1>1. \A s \in Seq(Text) : s \in Seq(Item)
  BY SeqMonotonic, Text \subseteq Item DEF Text, Item, Marks
<1>2. \A s, t \in Seq(Item) : s \o t \in Seq(Item)
  BY ConcatProperties
<1>3. /\ \A s \in Seq(Contents), c \in Contents : Append(s, c) \in Seq(Contents)
      /\ \A s \in Seq(Text), c \in Text : Append(s, c) \in Seq(Text)
  BY AppendProperties
<1> QED
  BY <1>1, <1>2, <1>3, EmptySeq

LEMMA PrintedType == ASSUME IInv, NEW c \in Contents PROVE Printed(c) \in Seq(Text)
BY Concats DEF IInv, TypeOK, Printed, Text

LEMMA OneItem == ASSUME NEW S, NEW x \in S PROVE <<x>> \in Seq(S)
OBVIOUS

LEMMA TwoItems == ASSUME NEW S, NEW x \in S, NEW y \in S PROVE <<x, y>> \in Seq(S)
OBVIOUS

LEMMA Ends ==
  /\ <<"OK">> \in Seq(Item) /\ <<"end">> \in Seq(Item)
  /\ <<"not found", "end">> \in Seq(Item) /\ <<"page", "end">> \in Seq(Item)
<1>1. "OK" \in Item /\ "end" \in Item /\ "not found" \in Item /\ "page" \in Item
  BY DEF Item, Marks
<1> QED
  BY <1>1, OneItem, TwoItems

LEMMA InvInit == Init => IInv
<1> SUFFICES ASSUME Init PROVE IInv
  OBVIOUS
<1>1. reply \in [Requests -> Seq(Item)] /\ wrote \in [Requests -> Seq(Contents)]
  BY Concats DEF Init
<1>2. buffer \in Seq(Text)
  BY Concats DEF Init
<1>3. regs \in 0..MaxRegs
  BY DEF Init
<1>4. TypeOK
  BY <1>1, <1>2, <1>3 DEF Init, TypeOK
<1>5. Kept
  BY DEF Init, Kept
<1> QED
  BY <1>4, <1>5 DEF IInv

LEMMA RegInv == ASSUME NEW p \in Paths, NEW h \in Handlers, IInv, RegHandler(p, h) PROVE IInv'
<1>1. handlers' \in [Paths -> Handlers \cup {NONE}] /\ last' = handlers'
  BY DEF IInv, TypeOK, Kept, RegHandler, Put
<1>2. regs \in 0..MaxRegs /\ regs < MaxRegs /\ regs' = regs + 1
  BY DEF IInv, TypeOK, RegHandler
<1>3. regs' \in 0..MaxRegs
  BY <1>2
<1>4. UNCHANGED <<http, loop, stopping, owner, current, buffer, wrote, chunked, state, path, head,
                  reply, served>>
  BY DEF RegHandler, thread, callback, clients
<1> QED
  BY <1>1, <1>3, <1>4 DEF IInv, TypeOK, Kept

-----------------------------------------------------------------------------
LEMMA OwnerInv == IInv /\ OwnerStep => IInv'
<1> SUFFICES ASSUME IInv, OwnerStep PROVE IInv'
  OBVIOUS
<1> USE DEF IInv, TypeOK, Kept, server, thread, callback, clients
<1>1. CASE Listen
  BY <1>1 DEF Listen
<1>2. CASE Start
  BY <1>2 DEF Start
<1>3. CASE Wait
  BY <1>3 DEF Wait
<1>4. CASE Joined
  BY <1>4 DEF Joined
<1>5. CASE Destroy
  BY <1>5 DEF Destroy, Lost
<1>6. CASE DestroyLoop
  BY <1>6 DEF DestroyLoop
<1>7. ASSUME NEW p \in Paths, NEW h \in Handlers, RegHandler(p, h) PROVE IInv'
  BY <1>7, RegInv
<1>8. CASE ListenGencb
  BY <1>8 DEF ListenGencb
<1> QED
  BY <1>1, <1>2, <1>3, <1>4, <1>5, <1>6, <1>7, <1>8 DEF OwnerStep

LEMMA CrashInv == IInv /\ Crash => IInv'
<1> SUFFICES ASSUME IInv, Crash PROVE IInv'
  OBVIOUS
<1>1. TypeOK'
  BY Concats DEF IInv, TypeOK, Crash, Lost
<1>2. Kept'
  BY DEF IInv, TypeOK, Kept, Crash, Lost
<1> QED
  BY <1>1, <1>2 DEF IInv

LEMMA HandlerInv == IInv /\ HandlerStep => IInv'
<1> SUFFICES ASSUME IInv, HandlerStep PROVE IInv'
  OBVIOUS
<1> USE DEF IInv, TypeOK, Kept, server, thread, callback, clients
<1>0. ASSUME NEW c \in Contents, Writes(c)
      PROVE  /\ current \in Requests /\ Printed(c) \in Seq(Text)
             /\ wrote' \in [Requests -> Seq(Contents)]
  <2>1. current \in Requests
    BY <1>0 DEF Writes
  <2>2. Append(wrote[current], c) \in Seq(Contents)
    BY <2>1, Concats
  <2>3. Printed(c) \in Seq(Text)
    BY PrintedType
  <2> QED
    BY <1>0, <2>1, <2>2, <2>3 DEF Writes
<1>1. ASSUME NEW c \in Contents, setBody(c) PROVE IInv'
  BY <1>0, <1>1 DEF setBody
<1>2. ASSUME NEW c \in Contents, setChunk(c) PROVE IInv'
  <2>1. current \in Requests /\ Printed(c) \in Seq(Text) /\ Printed(c) \in Seq(Item)
    BY <1>0, <1>2, Concats DEF setChunk
  <2>2. reply[current] \o Printed(c) \in Seq(Item)
    BY <2>1, Concats
  <2>3. CASE current \in head
    BY <1>0, <1>2, <2>1, <2>3 DEF setChunk
  <2>4. CASE current \notin head
    <3>0. buffer' = <<>> /\ reply' = [reply EXCEPT ![current] = reply[current] \o Printed(c)]
      BY <1>2, <2>4 DEF setChunk
    <3>1. reply' \in [Requests -> Seq(Item)] /\ buffer' \in Seq(Text)
      BY <2>1, <2>2, <3>0, Concats
    <3> QED
      BY <1>0, <1>2, <2>1, <3>1 DEF setChunk
  <2> QED
    BY <2>3, <2>4
<1>3. ASSUME NEW p \in Paths, NEW h \in Handlers, RegHandler(p, h) PROVE IInv'
  BY <1>3, RegInv
<1>4. CASE PrintFails
  BY <1>4, CrashInv DEF PrintFails
<1> QED
  BY <1>1, <1>2, <1>3, <1>4 DEF HandlerStep

LEMMA RequestInv ==
  ASSUME NEW q \in Requests, IInv, Answer(q) \/ Ask(q) \/ HangUp(q) PROVE IInv'
<1> USE DEF IInv, TypeOK, Kept, server, thread, callback, clients
<1>1. CASE NotFound(q)
  BY <1>1, Ends DEF NotFound
<1>2. CASE Begin(q)
  BY <1>2, Concats DEF Begin
<1>3. CASE End(q)
  <2>1. Body(q) \in Seq(Item) /\ reply[q] \in Seq(Item)
    BY Concats DEF Body
  <2>2. reply[q] \o <<"OK">> \in Seq(Item)
    BY <2>1, Ends, Concats
  <2>3. reply[q] \o <<"OK">> \o Body(q) \in Seq(Item)
    BY <2>1, <2>2, Concats
  <2>4. reply[q] \o <<"OK">> \o Body(q) \o <<"end">> \in Seq(Item)
    BY <2>3, Ends, Concats
  <2>5. reply' \in [Requests -> Seq(Item)]
    BY <1>3, <2>4 DEF End
  <2> QED
    BY <1>3, <2>5, Concats DEF End
<1>4. CASE Ask(q)
  BY <1>4 DEF Ask
<1>5. CASE HangUp(q)
  BY <1>5 DEF HangUp
<1> QED
  BY <1>1, <1>2, <1>3, <1>4, <1>5 DEF Answer

LEMMA InvStep == IInv /\ [Next]_vars => IInv'
<1> SUFFICES ASSUME IInv, [Next]_vars PROVE IInv'
  OBVIOUS
<1> USE DEF server, thread, callback, clients
<1>1. CASE Stop
  BY <1>1 DEF Stop, IInv, TypeOK, Kept
<1>2. CASE LoopEnds
  BY <1>2 DEF LoopEnds, IInv, TypeOK, Kept
<1>3. CASE UNCHANGED vars
  BY <1>3 DEF vars, IInv, TypeOK, Kept
<1>4. CASE UseFreed
  BY <1>4, CrashInv DEF UseFreed
<1> QED
  BY <1>1, <1>2, <1>3, <1>4, OwnerInv, HandlerInv, RequestInv DEF Next

-----------------------------------------------------------------------------
\* A request that is taken up is given to the handler registered last, or to none.
LEMMA TakenRight ==
  ASSUME IInv, [Next]_vars, NEW q \in Requests,
         state[q] = "queued", state'[q] \in {"active", "done"}
  PROVE  /\ served'[q] = last[path[q]]
         /\ state'[q] = "done" => last[path[q]] = NONE
<1> USE DEF IInv, TypeOK, Kept, server, thread, callback, clients
<1>1. ASSUME state' = state \/ state'[q] \in {"queued", "lost"} PROVE FALSE
  BY <1>1
<1>0. ~Destroy /\ ~Crash
  BY <1>1 DEF Destroy, Crash, Lost
<1>2. PICK r \in Requests : Answer(r) \/ Ask(r) \/ HangUp(r)
  BY <1>0, <1>1 DEF Next, OwnerStep, Listen, ListenGencb, Start, Wait, Joined, DestroyLoop,
              RegHandler, Stop, HandlerStep, setBody, setChunk, PrintFails, UseFreed, LoopEnds, vars
<1>3. CASE NotFound(r)
  BY <1>3 DEF NotFound
<1>4. CASE Begin(r)
  BY <1>4 DEF Begin
<1>5. CASE End(r)
  BY <1>5 DEF End
<1>6. CASE Ask(r) \/ HangUp(r)
  BY <1>6 DEF Ask, HangUp
<1> QED
  BY <1>2, <1>3, <1>4, <1>5, <1>6 DEF Answer

-----------------------------------------------------------------------------
\* Of a request whose handler does not use setChunk nothing is sent before it has returned,
\* and _buffer holds what it wrote, if that is plain.
Told(q) ==
  /\ state[q] \in {"none", "queued", "lost"} => reply[q] = <<>>
  /\ state[q] \in {"none", "queued"} => wrote[q] = <<>>
  /\ state[q] = "active" =>
       /\ current = q /\ served[q] # NONE /\ reply[q] = <<>>
       /\ Plain(wrote[q]) => buffer = wrote[q]
  /\ state[q] = "done" /\ Plain(wrote[q]) => reply[q] \in Expected(q)

AllTold == \A q \in Requests : q \notin chunked => Told(q)

\* printf copies a text without a conversion.
LEMMA PlainPrinted ==
  ASSUME IInv, NEW w \in Seq(Contents), NEW c \in Contents, Plain(Append(w, c))
  PROVE  Plain(w) /\ Printed(c) = Append(buffer, c)
<1>1. /\ DOMAIN Append(w, c) = 1..Len(w) + 1 /\ DOMAIN w = 1..Len(w) /\ Len(w) \in Nat
      /\ \A i \in 1..Len(w) : Append(w, c)[i] = w[i]
      /\ Append(w, c)[Len(w) + 1] = c
  BY AppendProperties, LenProperties
<1> QED
  BY <1>1 DEF Plain, Printed

LEMMA ToldWrites ==
  ASSUME IInv, AllTold, NEW c \in Contents, setBody(c) \/ setChunk(c)
  PROVE  AllTold'
<1>1. /\ current \in Requests /\ state[current] = "active"
      /\ wrote' = [wrote EXCEPT ![current] = Append(@, c)]
      /\ UNCHANGED <<current, state, served, head>>
  BY DEF setBody, setChunk, Writes, IInv, TypeOK, clients
<1>2. ASSUME NEW q \in Requests, q # current, q \notin chunked' PROVE Told(q)'
  <2>1. q \notin chunked
    BY <1>2 DEF setBody, setChunk
  <2>2. Told(q) /\ state[q] # "active"
    BY <1>1, <1>2, <2>1 DEF AllTold, Told
  <2>3. reply'[q] = reply[q] /\ wrote'[q] = wrote[q]
    BY <1>1, <1>2 DEF setBody, setChunk, clients, IInv, TypeOK
  <2> QED
    BY <1>1, <2>2, <2>3 DEF Told, Expected
<1>3. ASSUME NEW q \in Requests, q = current, q \notin chunked' PROVE Told(q)'
  <2>1. setBody(c) /\ q \notin chunked /\ reply' = reply /\ buffer' = Printed(c)
    BY <1>1, <1>3 DEF setChunk, setBody, clients
  <2>2. /\ state[q] = "active" /\ served[q] # NONE /\ reply[q] = <<>>
        /\ Plain(wrote[q]) => buffer = wrote[q]
    BY <1>1, <1>3, <2>1 DEF AllTold, Told
  <2>3. wrote'[q] = Append(wrote[q], c) /\ wrote[q] \in Seq(Contents)
    BY <1>1, <1>3 DEF IInv, TypeOK
  <2>4. ASSUME Plain(wrote'[q]) PROVE buffer' = wrote'[q]
    BY <2>1, <2>2, <2>3, <2>4, PlainPrinted
  <2> QED
    BY <1>1, <1>3, <2>1, <2>2, <2>4 DEF Told
<1> QED
  BY <1>2, <1>3 DEF AllTold

LEMMA EmptyConcat == \A s \in Seq(Item) : <<>> \o s = s
OBVIOUS

LEMMA ToldRequest ==
  ASSUME IInv, AllTold, NEW r \in Requests, Answer(r) \/ Ask(r) \/ HangUp(r)
  PROVE  AllTold'
<1>0. chunked' = chunked /\ wrote' = wrote
  BY DEF Answer, NotFound, Begin, End, Ask, HangUp, callback
<1>1. ASSUME NEW q \in Requests, q # r, Told(q) PROVE Told(q)'
  <2>1. /\ state'[q] = state[q] /\ reply'[q] = reply[q] /\ served'[q] = served[q]
        /\ q \in head' <=> q \in head
        /\ (current # q /\ current' # q) \/ UNCHANGED <<current, buffer>>
    <3> USE DEF IInv, TypeOK
    <3>1. CASE NotFound(r)
      BY <1>1, <3>1 DEF NotFound, callback
    <3>2. CASE Begin(r)
      BY <1>1, <3>2 DEF Begin
    <3>3. CASE End(r)
      BY <1>1, <3>3 DEF End
    <3>4. CASE Ask(r) \/ HangUp(r)
      BY <1>1, <3>4 DEF Ask, HangUp, callback
    <3> QED
      BY <3>1, <3>2, <3>3, <3>4 DEF Answer
  <2> QED
    BY <1>0, <1>1, <2>1 DEF Told, Expected
<1> SUFFICES ASSUME Told(r) PROVE Told(r)'
  BY <1>0, <1>1 DEF AllTold
<1>2. ASSUME NotFound(r) PROVE Told(r)'
  <2>1. state'[r] = "done" /\ served'[r] = NONE
    BY <1>2 DEF NotFound, IInv, TypeOK, Kept
  <2>2. reply'[r] \in {<<"not found", "end">>, <<"page", "end">>}
    BY <1>2 DEF NotFound, IInv, TypeOK
  <2> QED
    BY <2>1, <2>2 DEF Told, Expected
<1>3. ASSUME Begin(r) PROVE Told(r)'
  BY <1>3 DEF Begin, Told, IInv, TypeOK
<1>4. ASSUME End(r) PROVE Told(r)'
  <2>1. /\ state[r] = "active" /\ reply[r] = <<>> /\ served[r] # NONE
        /\ Plain(wrote[r]) => buffer = wrote[r]
        /\ state'[r] = "done" /\ served' = served /\ head' = head
        /\ reply'[r] = reply[r] \o <<"OK">> \o Body(r) \o <<"end">>
    BY <1>4 DEF End, Told, IInv, TypeOK
  <2>2. reply'[r] = <<"OK">> \o Body(r) \o <<"end">>
    BY <2>1, EmptyConcat, Ends
  <2>3. Plain(wrote[r]) => reply'[r] = <<"OK">> \o (IF r \in head THEN <<>> ELSE wrote[r]) \o <<"end">>
    BY <2>1, <2>2 DEF Body
  <2> QED
    BY <1>0, <2>1, <2>3 DEF Told, Expected
<1>5. ASSUME Ask(r) PROVE Told(r)'
  BY <1>5 DEF Ask, callback, Told, IInv, TypeOK
<1>6. ASSUME HangUp(r) PROVE Told(r)'
  BY <1>6 DEF HangUp, callback, Told, IInv, TypeOK
<1> QED
  BY <1>2, <1>3, <1>4, <1>5, <1>6 DEF Answer

\* What is lost was not answered.
LEMMA ToldLost ==
  ASSUME IInv, AllTold, Destroy \/ Crash PROVE AllTold'
<1>1. UNCHANGED <<reply, wrote, chunked, served, head>>
  BY DEF Destroy, Crash, callback
<1>2. ASSUME NEW q \in Requests, Told(q) PROVE Told(q)'
  <2>1. \/ state'[q] = "lost" /\ state[q] \in {"queued", "active"}
        \/ state'[q] = state[q] /\ (state[q] # "active" \/ UNCHANGED <<current, buffer>>)
    BY DEF Destroy, Crash, Lost, callback, IInv, TypeOK
  <2> QED
    BY <1>1, <1>2, <2>1 DEF Told, Expected
<1> QED
  BY <1>1, <1>2 DEF AllTold

LEMMA ToldStep == IInv /\ AllTold /\ [Next]_vars => AllTold'
<1> SUFFICES ASSUME IInv, AllTold, [Next]_vars PROVE AllTold'
  OBVIOUS
<1>1. ASSUME UNCHANGED <<callback, clients>> PROVE AllTold'
  BY <1>1 DEF callback, clients, AllTold, Told, Expected
<1>2. ASSUME NEW c \in Contents, setBody(c) \/ setChunk(c) PROVE AllTold'
  BY <1>2, ToldWrites
<1>3. ASSUME NEW r \in Requests, Answer(r) \/ Ask(r) \/ HangUp(r) PROVE AllTold'
  BY <1>3, ToldRequest
<1>4. CASE OwnerStep
  BY <1>1, <1>4, ToldLost DEF OwnerStep, Listen, ListenGencb, Start, Wait, Joined, DestroyLoop,
                              RegHandler
<1>5. CASE Stop \/ LoopEnds \/ UNCHANGED vars
  BY <1>1, <1>5 DEF Stop, LoopEnds, vars
<1>6. CASE HandlerStep \/ UseFreed
  BY <1>1, <1>2, <1>6, ToldLost DEF HandlerStep, RegHandler, PrintFails, UseFreed
<1> QED
  BY <1>3, <1>4, <1>5, <1>6 DEF Next

-----------------------------------------------------------------------------
\* The fields of the server and the replies keep their types, and there is a current
\* request only while the loop runs (httpServer.cpp:92-109).
THEOREM TypeCorrect == Spec => []TypeOK
<1>1. IInv => TypeOK
  BY DEF IInv
<1> QED
  BY <1>1, InvInit, InvStep, PTL DEF Spec

\* Any number of requests and registrations, from the owner and from handlers: a request
\* is given to the handler registered last for its path (httpServer.cpp:82-83).
THEOREM LastHandlerServes == Spec => RightHandler
<1>1. IInv /\ [Next]_vars =>
        [\A q \in Requests :
           state[q] = "queued" /\ state'[q] \in {"active", "done"} =>
             /\ served'[q] = last[path[q]]
             /\ state'[q] = "done" => last[path[q]] = NONE]_vars
  BY TakenRight
<1> QED
  BY <1>1, InvInit, InvStep, PTL DEF Spec, RightHandler

\* Whatever else handlers register, clients ask for and the owner does: a handler that uses
\* setBody alone, without conversions, is answered for with exactly what it wrote
\* (httpRequest.cpp:77-81, httpServer.cpp:104-106).
THEOREM BodiesSent == Spec => []BodySent
<1>1. Init => AllTold
  BY DEF Init, AllTold, Told
<1>2. IInv /\ AllTold => BodySent
  BY DEF BodySent, AllTold, Told, IInv, TypeOK
<1> QED
  BY <1>1, <1>2, InvInit, InvStep, ToldStep, PTL DEF Spec
=============================================================================
