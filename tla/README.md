# translib: a verification development

translib is a C++ wrapper over libevent: an event loop that can own a thread, timers and a manager of
timers, a multi-threaded TCP server, a TCP client, TPKT framing, signalling over an eventfd and a small
HTTP server. This directory holds TLA+ models of it, the TLC configurations that check them and proofs
that TLAPS checks. Paths below are relative to the repository; `loop.cpp` stands for
`src/translib/loop.cpp`, `loop.h` for `include/translib/loop.h`, and so on.

Contents: [1 the system](#1-the-system), [2 plan](#2-plan), [3 the models](#3-the-models),
[4 the runs](#4-the-runs), [5 what is proved](#5-what-is-proved),
[6 what disagrees with the code's own words](#6-what-disagrees-with-the-codes-own-words),
[7 not modelled](#7-not-modelled).

## 1 The system

### Components

| component | state | operations | correct when |
|---|---|---|---|
| **Loop** (`loop.cpp`) | `_status` Init/Running/Finished, `_thread`, `_base`; a process-wide registry | `start(newThread)`, `stop(waiting)`, `wait()`, `status()`, destructor; hooks `onBeforeStart/Loop`, `onAfterLoop/Stop`; `get`, `curLoop` | it runs once, by one thread; `status()` tells the truth; a `stop` is never lost; the active callbacks run unless `stop(false)`; the base is freed when nobody is in it; the destructor ends |
| **FrameLoop** (`frameLoop.cpp`) | a timer and its interval | a `Loop` that calls `onFrame` every interval; `setFrameInterval` | the frames recur as long as the loop runs |
| **TcpServer** (`tcpServer.cpp`) | `_master`, `_slavers`, `_listener`, the static `s_sessionIdGenerator` | `listen`, `stop`, `wait`; the accept callback numbers a connection and hands it to a dispatcher | every accepted connection gets an id of its own and reaches one dispatcher, once |
| **TcpServerDispatcher** (`tcpServerDispatcher.cpp`) | `_actions`, `_sessions`, one recursive `_mutex` | `addSession`, `removeSession`, `getSession` from any thread; `onFrame` empties `_actions` on its own | adds and removals take effect in order and none is lost; no session returns; no descriptor is lost |
| **TcpSession** (`tcpSession.cpp`) | id, dispatcher, a bufferevent | `attach`, `handleEvent`, the callbacks | `onNewSession` once, `onSessionDisconnected` at most once, out of the map after it |
| **TcpSocket** (`tcpSocket.cpp`) | the bufferevent, `_isClosing` | `send`, `close(waiting)`, the input buffer, `checkClosing` | a waiting close closes, and only when the output is empty |
| **Timer** (`timer.cpp`) | `_event`, `_round`, `_curRound`, `_handler`, `_interval` | `startRounds`, `startOnce`, `startForever`, `startCB`, `startAfter`, `stop`; `eventHandler` on the loop | the handler is called as often as asked and never after the destructor; `isFinished()` is right |
| **TimerManager** (`timerManager.cpp`) | `t_map` under `mtx`, an audit timer, either a loop of its own (`instance()`) or the application's | `getTimer`, `killTimer`, `auditTimer` | finished timers leave the map, live ones stay in it, `killTimer` returns |
| **TcpClient** (`tcpClient.cpp`) | a bufferevent that owns its descriptor, `_isConnected` | `connect`, `handleEvent`, and TcpSocket's | one `onDisconnected` per connection, the descriptor is closed once, a reconnect starts afresh |
| **TPKT** (`tcpServerTPKT.h`, `tcpClientTPKT.h`) | none beyond the socket's buffers | `sendWithTPKT`, the receive loops | what one side sends is what the other side's `onRead` gets, frame by frame |
| **EventFd** (`eventServer.h`, `eventClient.h`) | the kernel's counter | `send`; the read callback | every signal sent is seen by some later read |
| **HttpServer** (`httpServer.cpp`, `httpRequest.cpp`) | `_http`, `_handlers`; a `_buffer` per request | `listen`, `regHandler`, the two evhttp callbacks; `setBody`, `setChunk` of a request | a request goes to the handler registered last for its path, and the reply holds what that wrote, once and in order; every request is answered |
| **logger** (`src/logger`) | one mutex | formatted output | (output only) |

### How they interact

* A `FrameLoop` is a `Loop` with a `Timer`; a `TcpServerDispatcher` and an `HttpServer` are loops too.
  All their work is done by libevent's callbacks, one at a time, on the thread of that loop.
* The master dispatcher of a `TcpServer` accepts. It passes the descriptor through `_actions` (a queue
  under a mutex) to the dispatcher chosen by the id modulo the number of slavers, whose next frame makes
  the `TcpSession`. `handleEvent` of a session queues its removal there, and so may every application
  thread.
* Application threads share with the loops: `Loop`'s fields (no lock), a dispatcher's queue and map
  (`_mutex`), a timer's fields (no lock), a manager's map (`mtx`), a socket's bufferevent (libevent's
  lock) and `_isClosing` (no lock).
* Objects live by `shared_ptr`: a session by the map and by application threads, a timer by the
  manager's map and by application threads. The kernel's descriptor numbers outlive neither.

### What is hard about it

1. **Unlocked state.** `Loop::_status`, `Timer`'s fields and `TcpSocket::_isClosing` are tested in one
   thread and changed in another, with a blocking call in between (`join`, `event_free`).
2. **Order of steps of one function that another thread can see**: `event_add` before the fields it
   depends on (`timer.cpp:71`), the loop's thread before the event that keeps it alive
   (`timerManager.h:45`), `_event` before `_curRound` (`timer.cpp:106-114`).
3. **Names that outlive what they name**: descriptor numbers, session ids, timer ids, bare pointers.
4. **Order across queues**: adds and removals from several threads, carried out by frames.
5. **Ends**: `stop` before the loop runs, a loop that ends by itself, destructors against callbacks.

PROJECT.json's `hazards` lists each of these at its line, with the property that watches it or the reason
why none does yet.

## 2 Plan

In this order, the most important behaviour first:

| | module | what | state |
|---|---|---|---|
| 1 | `Loop`, refining `LoopPromise` | everything else runs on it | modelled, checked, safety proved |
| 2 | `TcpServer` (master, dispatchers, sessions composed), refining `SessionLife` | the library's core | modelled, checked, safety proved |
| 3 | `TimerManager` (timers, their manager and audit composed) | shared timers | modelled, checked, safety proved |
| 4 | `TcpSocket`: `send`, `close(waiting)`, `checkClosing` against the draining output | the deferred close of `tcpSocket.cpp:80` | modelled, checked, safety proved |
| 5 | `TimerManagerProofs` | `TypeOK` for every use; all safety properties of `TimerManager` for careful use | proved |
| 6 | `TcpClient` with `Tpkt`: connect, close, reconnect; frames over a stream | end to end: what is sent is what arrives | modelled, checked, safety proved, for the client's own loop as caller |
| 7 | `EventFd`, refining `SignalPromise` | the counter at its limit, racing readers, servers killed and replaced | modelled, checked, safety proved |
| 8 | `HttpServer`: registration against dispatch, the reply, tear-down | the other user of `Loop` | modelled, checked, safety proved |
| 9 | `TpktReply`: the client's `onRead` | the other direction of 6 | modelled; a violation run |
| 10 | descriptor numbers (`BEV_OPT_CLOSE_ON_FREE`) and callers on other threads in `TcpClient` | double close, use after free, interleaved frames | to do |
| 11 | extensions: the destructors of classes derived from `Loop`, `Loop::get`, two servers on one id generator, dispatchers whose callbacks look each other's sessions up | composes 1, 2 and 8 | to do |

Abstract specifications worth stating: `LoopPromise`, `SessionLife` and `SignalPromise` are there; `TimerManager`
deserves one of the same kind (a timer's life as its owner sees it: waiting, due n times, silent), and
`TcpClient` has the obvious one (a sequence of messages, which `FramesIntact` states directly). None of the modules meant
for proofs uses a RECURSIVE operator.

## 3 The models

Each module keeps the code's names for state and functions. A member function is one action where no
other thread can observe an intermediate state, and is otherwise cut at every read or write of shared
memory that another thread can interleave with; `pc` says where each thread is. Everything outside `src/`
(libevent, the kernel, `std::thread`, `std::mutex`) is modelled by what the code relies on and is marked
external in PROJECT.json's `map`. Definitions commented "Mutant" are the deliberately wrong variants that
show that a property can fail; no specification uses them.

### Loop

One `Loop` object, the application's threads `Users` and the threads `start(true)` can make.

| code | model |
|---|---|
| `_status`, `_thread` | `status`, `thread` (and `joinable`: the `std::thread`s not yet joined) |
| the `event_base` | `base`: registered events, active callbacks, the queued exit event, `event_gotterm`, `event_break`, whether a thread is in it, whether it is freed |
| `start` | `StartCheck` (test), `StartSpawn` (`new std::thread`), `StartStore` (`_thread = ...`); `start(false)` runs in the caller |
| `_run` | `RunBegin`, `LoopEnter`, `LoopDispatch`, `LoopCallback`, `LoopReturn`, `RunEnd` |
| `stop`, `wait` | `StopCheck`/`StopAct`, `WaitCheck`/`WaitJoin` |
| `~Loop` | `DtorBegin`, then `stop` and `wait` again, `DtorDelete`, `DtorFree` |

`LoopCallback` is an arbitrary application callback: it may register or delete events and may call
`stop`. Undefined behaviour ends the run: `fault` is `"join"` for the second join of a thread,
`"terminate"` for the deletion of a joinable one. The owner destroys the object when no other thread is
in one of its functions, as C++ requires.

`LoopPromise` is the abstract loop: nobody is in it, then one thread, then nobody ever again, with
`status()` saying which, and the base freed only outside. `KeepsPromise` is its specification with
`inside` mapped to the threads in `event_base_loop`.

### TcpServer

`Servers` (each with a master and `Slavers` dispatchers), connections `Conns` and application threads.

| code | model |
|---|---|
| `s_sessionIdGenerator` | `gen`; its unlocked `++` is the pair `Accept` (read) and `AcceptNumber` (write) |
| `listenEventCallback` | `Accept`, `AcceptNumber`, `AcceptPush` |
| `_actions`, `_sessions`, `_mutex` | `actions[d]`, `sessions[d]`, `Locked(d)` |
| `onFrame` | `FrameBegin`, then one `FrameAttach`, `FrameAttachFails` or `FrameErase` per action, `FrameEnd`; the mutex is held throughout |
| `attach` / `onNewSession` | part of `FrameAttach`; the application may ask for the removal at once |
| `handleEvent` | `HandleEvent` (disable, close the descriptor), `HandleRemove` (`onSessionDisconnected`, `removeSession`) |
| `getSession`, `close`, `removeSession` in an application thread | `UserGets`, `UserCloses`, `UserRemoves`, `UserReleases` |
| `TcpServer::stop` | `Stop`, one dispatcher after another; `LoopEnd` ends the dispatcher's loop |
| the kernel | `number`, `open`, `eof`: a closed number can be handed out again |

Two choices need a word. A session is identified by its connection, so `sessions[d]` is a set of
connections and `Erased` removes those whose *id* is the one named; that is what a map keyed by ids does,
also when two of them had the same id. And `FrameBegin` is enabled only when the queue is not empty: the
test `_actions.empty()` outside the mutex (`tcpServerDispatcher.cpp:56`) otherwise returns without an
effect. Received data is left out: no property of the server depends on it.

`SessionLife` is what the application sees of one connection: `waiting`, `serving`, `leaving`, `gone`,
in that order, and `serving` to `gone` only if the application asked for it. `LivesOnce` is its
specification with `phase` computed from the bufferevent's state and the map.

### TcpSocket

One connected `TcpSocket`, as a `TcpSession` has it: `send` and `close` by application threads and by
callbacks on the loop's thread, against that thread's own work.

| code | model |
|---|---|
| `_isClosing` | `closing` |
| the bufferevent | `output` (in chunks), `enabled` (EV_WRITE), `due` (a deferred write callback), all behind its own lock |
| `send` | `SendTest`, `SendWrite` |
| `close` | `CloseTest` (reads the output's length), then `CloseSet`, or `closeImpl` = `CloseImpl`, `CloseDisable`, `CloseShutdown` |
| `checkClosing` | `WriteCallback` (reads `_isClosing`), `CheckLength`, `CheckClear`, then `closeImpl` |
| libevent writing the buffer | `Flush`: any part of it; the callback is due when it is empty |
| `handleEvent` | `HandleEvent`, at any time: the peer may close |

`accepted`, `written`, `asked` and `owed` are history: how much `send` took, how much went out, what
`close` was called with, and how much had been taken when it was first called. `MaxSends` bounds the
chunks; at the bound `bufferevent_write` fails, which it may. What `close` does to a descriptor that
`handleEvent` has closed is not here but in `TcpServer` (`UserCloses`).

### Tpkt and TcpClient

A `TcpClientTPKT` that connects, sends frames, closes and connects again, all in callbacks of its own loop
as in `tcpExample.cpp`, and the session of a `TcpServerTPKT` at the other end of each of its connections.

| code | model |
|---|---|
| `_bev`, `_isConnected`, `_isClosing` | `bev` (the number of the connection it is for, 0 for NULL), `isConnected`, `closing` |
| the bufferevent | `output` (bytes), `enabled`, and the deferred callbacks `pending` (connected) and `due` (write) |
| `connect`, `close`, `closeImpl` | `connect`, `close`, `closeImpl` |
| `checkClosing` | `checkClosing`, called by `WriteCallback` |
| `sendWithTPKT` | `sendWithTPKT`: header and payload, two `send()`s that nothing of this loop comes between |
| the application's callbacks on the loop | `Tick`: any of `connect`, `sendWithTPKT`, `close` |
| `handleEvent` | `Connected`, after which `_isConnected` may still be false (what `errno` says is anything); `HandleEvent` up to `onDisconnected`, in which the application may call, then `HandleFree` |
| `TcpServerTPKT::onSessionRead` | `Tpkt!Taken`, a recursive function from the input to the payloads given to `onRead` and the bytes left; `Receive` applies it after each read |
| the network | `net[k]`, `session[k]`, `wire[k]`: connections are established or refused, bytes arrive in any pieces, the server closes or the connection breaks |

A byte has `Base` values (256 in the code, 2 in the run), so that three bytes of length overflow early; the
layout of the header is the code's. Payloads fit the header, which `sendWithTPKT` does not test. `Taken`
stops at bytes that are no frames and sets `lost`: what the loop does from there on is not modelled,
because `FramesIntact` says that it does not get there. `HandleFree` leaves `closing` as it is, as the code
does; a reconnected client can therefore refuse to send.

### TimerManager

The timers of one manager, the loop's thread and the application's threads.

| code | model |
|---|---|
| `_event`, `_round`, `_curRound`, `_handler` | `event` (which of the events in `heap`), `round`, `cur`, `handler` |
| `startRounds` and its callers | `Start` (up to `event_new`), `StartAdd` (`event_add`, which may fail: `reset()`), `StartRound`, `StartHandler`; `startCB` and `startAfter` differ in the handler they set, and `StartCB` overwrites `_CBHandler` first |
| `reset` | `Reset` (read `_event`), `ResetFree` (`event_free`, which waits for the running callback unless called by it), `ResetNull`, `ResetCur` |
| `eventHandler` | `Fire` (copies `_handler`), `Count`, `Last` (`event_del`) and `reset`, `Call`, `CallReturn` |
| the lambdas of `startCB`, `startAfter` | `CBStop`, which comes after the calls of the application's callback; `AfterLambda` |
| `Timer::ptr_p` | `hold`: `Take` hands a pointer on, `Drop` lets go of it |
| `~Timer` | `LetGo` of the last pointer, `reset`, `Delete` |
| `getTimer`, `killTimer`, `auditTimer`, `~TimerManager` | `GetTimer`/`Emplace`, `KillTimer`/`Erase`/`Unlock`, `AuditFire`/`Audit`, `DtorAudit`/`DtorMap` |
| `mtx` | `mtx`; a thread that has begun waits for it in `"emplace"`, `"erase"` or `"audit"`, and does nothing else |
| `instance()` | the initial state in which `audit = "off"`: `AuditAdd` comes after the loop's thread |

A handler is an arbitrary sequence of the calls an application thread can make, on the loop's thread.
`fault` records undefined behaviour: a freed event used, a destroyed timer written, an empty
`std::function` called, the `_CBHandler` that is running overwritten. `Forever` stands for `uint32_t(-1)`; a
count stops one below it, so a timer that runs for ever does not end. Timers stand for their ids, which the
manager makes unique by a counter under `mtx`. Rounds are at least 1: with 0 the timer has no promise to keep.
The user data that `startCB` passes through is left out. A `Timer::ptr_p` is held by one thread at a time, as in
`timerManagerExample.cpp`, but may be handed on (`Take`), also to a handler and to the timer's own callback: two
threads that use one timer at once are not modelled.

Five constants say what the application does, because the class is not safe for all of it:
`Managers`, the threads that call `getTimer` and `killTimer`; `KillAny`, whether application threads stop timers
that may be in their last round; `Overtake`, whether an event may fire before the thread that starts it has
left `startRounds` (with an interval of milliseconds it normally does not); `Restart`, whether threads
other than the loop's start a timer again; `SelfStop`, whether a callback of `startCB` that destroyed its own
timer still returns -1 (`timer.h:96` then calls `stop()` on it). With the last four FALSE the properties hold.
`TimersKill.cfg`, `TimersRestart.cfg` and `TimersSelf.cfg` show what happens otherwise.

`Embrace` is the deadlock of `timerManager.cpp:89`: a thread in `killTimer` has `mtx` and waits in `event_free` for
a handler that waits for `mtx`. It is reached in the run; `KillReturns` says that it is the only way in which
`killTimer` does not return, `FiniteSwept` excepts it, and `TimersDeadlock.cfg` shows it.

### TpktReply

The other direction of the same connection: a thread that calls `TcpServerTPKT::sendWithTPKT`, and
`TcpClientTPKT::onRead`.

| code | model |
|---|---|
| `sendWithTPKT` | `SendHeader`, `SendPayload`: two `send()`s, between which the client may read |
| `onRead` | `OnRead`, a recursive function from the input to the bytes left, the lengths handed on and the first access outside of a buffer; `Arrive` applies it after each read |

Unlike the server's, the client's loop looks at the header without testing that four bytes of it are there
(`viewInputBuffer` then returns NULL), and copies each frame into `malloc(sizeof(packet_length))`. `fault` is
`"null"` for the first, which ends the process, and `"overrun"` for the second. What an overrun does to
other data is not followed up: the bytes that `onRead` hands on are the right ones.

### EventFd

An `EventFdClient` that any threads call `send()` of, and `EventFdServer`s on the same eventfd, each on a
loop of its own, as in the tests (`testCasesBody.hpp`).

| code | model |
|---|---|
| the eventfd's counter (external) | `counter`, as the set of the signals in it, `Max` at most |
| `EventFdClient::send` | `Send`: one `write`, refused by a full counter |
| `EventFdServer`, `~EventFdServer` | `Construct` (which throws where `event_new` or `event_add` fails), `Destroy`, at any time, with signals pending too |
| libevent's readable event (external) | `Dispatch`: level-triggered, so two loops can be called for one signal |
| the application's callback, `onEVFDRead` | `Read`, then `Count` (`fd_count += one`) |
| the main thread | `Close`, when the callbacks have counted every signal |

`SignalPromise` is what is promised: a signal is pending once it was raised, and then seen, at most once, alone or
with others.
`KeepsSignals` is its specification with what is in the counter and in a callback's hand as pending.

### HttpServer

One `HttpServer`, the thread that owns it, the thread of its loop with the application's handlers, clients.

| code | model |
|---|---|
| `_http`, `_handlers` | `http`, `handlers` |
| `listen`, `regHandler` | `Listen` up to the bind, `ListenGencb`, before which libevent answers with a page of its own; `RegHandler` (by the owner or a handler) |
| `start`, `stop`, `wait`, `~Loop` | `Start`, `Stop`, `Wait`/`Joined`, `DestroyLoop`: `Loop` says more of them |
| `~HttpServer` | `Destroy`, which does not stop and does not wait: a request in a handler's hands is then used after it was freed (`UseFreed`) |
| `genericCallback` | `NotFound` |
| `mainCallback` | `Begin` up to the handler's call, `End` after it |
| `setBody`, `setChunk` | of the same names, in any order, by the handler; `Printed` is what `evbuffer_add_printf` makes of a content in `Formats`, `PrintFails` what else it may do |
| clients | `Ask`, `HangUp` |

The element's address that `regHandler` gives to evhttp is modelled by looking into `handlers` when the
request is served: `evhttp_set_cb` refuses a path it has, and what serves is what the element holds then.
The owner registers before `start()`, as `httpExample.cpp` does, and destroys the server when it likes, while the
loop runs too. A handler does not register its own path again, which would assign to the `std::function` that is
running. The status line goes out when the handler has returned (`httpServer.cpp:104`), and whatever `setChunk`
sent before it, so what `BodySent` says it says of handlers that use `setBody` alone; a content that is a
`printf` format comes out garbled or ends the process, and a reply to a HEAD has no body.

## 4 The runs

Each `MC` module only names sets of model values. No run uses symmetry: the sets are too small to gain
from it, and liveness is checked in the same runs. CHECK_DEADLOCK is FALSE everywhere because each of
the systems may stop: the object is destroyed, the process has died, or every thread is idle.

| run | shows | bounds | states |
|---|---|---|---|
| `loop` | one `start`, any number of `stop`s by two threads, one `wait`er that destroys the object: `TypeOK`, `ActiveCallbacksCalled`, `NobodyLeftAtFree`, `KeepsPromise`, `WaitMeansFinished`; under fairness `ExitNotLost`, `DtorEnds` | 2 users, 1 thread, 2 active callbacks | 7,654 |
| `loop_dtor` | violation of `DtorNeverTerminates` | 1 active callback | |
| `tcp` | every property of the server: `TypeOK`, `RemovalFollowsAdd`, `DescriptorKept`, `LivesOnce`; under fairness `EventuallyAttached`, `EventuallyReleased` | 1 server, 1 slaver, 2 connections, 2 numbers, 1 application thread | 50,175 |
| `tcp_close` | violation of `CloseHitsOwn` | 2 connections, 1 number | |
| `socket` | `TypeOK`, `WaitingCloseFlushes`; under fairness `LoopCloses` | 2 users and the loop, 3 chunks | 178,922 |
| `socket_close` | violation of `CloseCloses` | 1 user, 1 chunk | |
| `client` | `TypeOK`, `FramesIntact`; under fairness `CloseDelivers`, `CloseEnds` | 2 connections, 2 frames, 2 payloads, bytes of 2 values | 584,221 |
| `timers` | `TypeOK`, `NoFault`, `FinishedReported`, `LiveNotFinished`, `CalledInFull`, `DeadIsSilent`; under fairness `KillReturns`, `FiniteSwept` | 1 timer, 3 events, 2 or infinitely many rounds, 2 application threads and the loop's, one of the two and the handlers call the manager | 154,681 |
| `timers_kill` | violation of `NoFault` | 1 timer | |
| `eventfd` | `TypeOK`, `KeepsSignals`; under fairness `EverySignalSeen`, `CallbackReturns` | 4 signals, a counter that holds 3, 3 servers | 70,672 |
| `http` | `TypeOK`, `BodySent`, `RightHandler`; under fairness `EveryRequestAnswered` | 2 paths, 2 handlers, 2 requests, 2 contents, one of them a format, 2 writes to a reply, 3 registrations | 1,725,629 |
| `reply` | violation of `ReadsInBounds` | 2 frames, payloads of 0, 1 and 2 bytes, bytes of 3 values | |

Seven further configurations show what is outside of those runs' assumptions or promises; each ends with the
violation of its property:

| configuration | module, property | shows |
|---|---|---|
| `LoopMisuse.cfg` | `MCLoop`, `FinishedMeansOut` | two `start()` calls can both pass the status test, and `status()` then says Finished while one of the threads still loops |
| `TcpServers.cfg` | `MCTcpServer`, `LivesOnce` | the master threads of two servers increment one generator: one that writes late sets it back, the other numbers two of its connections alike, and the second replaces the first in `_sessions` |
| `TimersRestart.cfg` | `MCTimerManager`, `FinishedReported` | a timer that fires while another thread is still in `startRounds` ends without being finished, its handler not called |
| `TimersStartup.cfg` | `MCTimerManager`, `LoopNeverExits` | the loop of `TimerManager::instance()` can end before the audit timer is added |
| `TimersDeadlock.cfg` | `MCTimerManager`, `NoEmbrace` | `killTimer` and a handler that calls the manager wait for each other |
| `TimersSelf.cfg` | `MCTimerManager`, `NoFault` | a callback of `startCB` that destroys its own timer and returns -1 stops a destroyed timer |
| `HttpDestroy.cfg` | `MCHttpServer`, `FreedAlone` | `~HttpServer` frees the evhttp and the handlers while the loop runs |

Why the bounds are enough. *Loop*: with two users one can stop while the other is in `wait` or in the
destructor, and two active callbacks are what distinguishes `stop(true)`, which runs the rest, from
`stop(false)`. *TcpServer*: two connections in one map are what a removal can confuse, and with as many
numbers a closed one is handed out again or not; that connections spread over several slavers adds nothing
to confuse is what the theorems say, which hold for any `Slavers`. *TcpSocket*: with two application threads and the loop, one can send and one close
between two steps of the third; with three chunks some are owed to the first `close`, some are not, and
the output drains in parts. *TcpClient*: two
connections show what the first leaves behind; with two frames one is read whole while the other is still
split, over header and payload; one payload is empty and one looks like the beginning of a header.
*TimerManager*: a timer's state is its own, and what several share (`mtx`, the map, the loop) is contended
by two application threads and the loop already with one; the safety properties were also checked with two
timers, two starts and one thread whose pointers stay with it (13,143,503 states), and everything with both
threads calling the manager (354,490), which take too long for a run. Three events tell a stale one
from the current one and leave room for `startAfter`, which needs two, and for a start whose `event_add` failed;
rounds 2 and 3 (for ever) have a first and a last call that differ. One round is in the violation runs: such a
timer is always in its last round, which the other runs keep application threads from stopping.
*EventFd*: with one signal more than the counter holds `send` is refused or not, two loops race for one
reading, and three servers are two that race and one that replaces another. *HttpServer*: three registrations replace a handler
before and after another path gets one; two requests show what one leaves behind for the next, and two
writes are every order of `setBody` and `setChunk`.

Fairness. A thread that is not blocked goes on, and callbacks return: weak fairness of every step of a
call that was begun, of `_run`, and of the accept callback and of each dispatcher's step. Nothing obliges
an application thread or a peer to begin anything. A dispatcher's steps share one condition, which gives
no connection precedence: it is enough because each event is handled once and the queue only empties.
In `TcpClient` one condition covers the loop's steps, and bytes on the wire arrive. In `TcpSocket` writing and the write callback get strong fairness, since the loop's thread may run other
callbacks, which call this socket, between two passes; the peer that stays is taken to read.
In `TimerManager` each application thread is weakly fair in what it has begun, so is the loop's thread in its
callback, and three actions need strong fairness, since others enable and disable them in turn:
`Fire(t)`, because libevent's heap hands out due events by time, so each comes up; `AuditFire \/ Audit`, an event of
the same heap whose `mtx` is not kept from it for ever; `ResetFree`, because `event_free` waits for one callback and
is woken when that one returns, not when the loop is idle.

In `EventFd` each server's loop is weakly fair and no `send` has to happen. In `HttpServer` one condition
covers what the loop's thread does; each request is served once, so none is passed over for ever. It is
the loop that is fair, not the handler's writes, which it may end at any time.

`EventuallyAttached` and `EventuallyReleased` are conditional on `stop` not having been called: a
connection queued with a slaver whose loop has ended stays there (see `hazards`).

## 5 What is proved

`LoopProofs`, `TcpServerProofs`, `TcpDescriptorProofs`, `TcpSocketProofs`, `EventFdProofs`, `TimerManagerProofs`,
`HttpServerProofs` and `TcpClientProofs` hold for every value of the constants that satisfies the modules'
assumptions (`LoopAssumption`, `TcpAssumption`, `SocketAssumption`, `SignalAssumption`, `TimerAssumption`,
`HttpAssumption`, `ClientAssumption`, `BaseAssumption`): any number of threads, callbacks, slavers, connections,
chunks, signals, servers, timers, rounds, starts, paths, requests, payloads and frames, and bytes of any
number of values, 256 included. The theorems are:

| theorem | states | further assumption |
|---|---|---|
| `LoopProofs!TypeCorrect` | `Spec => []TypeOK` | |
| `LoopProofs!RefinesPromise` | `Spec => KeepsPromise` | `MaxStarts <= 1` |
| `LoopProofs!NobodyLeft` | `Spec => []NobodyLeftAtFree` | the same |
| `LoopProofs!CallbacksCalled` | `Spec => []ActiveCallbacksCalled` | the same |
| `LoopProofs!WaitIsOver` | `Spec => WaitMeansFinished` | the same |
| `TcpServerProofs!TypeCorrect` | `Spec => []TypeOK` | |
| `TcpServerProofs!RemovalBehindAdd` | `Spec => []RemovalFollowsAdd` | one server |
| `TcpServerProofs!RefinesLife` | `Spec => LivesOnce` | one server |
| `TcpDescriptorProofs!NoneLost` | `Spec => []DescriptorKept` | one server |
| `TcpSocketProofs!TypeCorrect` | `Spec => []TypeOK` | |
| `TcpSocketProofs!CloseFlushes` | `Spec => []WaitingCloseFlushes` | |
| `EventFdProofs!TypeCorrect` | `Spec => []TypeOK` | |
| `EventFdProofs!RefinesPromise` | `Spec => KeepsSignals` | |
| `TimerManagerProofs!TypeCorrect` | `Spec => []TypeOK` | |
| `TimerManagerProofs!NeverFaults` | `Spec => []NoFault` | `CarefulUse` |
| `TimerManagerProofs!ReportsFinished` | `Spec => []FinishedReported` | the same |
| `TimerManagerProofs!LiveNeverFinished` | `Spec => []LiveNotFinished` | the same |
| `TimerManagerProofs!CallsInFull` | `Spec => []CalledInFull` | the same |
| `TimerManagerProofs!DeadStaySilent` | `Spec => []DeadIsSilent` | the same |
| `HttpServerProofs!TypeCorrect` | `Spec => []TypeOK` | |
| `HttpServerProofs!LastHandlerServes` | `Spec => RightHandler` | |
| `HttpServerProofs!BodiesSent` | `Spec => []BodySent` | |
| `TcpClientProofs!TakenRight` | what `Taken` returns for the first bytes of a stream of frames, cut anywhere | |
| `TcpClientProofs!TypeCorrect` | `Spec => []TypeOK` | |
| `TcpClientProofs!FramesWhole` | `Spec => []FramesIntact` | |

The further assumptions are the use of the classes under which the code keeps its promises; without them
they are false (`LoopMisuse.cfg`; two masters incrementing one generator). `CarefulUse` is that no event fires
while its timer is being started, that application threads start a timer once and stop it only
when it cannot be in its last round, and that no callback destroys its own timer and then returns -1 (`Overtake`,
`Restart`, `KillAny` and `SelfStop` are FALSE); TLC finds a property
violated as soon as one of the four is dropped. The rounds, the handlers and what they call, who calls the manager, who
stops, hands on, drops, kills and when, how often a timer is started again by the loop's thread, and everything the audit
and the manager's destructor do stay free.

**The loop's invariant.** `KeepsPromise` speaks of `status` and of the threads inside, and neither is
inductive: that nobody is inside when the base is freed depends on the join, the join on `thread` being
the thread that runs, and this on there having been one start. `IInv` is `TInv` (types, and `OneInPass`:
one thread is past libevent's own re-entrance test) with `OneStart` (at most one thread holds the right to
run `_run`), `StatusReports` (which `status` goes with each place in `_run`), `Handles` (the thread made is
joinable until it has ended, and is the one `thread` names once `start` has stored it) and `DtorAlone` (the
destructor works alone, and passes the delete only when that thread has ended). `CallbacksCalled` adds
`Waited`: before the loop ends, what can end it early is a `stop(false)` that was asked for.

**The server's invariant.** `LivesOnce` says that no session returns to the map; that a removal erases
that session, and not another, rests on the ids being unique, and this on no two connections being
numbered by one value of the generator. `IInv` is the conjunction of `TInv` (types, and `Busy`: a thread in
the middle of a callback has a connection in hand), `Numbered` (which connections have an id, and that the
generator is ahead of all of them), `UniqueIds` (which holds because one server has one master thread), `Queues` (what
each entry of each queue says about the connection it names: an add comes before the attach, in the right queue, and
a removal names a session that was disconnected or asked to go), `Once` (no connection is queued twice) and `Maps`
(sessions in a map or in hand were attached, each by its own dispatcher). TLC checked it with 0, 1 and 2 slavers.

`NoneLost` needs the converse of `Queues` and `Maps`, which is `Kept`: a connection whose descriptor is open
and that has no bufferevent yet is in the accept callback's hands or in the queue of the dispatcher its id
selects; one whose bufferevent is on is in that dispatcher's map or was removed by the application; and
otherwise `attach` failed. It also needs that the id always selects one of the dispatchers, a fact about
`%` that `HomeIsDisp` states.

**The socket's invariant.** A chunk accepted is in the output or was written (`Flow`); so a thread that
has seen the output empty knows that all that was owed is written, and since what is owed does not change
after the first `close`, it stays so in all the places from which a thread goes on to the shutdown
without looking again (`Owing`).

**The signals' invariant.** A signal is seen at most once because an accepted one is in one place only: the
counter, the hand of one callback, or the count (`Placed`), whatever servers are made and killed meanwhile.

**The timers' invariant.** `Timer` locks nothing, so what keeps two threads from working on one timer's fields
is an argument about who can be where, and no single property is inductive without it. `IInv` says of each
timer (`Sound`), beside the types and the places threads can be in:
`Rights`, by what right a thread is in `getTimer`, `startRounds` or `reset`: it holds the timer, or it was the last to let
go of it, or it is the loop's in the timer's own callback; `Doom`, that a timer which only the map holds and which
a thread is about to take out of it cannot be in its last round; `Alone`, that hence no two threads are;
`Owned` and `Events`, that one thread holds a timer, that one that is not alive is in nobody's hands, and that of
the events it made only the last can be in libevent's heap, and is the one in `_event`;
`Steps`, what `_event` and that event are at each line of `startRounds` and `reset`; `Callback`, that the callback
that runs is that of the event in `_event` until the handler's own thread frees it, because another
thread can free it only when the timer runs for ever, and then waits in `event_free`. On top of these, `Counts`
relates `_curRound` to `_round` (`Rounded`) and the calls of the handler to both (`Called`), with what each
line of `eventHandler` has added so far. `NeverFaults` and `DeadStaySilent` need the exclusion argument only;
`ReportsFinished` and `LiveNeverFinished` follow from `Rounded`, and `CallsInFull` from `Called`. The proof that an
action preserves `IInv` is one lemma per action; that it leaves all the other timers alone is the lemma `Elsewhere`.
`Ending`, an invariant of its own, says that the manager's destructor works only when the audit timer is gone.
TLC checked `IInv` on the instance of run `timers` (154,681 states) and with one round as well and all threads
calling the manager (426,580).

**The HTTP server's invariant.** `RightHandler` follows from `Kept`: the map holds for each path what was registered
last, and a request that has come in asks for a path. `BodySent` needs what the callback's places say of the
reply to a request whose handler used `setBody` alone (`Told`): one that is not with a handler has nothing sent,
or was answered in full (`Expected`); of the one that is, nothing is sent and `_buffer` holds what was written, if
none of it is a format. That the server may be destroyed at any time takes nothing away: what is sent by then stays.

**The client's invariant.** `FramesIntact` compares what the server was given with what was sent; to be
inductive it needs where the difference is. `Flow` says that what was sent is what was given followed by
payloads `x`, and that the server's input, the bytes on the wire and the client's output, in this order, are
the stream of the frames of `x` (`InFlight`), unless the server's end is gone; when the client frees its bufferevent
with bytes in it, some bytes that will never come take the output's place. `Places` says that a
connection not yet made has no bytes, and that one whose server's end is gone is down. A step of `Flush` moves a cut
between two parts of one stream, `sendWithTPKT` makes the stream longer by a frame, and `Receive` is the theorem
`TakenRight`. TLC checked the invariant on the instance of run `client`, with a recursive
operator for the stream.

`TakenRight` is about a recursive function, and takes four steps. (1) The induction theorems of the library take
operators, so `Induction` is proved here for sets of naturals, from the theorem that `<` on them is well
founded. (2) A recursive definition means nothing until it is shown to have a solution: `SolutionsAgree` and
`SolutionsExist` construct one for inputs shorter than n, for each n, by induction, because each frame taken
leaves a shorter input (`Shorter`); `TakenDef` concludes that `Taken` is defined for all inputs, satisfies
its equation and returns sequences of bytes. (3) `Digits` and `HeaderRead`: the length that `sendWithTPKT` puts into three
bytes is the length that `onSessionRead` reads, for each payload that `ClientAssumption` allows. (4) `Stream(b, s)` is
the least relation between bytes and payloads that holds of two empty sequences and is kept by
appending a frame and its payload, as `sendWithTPKT` does; `StreamBegins` turns it round (a
stream is empty or begins with the frame of its first payload), as `onSessionRead` reads it, and `FrameRead` says
what is seen of that frame in a piece of the stream.

Only model-checked: all liveness (`ExitNotLost`, `DtorEnds`, `EventuallyAttached`, `EventuallyReleased`,
`LoopCloses`, `CloseDelivers`, `CloseEnds`, `KillReturns`, `FiniteSwept`, `EverySignalSeen`,
`CallbackReturns`, `EveryRequestAnswered`), which is outside this prover's reach. `TpktReply`,
whose run shows a violation, has no theorem.

## 6 What disagrees with the code's own words

The violation runs, each with the sentence of the code it contradicts (PROJECT.json, `findings`):

* `loop_dtor`: a loop in its own thread that ends by itself cannot be destroyed: `wait()` skips the join
  of a finished loop, and deleting a joinable `std::thread` terminates the process.
* `tcp_close`: `close()` of a session that was disconnected acts on a descriptor number that may have
  been given to another connection.
* `socket_close`: `close(true)` by an application thread, racing with the last write, can leave the
  connection open for ever, and `send` refused.
* `timers_kill`: stopping or killing a timer during its last round frees its event twice.
* `reply`: the client's receive loop looks into a header that has not arrived in full, and writes every
  frame with a payload past the four bytes it allocated.

## 7 Not modelled

* Planned (section 2): a client called by other threads than its loop's, the registry `Loop::get`, the
  destructors of `FrameLoop` and `TcpServerDispatcher`, two servers in one process (the constants allow
  them, and `TcpServers.cfg` has them; the theorems exclude them).
* `listen()` and its error paths, `wait()` and the destructor of `TcpServer`: sequential set-up and
  tear-down by one thread. `setFrameInterval` likewise.
* What the client's overrun damages, and with it the input buffers that `closeImpl` clears.
* HTTP's headers, keep-alive and the getters of `HttpRequest`; a handler that registers its own path again, and
  `regHandler` from threads other than the owner's before `start()` and the loop's.
* The numbers of a client's descriptors, which `handleEvent` and `BEV_OPT_CLOSE_ON_FREE` both close.
* The values of intervals: libevent may fire a due timer at any time, which includes the right one.
* The end of a timer that runs for ever, after 2^32 - 1 rounds.
* The logger (formatted output behind one mutex, which no other component reads) and the test framework. Of the
  examples and tests the models have what they do with the library: `Tick`, `Ask`, the handlers, the
  callback and the closing of the descriptor in `EventFd`, and what each owner does to its loop.
