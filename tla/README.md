# L4-: formal models of the l4lb proxy

TLA+ models, TLC configurations and TLAPS proofs for the program in `src/l4lb`, a
single-threaded layer-4 load balancer written on a small reactor (epoll, timerfd,
eventfd), and for the core of the course library `src/code/day29` it was distilled
from: its multi-threaded server, its HTTP layer and its asynchronous log. Paths below
are relative to `src/` unless they begin with a module name; `PROJECT.json` holds the
line-by-line map from definitions to code, the runs, the hazards and the theorems.

## 1. Inventory

### 1.1 The system

`l4lb` accepts TCP clients, takes a backend for each in turn, connects to it
within three seconds and then copies bytes in both directions until both streams
have ended. Everything but the functor queue runs on one thread. The course library
serves HTTP: a main reactor accepts, a pool of sub-reactors reads, parses and
answers, and a back-end thread writes the log.

| Component | Code | State it keeps | Operations |
|---|---|---|---|
| LoadBalancer | `l4lb/src/lb/LoadBalancer.cpp` | `sessions_` (by client descriptor), `next_backend_` | `OnNewConnection`, the close callback, `Stop` |
| Acceptor | `l4lb/src/net/Acceptor.cpp` | listening socket, `idle_fd_` (reserve descriptor) | `HandleRead`, `HandleDescriptorExhaustion`, `Stop` |
| ProxySession | `l4lb/src/lb/ProxySession.cpp` | `client_`, `backend_`, `connector_`, `closed_` | `Start`, `OnBackendConnected`, `On*Message`, `On*WriteComplete`, `On*Eof`, `CheckFinished`, `Close` |
| Connector | `l4lb/src/lb/Connector.cpp` | `state_`, `channel_`, `timer_`, `socket_` | `Start`, `HandleWrite`, `HandleError`, timeout, `Cancel` |
| TcpConnection | `l4lb/src/net/TcpConnection.cpp` | `state_`, `reading_`, `received_eof_`, `shutdown_requested_`, `write_shutdown_`, `output_`, its channel | `Establish`, `Send`, `StartRead`, `StopRead`, `ShutdownWrite`, `ForceClose`, `HandleRead/Write/Close/Error` |
| Channel, Epoller | `l4lb/src/net/Channel.cpp`, `Epoller.cpp` | interest, registration, the weak tie to the owner | `Enable*/Disable*`, `HandleEvent`, `Poll`, `UpdateChannel`, `RemoveChannel` |
| EventLoop | `l4lb/src/net/EventLoop.cpp` | `quit_`, `pending_functors_`, eventfd | `Loop`, `Quit`, `RunInLoop`, `QueueInLoop`, `RunAfter`, `RunEvery` |
| TimerQueue, TimerId | `l4lb/src/net/TimerQueue.cpp`, `TimerId.cpp` | ordered map of timers, timerfd | `AddTimer`, `HandleRead`, `ResetTimerFd`, `Cancel` |
| Buffer | `l4lb/src/net/Buffer.cpp` | `storage_`, `reader_index_`, `writer_index_` | `Append`, `EnsureWritableBytes`, `HasWritten`, `Retrieve`, `RetrieveAll` |
| Socket, InetAddress, UniqueFd | `l4lb/src/net/` | a descriptor | RAII wrappers of system calls |
| main | `l4lb/src/app/main.cpp` | signalfd | start-up, `Quit` and `Stop` on a signal |
| Course TCP server | `code/day29/tcp` | `connectionsMap_`, the pool's `next_`, each loop's `to_do_list_`, each connection's `state_`, buffers and tie | `HandleNewConnection`, `HandleClose`, `HandleCloseInLoop`, `ConnectionDestructor`, `HandleMessage`, `Send`, `HandleWrite`, `SendFile`, `RunOneFunc`, `QueueOneFunc`, `DoToDoList` |
| Course HTTP layer | `code/day29/http` | the parser's state and request, idle timers | `ParaseRequest`, `onMessage`, `onRequest`, `onConnection`, `ActiveCloseConn` |
| Course log | `code/day29/log` | `current_`, `next_`, `buffers_`, the back end's two spare buffers, the file | `Append`, `ThreadFunc`, `Start`, `Stop` |
| Course timers | `code/day29/timer` | ordered set of timers, timerfd | ancestor of the `TimerQueue` above |

### 1.2 How the components interact

* `main` runs `EventLoop::Loop` on one thread. `Poll` returns a batch of raw
  `Channel*`; each one's callbacks run in turn, then the pending functors.
* `Acceptor::HandleRead` calls `LoadBalancer::OnNewConnection` for each client it
  accepts, inside a `try` whose handler serves `accept()` and the callback alike.
* `LoadBalancer` owns each `ProxySession` through `sessions_`; the session's close
  callback erases the entry. The session owns its connections and its connector.
* A session pauses one connection when the other has output and resumes it from
  the other's write-complete callback; it half-closes one when the other's stream
  ends, and closes when both have.
* A closed object may have events left in the current batch. `ForceClose` and
  `Close` queue a functor that holds the object; the functor runs after the batch.
* Other threads touch l4lb's loop only through `QueueInLoop` and `Quit`: a mutex, an
  atomic flag and the eventfd.
* In the course library a connection is opened by the main reactor, lives on a
  sub-reactor, and goes back for its end: `HandleClose` (sub-reactor) posts
  `HandleCloseInLoop` (main, erases the map entry), which posts
  `ConnectionDestructor` (sub-reactor, leaves epoll). The functor that carries it
  is the last owner and closes the descriptor. The idle timer runs on the main reactor.

### 1.3 What is hard, and what makes each component correct

| Component | Hard to test | Correct when |
|---|---|---|
| ProxySession | four conditions that end a session in any order; pause and resume over two connections; timeout racing connect; leftover callbacks after close | no byte is lost, duplicated, reordered or overtaken by an end of stream; buffering is bounded; no direction stalls for ever; nothing is used after its release |
| TcpConnection | partial sends, half-close with output waiting, EPOLLHUP on a half-closed connection | bytes leave in order, the FIN behind them, close is reported once and last |
| Connector | synchronous success or failure, timer and result in one batch | decided exactly once and within the timeout |
| LoadBalancer, Acceptor | the descriptor table is full, exceptions cross the accept loop, numbers are reused | map, descriptors and sessions agree; the reserve returns; nobody waits for ever |
| TimerQueue | three clock readings in one `AddTimer`; cancelling out of a callback | the timerfd always covers the first timer; never early; a cancelled timer never fires |
| EventLoop | push and Quit racing `epoll_wait(-1)` | no wake-up is lost; functors run in order; IO is not starved |
| Course TCP server | hand-over between two loops, descriptors that are reused, level-triggered channels that report a closed connection again and again, two threads that close one connection | map, descriptors and owners agree; no channel outlives its connection; no wake-up, request or end of stream is lost |
| Course HTTP layer | requests cut into reads anywhere; answers over `Send`, its rest, and a file | the callback sees what the client sent; answers leave in order; a whole request is answered, but for an upload without a file name, which gets no answer |
| Course log | buffers change hands between front ends and back end; `Stop` at any time | spare buffers suffice; lines stay whole and in order; what is appended is handed to a file, and `Stop` leaves nothing in memory or in stdio |
| Buffer | unsigned index arithmetic, compaction against growth | it is a byte queue, and its storage is bounded |

`PROJECT.json` lists these as hazards, each at its line with the properties that
would catch it, or the reason none does.

## 2. Plan

### 2.1 Order and composition

1. `TcpConnection` (operators on a connection record), `ProxySession` (two of them,
   a connector, a batch, the kernel and the peers), `Relay` (its abstract promise).
   The core: done, with proofs.
2. `TcpEndpoint`: one `TcpConnection` under any user. Done, with proofs.
3. `LoadBalancer` (with the acceptor): done, with proofs.
4. `EventLoop` and its promise `Executor`, `TimerQueue`, `Buffer` and its promise
   `ByteQueue`: done, with proofs.
5. The course library (section 2.3): `AsyncLogging`; `TcpServer`, the hand-over of
   connections between loops with the idle timer; `HttpContext`, the parser, and
   `HttpServer`, one connection over it. Done, with proofs.
6. Left: `Connector` by itself (any user, a second `Start`, a zero timeout), the
   start-up handshake of `EventLoopThread`, errors of `read` and `write` in the
   course library.

Components are composed where they interact on shared state: a session with its
connections, connector, batch and functors is one module, because its hazards are
between them. The rest meets through a narrow interface, and each side has a module
that abstracts the other: `LoadBalancer` sees a session as
"connecting, relaying, closed"; `EventLoop` sees channels as "another event";
`ProxySession` sees the timer queue as one timer that may fire once three seconds
have passed, and the buffer as a sequence. `TcpServer` sees a message as "answered,
with or without closing", `HttpServer` a close as the connection's end.

### 2.2 Theorems

Done (section 6): of the session the inductive invariant, with type correctness,
bounded output, resumability, half-close, destruction and inertness as consequences,
the bytes and the ends of both streams, the life of every channel in a batch, and the
refinement of `Relay`; the promises of a connection to any user; the balancer's map,
descriptors and turns; the log's spare buffers and the order of its lines; the
server's invariant; the timers' invariant, that the timerfd covers the queue, that no
timer is early and none called after `Cancel`; the loop's invariant and its refinement of
`Executor`; the buffer's invariant and its refinement of `ByteQueue`; what the HTTP
callback sees, and the order of the answers.

Left: nothing that the runs check as a safety property.

### 2.3 The course library

`code/day29` is the last state of the teaching library; `day01` to `day28` are its
history, one directory per day, each a copy of the one before with a few lines
changed. They hold most of the repository's lines, and no model is made of them: a
definition stands for one place in the code, and that place is in `day29`. The share of
the repository that the definitions map to is therefore small, though they
cover the control of every component above.

## 3. The modules and the code

**TcpConnection**. A connection is a record: `state`, `reading`, `receivedEof`,
`shutdownRequested`, `writeShutdown`, `output` and the channel's `events` and `added`.
Each method is an operator from record to record; what it does to the kernel (bytes
taken by `send`) is a parameter. `WellFormed` is the class's own invariant.
Channel's and Epoller's part is `Update` and `Remove`: a channel whose interest
becomes empty leaves epoll, as `Epoller::UpdateChannel` does.

**ProxySession**. One action per callback, run to completion. `Poll` takes a batch:
for each registered channel the events the kernel reports at that moment.
Epoll may order them in any way, so `Dispatch` picks any channel of the batch, but
keeps the order within a channel (close, read, write). The kernel's state may go on
changing between poll and dispatch. `retained` are the objects that pending functors
hold; `current` is the one whose weak tie is locked; `RunPendingFunctors` ends the
batch and releases them. `Stop` is the signal: the loop ends and `LoadBalancer::Stop`
closes the session.

| Model | Code |
|---|---|
| `StartConnected`, `StartPending`, `StartRefused`, `StartThrows` | `ProxySession::Start` with the four outcomes of `Connector::Start` |
| `ConnectorWrite`, `ConnectorError`, `ConnectorTimeout` | the connector's callbacks and timer |
| `ReadMessage`, `ReadEof`, `ReadError`, `ReadSkipped` | `TcpConnection::HandleRead` and the session's message and EOF handlers |
| `WriteOutput`, `WriteError`, `WriteSkipped` | `TcpConnection::HandleWrite` and the write-complete handlers |
| `HandleClose` | `Channel`'s error and hang-up branch, `ForceClose`, the session's `Close` |
| `CheckFinished`, `CloseSession` | the methods of these names |

**Relay** promises the two peers a pair of reliable pipes: bytes arrive in order,
an end of stream overtakes none, and only a fault (a reset, a failed or late
connect, the program's end) may cut a stream's tail. The mapping makes the queue of a
direction out of the send buffer, `output_` and the receive buffer.

**TcpEndpoint**. The same operators under a user that calls any method whenever the
code lets it. It exists because a session uses less of the class than the class
offers: a session pauses the source while the target has output, so it reads an
end of stream only when the target's output is empty. The deferred FIN of
`ShutdownWrite`/`HandleWrite`, and with it the output test in `CheckFinished`, are
never exercised by a session; here they are.

**LoadBalancer**. `HandleRead`'s loop is cut at each `accept`, since clients may arrive
in between; `Arrive` is the kernel. Descriptors are numbered, and the lowest free
one is taken, as POSIX requires, so that reuse of numbers in `sessions_` is real. A
session's life is seen from its owner. `EdgeTriggered` is the acceptor's option; the
service does not use it (section 5).

**TimerQueue**. Time is relative: an entry has the ticks left, and 0 stands for any
time that has passed. The code still orders two past times by value; their order in the
queue keeps that, and a timer added with no delay goes behind those already due, as
its later key would put it. `AddTimer`'s three clock readings are three steps, `HandleRead` is
cut at each callback, and `Tick` may come anywhere. `HandleRead` takes a prefix of
the ordered queue, and `Reinserted` is the queue after each pass of the second
loop's body.

**EventLoop**. The loop's thread steps from one system call or lock to the next;
another thread's `QueueInLoop` is a push and a wake-up, its `Quit` a store and a
wake-up. **Executor** is the abstraction: one queue, one functor at a time, in order.
Its definitions have names of their own (`LoopNext`, `loopVars`, `stage`), as one proof
module extends this one and `TimerQueue`.

**TcpServer**. Each reactor is a record: where it is, the batch of `Poll`, its
`to_do_list_` and the functors taken from it, and the connection whose `HandleClose` is
half done. A callback runs to completion unless another thread can see the
middle of it: `HandleClose` between its test of `state_` and the assignment, and
`HandleNewConnection` between `EnableRead` and the connection callback. Ownership
is computed: `Alive(c)` while the map, a functor, a vector of functors
being run or a running callback refers to `c`. A descriptor is free when
its connection is not alive, and the lowest free one is taken. `SetThreadNums` may
give any number up to `MaxThreads`, zero included.
The channels are level-triggered: `EnableET` adds `EPOLLET`, bit 31, to a `short`, where
it is lost (section 5). So `Readable` is what has unread input or an end of stream; a
connection that was closed at its end of stream is reported by each `Poll` of its loop
until `DestroyFunctor` has run, and `HandleMessage` finds it `Disconected`.

| Model | Code |
|---|---|
| `HandleNewConnection`, `OnConnection`, `AcceptFails` | `Acceptor::AcceptConnection`, `TcpServer::HandleNewConnection`, `HttpServer::onConnection`; `accept4` failing |
| `HandleMessage` | `TcpConnection::HandleMessage` with `ReadNonBlocking`, and what the callback decides about closing |
| `SetDisconected`, `CloseFunctor`, `DestroyFunctor` | `HandleClose`, `HandleCloseInLoop`, `ConnectionDestructor` |
| `ActiveCloseConn` | the idle timer, on the main reactor |
| `Poll`, `WakeUp`, `TakeToDoList`, `EndToDoList` | `EventLoop::OneLoop`, the eventfd, `DoToDoList` and the end of its vector |

**HttpContext** is `ParaseRequest`: a recursive function over the characters of a read
whose step is `Advance`, the body of the loop (`Step`) behind its condition.
`NextState` is the switch, `Learnt` what the request learns when a token ends, `start`
and `colon` the positions in the current read. A symbol is a character, or a word
whose later characters do not change the state; `"SP"` is the blank. `atoi` is a
parameter (`Number`), which `MCHttpServer` defines for the numerals its requests have.
**HttpServer** is one connection over it: a client that asks, waits for the answer and
asks again, a network that cuts a request into reads anywhere, `onMessage`,
`onRequest` with a page, a file or an upload, and the three ways bytes leave (`Send`,
`HandleWrite`, `SendFile`). What the code does to an answer is kept in `lost`: the
failing assertion of `Buffer::Retrieve`, a connection closed with output waiting, and
the bytes `SendFile` skips. `SendFile` would overtake the rest of a head in `send_buf_`; with a
client that waits for the last answer and a head that fits the send buffer
(`HttpAssumption`) there is no such rest, and `AnswersInOrder` says nothing of servers without.

**AsyncLogging**. The mutex covers all of `Append` and all of an iteration of
`ThreadFunc` but the wait, so each of these is a step; `running_`, the latch and the
join are outside it. A buffer is the sequence of its bytes, each carrying its
line's number, and a `unique_ptr` a sequence of at most one buffer: a null pointer
followed would show. `files` is what each `LogFile` was given, `flushed` how much of the open
one is certain to have left stdio. `Write` decides about `fflush` by the clock, once for each
buffer: `MayFlush` leaves open which of an iteration's writes is the last one that does, but a
write of nothing never is, and the first one to a file always does. A rotation and
the end of the thread flush (`~LogFile`).

**Buffer** has the storage vector and both indices, with the arithmetic of
`MakeSpace`, and refines **ByteQueue**.

Some definitions are preceded by a second one with a plausible mistake in it
(`FinishedAtFirstEof`, `EraseOnly`, `WakesItself`, `QuitSilently`, ...), after a
comment that begins with "Wrong". No action uses these. `PROJECT.json` pairs each with a
property that fails once it is put in the right one's place, which shows that the
property depends on that line of the code.

## 4. Runs

| Run | Question | Instance |
|---|---|---|
| `session` | Does a session keep both streams intact, stay within its buffers, close cleanly, keep alive what its batch still needs and implement `Relay`? Does everything arrive, the session end, the connect get decided, and a peer that never reads stop only its own direction? | 3 bytes and 2, receive buffer 2, send buffer 1, read batch 2; resets, failing sockets and `Stop` included |
| `endpoint` | Is a connection sound under any caller, and does what it accepted, and a requested half-close behind it, reach a peer that reads? | 4 bytes in pieces of at most 2, send buffer 1 |
| `balancer` | Do map, descriptors, reserve and turns agree? Is every client served or refused, and does `Stop` end? | 4 clients, 3 backends, 6 descriptors |
| `timers` | Is the timerfd always right, no timer lost, early, or called after `Cancel`; does every live timer fire and is a cancelled one given back? | 2 timers, 3 ticks |
| `loop` | Can the loop sleep on work? Does it implement `Executor`, keep I/O going, and end after `Quit`? | 2 threads, 2 functors each, eventfd full at 2 |
| `buffer` | Is it a byte queue within bounded storage? | 8 bytes in pieces of at most 3, prepend area 2 |
| `server` | Do map, descriptors and owners agree across reactors, is no functor slept on, and is no request or end of stream overlooked, though a closed connection keeps its loop busy until it is unregistered? | 2 clients, 2 descriptors, 0 to 2 sub-reactors, idle timer on |
| `http` | Does the callback see what was sent however it was cut, do answers leave in order, and is a whole request (other than a nameless upload) answered, with an answer that arrives whole if it fits the send buffer? | 2 of 9 requests, pages of 2 and 5 bytes, files of 1 and 4, send buffer 2 |
| `logging` | Do the spare buffers suffice, are lines whole and in order, are they handed to a file, and are they on disk after a `Stop` that finds the back end waiting? | 5 lines of at most 3 bytes, buffers of 3, files of 4 |
| `stalled_session` | violation: an open session that nothing watches | 3 clients, 4 descriptors |
| `server_close_race` | violation: two threads close one connection and the map has it no more | as `server` |
| `http_upload` | violation: an upload in several reads is never answered | as `http` |

### 4.1 Bounds

* *Bytes.* Every decision in the code compares a length with zero, with the batch,
  or with what the kernel took. A send buffer of one byte makes every send of
  two or three partial; a batch of two out of three bytes makes a read leave a rest;
  three bytes fill output, send buffer and receive buffer at once. Byte values are
  their positions, so loss, duplication and reordering all show.
* *Descriptors.* Two and a half sessions' worth beside the reserve: `accept` can fail,
  `socket` can fail after `accept` succeeded, and both can succeed; four clients
  reuse the numbers. Three backends make the turn wrap once.
* *Timers.* Delays from 0 to 3 give due, next and later, and intervals that overlap;
  two timers give a batch whose first callback adds or cancels the other.
* *Threads.* Two threads are enough for a push between any two steps of the loop
  while the other one quits, beside functors that queue themselves anew; the
  eventfd fills at two so that `EAGAIN` occurs.
* *Buffer.* Eight bytes pass growth, compaction and reset several times with an
  initial size of two.
* *Server.* Two connections on two descriptors are open at once, on one sub-reactor,
  on two or on the main one, and a descriptor is taken again once its
  connection has gone. One client sends and the other keeps silent, which either
  may do; each sends at most one request, since a second read changes no state
  that the first does not.
* *HTTP.* Two requests show what the first leaves behind in the parser. The nine have
  parameters or none, headers or none, bodies of zero to three symbols, both
  versions and both wishes about the connection. One page and one file fit the
  send buffer, the others do not.
* *Log.* Lines of one to three bytes in buffers of three fit, fit exactly or do not;
  five lines fill more than the two spare buffers between two swaps.

Deadlock checking is off in every run: each system may rightly stop (the session
closed and the peers silent, all clients served, all timers fired).

### 4.2 Fairness

* `ProxySession`: weak fairness of the loop's step (the thread runs; a callback never
  blocks, as all sockets are non-blocking) and of the passing of three seconds. The
  peers are outside the program, so that they read (`PeerKeepsReading`) is an
  assumption, not a property of the code: of the backend's peer throughout, of the
  client's only in `DeliversEverything` and the first half of `SessionEnds`, where
  it is the premise. `NoCrossBlocking` holds without it.
  That a peer sends, ends or resets, and that the backend answers, is never
  assumed.
* `LoadBalancer`: weak fairness of the accept loop and of `Stop`. For each client
  strong fairness of its connect being decided: its channel or timer stays ready
  (level-triggered) while accept callbacks, during which it cannot run, come and
  go. `session` shows the underlying fact in `ConnectIsDecided`. A session
  in relay need not end: that is up to the peers.
* `TimerQueue`: the loop runs and the clock ticks; no user action is fair.
* `EventLoop`: the loop runs, and a thread inside `QueueInLoop` or `Quit` finishes.
  No thread has to call either.
* `TcpEndpoint`: the loop runs and the peer reads.
* `TcpServer`: each reactor's thread runs, until an assertion fails. Nothing is
  assumed of the clients or of the idle timer.
* `HttpServer`: the network delivers what was sent, the reactor writes when there is
  room, and the client reads. No client has to ask.
* `AsyncLogging`: the back end is scheduled and its timed wait ends; the join
  returns once the thread has ended. Nobody has to append or stop.

## 5. Findings

* **A session nobody watches** (`stalled_session`, `OpenIsAttended`). With exactly one
  descriptor left besides the reserve, `accept` succeeds and `Connector::Start`'s
  `socket()` throws `EMFILE`. At that point the session is in `sessions_`, its client
  is established but not reading, and neither connector channel nor timer exists.
  `Acceptor::HandleRead`'s handler takes the exception for one of `accept` and
  drops the next client with the reserve. The session stays until `Stop`, although
  `l4lb/README.md:67` says a failed backend or the three-second timeout closes it.
* **Two threads close one connection** (`server_close_race`, `CloseFindsEntry`).
  `ActiveCloseConn` calls `HandleClose` on the main reactor while a sub-reactor may be in
  `HandleClose` of the same connection. `state_` is tested and set without a lock,
  so both pass, `HandleCloseInLoop` runs twice, and the second one fails the
  assertion `TcpServer.cpp:71`. `CloseIsOnce`, a part of `ServerInv`, shows that nothing
  but the idle timer beside a sub-reactor leads there.
* **An upload in several reads is never answered** (`http_upload`, `UploadIsAnswered`).
  The `BODY` state compares `Content-Length` with what is left of the current
  read, and `SetBody` replaces what an earlier read stored, although
  `day29-文件的上传.md:54` says later data are joined to one message.
  `WholeRequestIsAnswered` is what does hold: a body that comes with its
  head, or in one read of its own.

Seen while modelling, kept in the models, and not runs of their own:

* *Edge-triggered accept.* `l4lb`'s `HandleRead` returns at the first error other than
  `EINTR`; edge-triggered, clients behind it would wait until another one arrives. The
  service registers level-triggered, and `NobodyIsForgotten` fails with
  `EdgeTriggered` set.
* *A head in two reads* is refused with 400: `ParaseRequest` returns true only in `BODY`
  and `COMPLETE`. `RequestIsExact` rests on that, as `start` and `colon` begin anew with
  each read and would cut the second half wrongly.
* *The flush that empties the send buffer* fails `Buffer::Retrieve`'s assertion
  `readablebytes() > len` (`Buffer.cpp:50`), though the branch at `:55` is made for it. An
  answer larger than the kernel's send buffer ends the program (`lost`: "abort").
* *`SendFile`* lets `sendfile()` move the offset and adds to it again: a partial call
  skips as many bytes as it sent (`lost`: "skip"), and the loop spins while the socket is full.
* *Closing after an answer* destroys what is left of it in `send_buf_` (`lost`: "close").
* *An upload that names no file* gets no answer: `onRequest` returns (`HttpServer.cpp:106-109`),
  and the client waits for the idle timer. `HeadInOneRead` leaves these out.
* *Edge triggering that is not.* `Channel::EnableET` (`Channel.cpp:56`) adds `EPOLLET` to
  `listen_events_`, a `short` (`Channel.h:40`), and `Epoller::UpdateChannel` registers what
  `listen_events()` returns, a `short` too: the bit is lost. `Channel.h:20` says
  "以ET形式触发", and `day11-完善线程池，加入一个简单的测试程序.md:45` that connections
  are read in ET mode. They are level-triggered: until `ConnectionDestructor` has run, a closed
  connection wakes its loop again and again. `ServerInv` and `NothingIsOverlooked` hold
  all the same.
* *Lines that stay in stdio.* `LogFile::Write` flushes only when it is given something
  (`LogFile.cpp:37-42`: an empty buffer does not move `lastwrite_`) more than three seconds after the last
  flush. Lines written less than that after a flush stay in stdio, for as long as no
  line follows: nothing promises that a line is on disk some seconds after it was appended, and
  `StopDrainsTheLog` claims it for a stopped log only.
* *A failed `accept4`* hands on -1, and the assertion `TcpServer.cpp:38` ends the server.
* *A header's value* begins two characters behind its colon: without the
  customary blank its first character is lost. The modelled clients write the blank.
* *`DELETE`* is compared with "Delete" and never recognised as a method.
* *A line that fits a log buffer to the last byte* passes `Append`'s test (`>=`), and
  `FixedBuffer::append` (`>`) drops it. `LinesInOrder` shows that no other line goes.
* *Lines appended after the last swap* are lost at `Stop` unless the back end is in
  its wait.

## 6. Proofs

The theorems about a component are in a module of their own, named after it; those about
the timers and the loop, which run in one thread, share `ReactorProofs`, and those about
the buffer are with the connection that fills it, in `TcpEndpointProofs`.
TLAPS checks them for all values of the constants, under the named assumption on
the constants alone:

| Module | About | Assumes |
|---|---|---|
| `TcpConnectionProofs` | the operators of the class, and sequences of bytes | nothing |
| `ProxySessionProofs` | the session and its refinement of `Relay` | `ConstantsAssumption`: byte bounds are naturals, capacities and the batch positive, the switches Boolean |
| `TcpEndpointProofs` | one connection under any user; the buffer and its refinement of `ByteQueue` | `EndpointAssumption`: the number of bytes is a natural, a message and the send buffer hold at least one; `BufferAssumption`: sizes are naturals, a piece has at least one byte |
| `LoadBalancerProofs` | map, descriptors, turns | `BalancerAssumption`: finitely many clients, at least one backend and one descriptor, `NoClient` is no client |
| `ReactorProofs` | the timer queue; the loop and its refinement of `Executor` | `TimerAssumption` (`NoTimer` is not a timer, the longest delay is positive), `LoopAssumption` (the eventfd holds at least one, `Self` is none of the other threads), `FunctorAssumption` (`NoFunctor` is not a functor) |
| `AsyncLoggingProofs` | the log; flattened sequences | `LogAssumption`: positive buffers, and no line longer than one |
| `HttpServerProofs` | the parser over any cut of any request; one HTTP connection | `HttpAssumption` (positive lengths, a head fits the send buffer), `RequestAssumption` (a request is one a client may make: a known method and version, names without blanks and none twice, a `Content-Length` that `atoi` reads as the body's length) |
| `TcpServerProofs` | the multi-threaded server | `ServerAssumption`: at least one descriptor, any number of sub-reactors, `None` is no connection |

**The invariant.** None of the properties is inductive. `PausedIsResumable` says that a
paused source has a target with output that epoll watches; a step that resumes,
closes or half-closes keeps it only because of facts about flags it does not
mention. `Inv` is the conjunction of

* `SessionType` and `LoopType` (together `TypeOK`, by `TypeSplit`);
* `SessionInv`, that is `WellFormed` of both connections (epoll's interest follows from
  the flags and the output), `Lifecycle` (which states of session, connector and
  connections go together) and `Coupling` (a side that reads has a target without
  output; a side that does not has seen its end or has a target with output; one
  side's end of stream is the other's requested half-close).

The run `session` checks the consequences with TLC. `InvNext` has one lemma per kind of
callback (`ReadMessagePreserves`, `ReadEofPreserves`, `WriteOutputPreserves`, ...) on
top of `TcpConnectionProofs`, which says what each method does to a well-formed
connection.

**The stream.** `NoByteIsLost` (`StreamIntact`): while the session is open and the
receiving peer has not reset, what a peer sent equals what the other one read, its
send buffer, `output_` and the receive buffer, in that order. A callback moves bytes
across one of these three boundaries; `FlushKeepsStream`, `HandOverKeepsStream`,
`PeerReadKeepsStream` and `PeerSendExtendsStream` say that each move keeps the
concatenation. The hand-over in `ReadMessage` needs `Inv`: it is sound only because the
target's output is empty whenever the source is read (`Coupling`).

**The ends.** `ClosesCleanly` (`CleanClose`) says that without a fault a session that
has closed has forwarded both streams whole. Why a session closes is known only
from events that were reported earlier, so `CauseInv` records what the rest of the state
says of it: events wait in a batch only, while the session is held (`BatchInv`); a
connector that has succeeded has a socket, and a closed session no timer (`KernelInv`); a
FIN is on the wire, and an end of stream read, only where the connection says so, and then
nothing is unread (`EndInv`); and every event has the cause its callback acts upon, a
`CLOSE` a reset, a connector's result a decided dial, a timer's three seconds that have
passed (`EventInv`). `NoChannelDangles` is `BatchInv`. Every callback
is one of four kinds of step: it leaves the bytes alone (`Quiet`), moves them
with the session open (`Kept`), closes it with both streams whole (`Ended`), or
closes it for a fault (`Cut`); each preserves `SessionStreams`, and each callback has one
lemma that says which kind it is.

**The relay.** The refinement maps what a peer has been sent, what it has got and
what is on its way (`InTransit`: buffers and output while the stream is intact) to the
abstract pipes. The four kinds of step map to sending, delivering, ending and breaking
a stream, or to a stutter; `SessionIsRelay` adds the fact, from `SessionStreams`, that an
abstract pipe breaks for a cause only.

**One connection.** `TcpEndpoint` leaves the user free, so its `Inv` holds no fact of the
proxy: `WellFormed` of the connection, the bytes as one stream from `Send` to the peer
(`Streams`, also before `Establish`), and two facts about what the channel still has to
handle: a hang-up is on its way only for a connection that was reset or is done
(`HangupIsKnown`), and the close callback is told of a closed connection
(`ClosedWhenTold`). `CallbacksComeInOrder` needs both: a callback behind the close would
have to come from a connection that is closed.

**The balancer.** `MapIsExact` and `DescriptorsAreOwned` are inductive once the kernel's
queue is: a client waits in it at most once and has no session yet (`QueueInv`,
`SessionInv`). That a descriptor `LowestFree` returns is nobody's, and that closing one
takes it from its one owner, is what the accept loop, the connector and the close share.
The turns are stated as `TurnsInv`: all backends have had some number of turns, and those
before `next` one more; `TurnsAreFair` follows.

**The timers.** None of the four properties is inductive. `AlarmCoversQueue` speaks of
a loop that may sleep; whether `AddTimer` may leave the timerfd alone is decided from
an earlier reading of the clock, and `HandleRead` sets it for a queue it has just
put together. `TimerInv` counts where a timer is, which a step keeps only if no entry
is in two places; `NeverEarly` and `CancelIsFinal` need what an entry says of its
timer. `IInv` is the conjunction of type correctness and of

* `Disjoint`: the queue is ordered, and queue and batch hold a timer at most once;
* `EntriesInv`: an entry of the queue does not expire before its timer is due, one of the
  batch was due when it got there and its turn was used or is still to come;
* `TurnInv` and `AddingInv`: where `HandleRead` is in the batch, and what `AddTimer` knows
  between its readings of the clock, in particular that a timerfd it will not set
  is early enough although the clock moves on;
* `HeldInv`: just the timers that are to be called are held;
* `AlarmInv`: the timerfd has expired or will not be late, and an expiration that epoll
  has reported is not taken back (`DispatchFindsExpired`).

TLC checked `IInv` before it was proved. The operators have lemmas of their own:
`InsertProperties` (an insertion keeps order, members and everything else in place),
`PrefixCount` and `EarlyPrefix` (the number of expired entries is the length of the
expired prefix), and `ReinsertedProperties`, by induction over the batch
(`SetInduction`): after the loop the queue holds what it held and the repeating timers
of the batch, once. `PlacesCount` turns `Disjoint` and `HeldInv` into the count that
`NoTimerIsLost` states.

**The loop.** `NoLostWakeup` speaks of a sleeping loop only, and whether the loop may fall
asleep depends on what happened before. `WorkIsAnnounced` says that a wake-up is due
from the push on, in every phase but those between `HandleWakeup`, which drains the
counter, and the swap, which takes the functors anyway; and that a request to quit the
loop did not see in its test has one. A counter that is full is positive, so a
refused write loses nothing (`WakeupCounts`). For the refinement, the executor's
queue is `functors \o pending`: the swap is a stutter because it happens only
when `functors` is empty, a throw drops what is left of `functors`, a prefix of that
queue (`BehindFirst`). `QueueInv` says that `functors` is empty outside
`RunPendingFunctors`, that a functor runs just while it is called, and that no queued
functor is still to be pushed.

**The buffer.** `EnsureMakesRoom` states what both branches of `MakeSpace` share: the
same content somewhere in a vector (`Roomy`), which has kept its size or has at most
twice what must be held behind the prepend area (`Modest`). The second half holds because
the vector grows only when moving would not do: then the bytes already read are fewer
than those to be held. `Append` and `HasWritten` are one case on top of it (`PuttingIsPut`).

**The spare buffers.** `SparesSuffice` is not inductive: that the swap can refill both
spares rests on what the front ends had used up. If `next_` is null, `buffers_`
has at least one buffer, `current_` makes two, and each empty spare
gets one of these. `BuffersInv` states that half at all times, also before the
back end has started, with the shapes of the pointers, and that a spare is empty.
`SparesAlwaysSuffice` follows for all of `LogInv`.

**The lines.** `LinesInOrder` flattens files, writes and buffers and drops the lines that
fill a buffer. The proof characterises `FlattenSeq` by the sequence of partial
concatenations (`Joins`): there is one (`JoinsExist`), there is only one
(`JoinsAgree`), so that an appended buffer or file goes to the end (`FlattenAppend`). The
induction is over a set of naturals (`SetInduction`, from the library's
well-foundedness of `<`). `LinesInv` adds that nothing is stored but bytes of lines that
were appended. `AppendLineStores` and `WriteOutStores` say what a step does to what is
stored: `Append` puts one line at its end, and neither a swap nor a write changes it.

**The server.** That the map is exact depends on functors that wait in other loops: a
connection that left epoll is still somebody's until its `destroy` functor
ran, and its map entry stands until its `close` functor did. `IInv` says what each functor
in a queue stands for (`FunctorInv`), what a loop can have in hand in which phase
(`PhaseInv`), that an event in a batch stays true (`BatchInv`), that a registered channel's
connection is in the map or in a functor (`OwnedInv`), and, where no idle timer runs beside
a sub-reactor (`Alone`), that a connection's `close` is queued once (`OnceInv`). `Alone`
is no hypothesis of the theorem: it is the case split by which `CloseIsOnce` says who may
close twice, and the run `server_close_race` shows that the other case happens. TLC checked
`IInv` with and without the timer before it was proved.

**The request.** `HttpInv` says what `onRequest` is given, whatever reads the network made
of a request and whatever was asked before. The parser does not carry a request over a
cut: a read that ends inside the head is refused, one that ends inside the body leaves
the parser behind the head, and the next read is taken for the whole body. So the
invariant (`Waiting`) knows of the parser no more than this: it is new, with the request
unread, or in `BODY` with the head learnt and a rest of the body unread. That it is
inductive is `ReadMeans`, from two facts about `ParaseRequest`: `ParsesRequest` (from the
start, any prefix) and `ParsesBody` (from `BODY`, any text). Both are about the run of the
loop: `TraceExists` and `ParsesByTrace` give the sequence of contexts, one behind each
character, that the recursive function stands for; a lemma for each token (`PathMoves`,
`ParamMoves`, `LineMoves`, `HeaderMoves`) says where it leads from where;
`ReadsUrl` and `ReadsHeaders` chain them, by induction over the number of parameters and
of headers; `RefusesPart` shows that no state inside the head survives the
terminating NUL as `BODY` or `COMPLETE`. `HeadText` and `PrefixReads` say which character stands where in what
a client writes, which `ReadsWholeHead` needs of a read.

**The answers.** `AnswersInOrder` speaks of a prefix; the equation behind it is
`received \o socket \o output \o FileLeft = Sent` (`OnTheWay`): nothing is dropped before
a close with output waiting, and `FileLeft`, what `sendfile()` has not yet taken, is all
of the file as long as nothing was skipped. It is kept by every way bytes move
(`SendSends`, `BytesJoin`, `WritesKeep`, `FileKeeps`). An answer may be sent past `output_` only
because nothing is left of the one before: the client asks when the last byte of that
answer has arrived (`Arrived`), every byte is sent once (`SentOnce`), and behind the last
byte of a sequence there is nothing (`NothingBehind`). TLC checked the invariant,
`HttpIInv`, before it was proved.

| Theorem | States |
|---|---|
| `TypeCorrect`, `SessionSound` | `TypeOK`, `SessionInv` |
| `FlowIsControlled` | `FlowControl` (`BoundedOutput`, `PausedIsResumable`, `HalfClosedIsReading`) |
| `DestroyedUnregistered` | `DestroyedIsUnregistered` |
| `ClosedStaysInert` | `ClosedIsInert` |
| `NoByteIsLost` | `StreamIntact` |
| `ClosesCleanly` | `CleanClose` |
| `NoChannelDangles` | `BatchIsAlive` |
| `SessionIsRelay` | `ImplementsRelay` |
| `EndpointIsSound` | `EndpointInv` |
| `PausedIsKept` | `PausedOutlivesHangup` |
| `CallbacksComeInOrder` | `CallbacksAreOrdered` |
| `NothingLeaks` | `BalancerInv` |
| `TurnsAreFair` | `BackendsTakeTurns` |
| `RefusedForWantOfRoom` | `RefusedOnlyWhenFull` |
| `SparesAlwaysSuffice` | `LogInv` |
| `LinesStayInOrder` | `LinesInOrder` |
| `ServerIsSound` | `ServerInv` |
| `TimersAreKept` | `TimerInv` (`NoTimerIsLost`, `DispatchFindsExpired`) |
| `SleepIsBounded` | `AlarmCoversQueue` |
| `TimersAreNeverEarly` | `NeverEarly` |
| `CancellationIsFinal` | `CancelIsFinal` |
| `LoopNeverSleepsOnWork` | `LoopInv` (`NoLostWakeup`) |
| `LoopIsExecutor` | the safety part of `ImplementsExecutor` |
| `BufferIsBounded` | `BufferInv` (`StorageIsBounded`) |
| `BufferIsByteQueue` | `ImplementsByteQueue` |
| `RequestsAreExact` | `HttpInv` (`RequestIsExact`) |
| `AnswersArriveInOrder` | `AnswersInOrder` |

**Model-checked only.** All liveness properties, and with them the fairness part of
`Executor`: fairness and `ENABLED` are out of the prover's reach. So are the three
violations. Every safety property of the passing runs is a theorem.

## 7. Not modelled

* The growth of epoll's event array and batches that do not hold every ready channel.
* `epoll_ctl` failures, and exceptions other than those of `socket` and `accept`: they
  leave `Loop` and end the program.
* `ENFILE` apart from `EMFILE` (the handler treats them alike), `EINTR` retries.
* A loop used by another thread after its destruction.
* Addresses, socket options and their parsing; command line and start-up errors,
  which end the program before anything is shared; logging.
* Misuse that the code answers with an exception or an assertion (a second `Start`,
  a method called from another thread).
* In `code/day29`: the start-up handshake of `EventLoopThread` (over before a connection
  exists), errors of `read`, `write` and `sendfile` other than "would block", the timer
  queue (ancestor of the one modelled), the formatting of `LogStream` and `Logging`,
  what an upload writes to disk, a race on a tie that is written while another
  thread reads it, and a client that sends a request before the last one's
  answer.
* Tests, examples, documents, the archive of the full version, and `code/day01` to
  `code/day28` (section 2.3).
