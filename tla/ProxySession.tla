--------------------------- MODULE ProxySession ----------------------------
(***************************************************************************)
(* One proxied session (l4lb/src/lb/ProxySession.cpp): a client connection *)
(* and a backend connection, joined by a single-threaded event loop.       *)
(*                                                                         *)
(* The module composes the two TcpConnections, the Connector that opens    *)
(* the backend, the dispatch of epoll events to Channels, the functors     *)
(* that keep closed objects alive to the end of a batch, the kernel's      *)
(* socket buffers and the two remote peers.  A step of the proxy is one    *)
(* Channel callback, run to completion: the loop has one thread, and what  *)
(* the kernel or a peer does while a callback runs commutes with it.       *)
(***************************************************************************)
EXTENDS TcpConnection

CONSTANTS
  MaxBytes,    \* bytes a peer sends at most (bounds the behaviours), per side
  RcvCap,      \* capacity of a socket's receive buffer
  SndCap,      \* capacity of a socket's send buffer
  BatchSize,   \* kReadBatchSize: what one read() returns at most
  PeerMayReset,    \* may a peer answer with RST?
  SocketMayFail    \* may socket() fail in Connector::Start (EMFILE, ENFILE)?

Sides == {"client", "backend"}

ASSUME ConstantsAssumption ==
  /\ MaxBytes \in [Sides -> Nat]
  /\ RcvCap \in Nat \ {0}
  /\ SndCap \in Nat \ {0}
  /\ BatchSize \in Nat \ {0}
  /\ PeerMayReset \in BOOLEAN
  /\ SocketMayFail \in BOOLEAN

Other(s) == IF s = "client" THEN "backend" ELSE "client"

\* What epoll can report about: the three sockets and the timerfd.
Channels == Sides \cup {"connector", "timer"}

\* "CLOSE" is EPOLLERR, or EPOLLHUP without EPOLLIN: for both the callback
\* is ForceClose (a connection) or HandleError (the connector).
Event == {"CLOSE", "IN", "OUT"}

VARIABLES
  \* the session
  conn,        \* client_ and backend_
  connector,   \* connector_->state_
  closed,      \* closed_
  owned,       \* the session is in LoadBalancer::sessions_
  \* the event loop
  phase,       \* "poll", "dispatch", or "exited" once Loop() has returned
  ready,       \* the events of the current batch that wait for their callback
  current,     \* the channel in HandleEvent, whose owner is locked
  retained,    \* the objects held by pending functors
  timer,       \* the connector's timer: "none", "armed" or "cancelled"
  \* the kernel
  dial,        \* connect(): "none", "pending", "ok" or "failed"
  timedOut,    \* the connector's three seconds have passed
  wire,        \* what was sent last: "none", "open", "fin" or "rst"
  rcv, snd,    \* bytes in the socket's receive and send buffers
  fin, err,    \* the peer's FIN has arrived; the peer's RST has arrived
  \* the peers
  sent, got,   \* bytes the peer has sent to, and read from, the proxy
  eof          \* the peer has read the end of its stream

session == <<conn, connector, closed, owned>>
loop    == <<phase, ready, current, retained, timer>>
kernel  == <<dial, timedOut, wire, rcv, snd, fin, err>>
peers   == <<sent, got, eof>>
vars    == <<session, loop, kernel, peers>>

TypeOK ==
  /\ conn \in [Sides -> Connection]
  /\ connector \in {"Idle", "Connecting", "Succeeded", "Failed", "Cancelled"}
  /\ closed \in BOOLEAN
  /\ owned \in BOOLEAN
  /\ phase \in {"poll", "dispatch", "exited"}
  /\ ready \in [Channels -> SUBSET Event]
  /\ current \in Channels \cup {"none"}
  /\ retained \in SUBSET (Sides \cup {"session"})
  /\ timer \in {"none", "armed", "cancelled"}
  /\ dial \in {"none", "pending", "ok", "failed"}
  /\ timedOut \in BOOLEAN
  /\ wire \in [Sides -> {"none", "open", "fin", "rst"}]
  /\ rcv \in [Sides -> Seq(Nat)]
  /\ snd \in [Sides -> Seq(Nat)]
  /\ \A s \in Sides : Len(rcv[s]) <= RcvCap /\ Len(snd[s]) <= SndCap
  /\ fin \in [Sides -> BOOLEAN]
  /\ err \in [Sides -> BOOLEAN]
  /\ sent \in [Sides -> Seq(Nat)]
  /\ got \in [Sides -> Seq(Nat)]
  /\ eof \in [Sides -> BOOLEAN]

\* LoadBalancer::OnNewConnection has put the session in its map and is about
\* to call Start(); the client was accepted and may already have sent bytes.
Init ==
  /\ conn = [s \in Sides |-> Blank(IF s = "client" THEN "Connecting" ELSE "None")]
  /\ connector = "Idle"
  /\ closed = FALSE
  /\ owned = TRUE
  /\ phase = "dispatch"
  /\ ready = [ch \in Channels |-> {}]
  /\ current = "none"
  /\ retained = {}
  /\ timer = "none"
  /\ dial = "none"
  /\ timedOut = FALSE
  /\ wire = [s \in Sides |-> IF s = "client" THEN "open" ELSE "none"]
  /\ rcv = [s \in Sides |-> <<>>]
  /\ snd = [s \in Sides |-> <<>>]
  /\ fin = [s \in Sides |-> FALSE]
  /\ err = [s \in Sides |-> FALSE]
  /\ sent = [s \in Sides |-> <<>>]
  /\ got = [s \in Sides |-> <<>>]
  /\ eof = [s \in Sides |-> FALSE]

-----------------------------------------------------------------------------
(* The kernel                                                              *)

Lesser(a, b) == IF a < b THEN a ELSE b

Free(s) == SndCap - Len(snd[s])

\* How many of n bytes a send() on s may take; 0 is EAGAIN.
Accepted(s, n) == IF Free(s) = 0 THEN {0} ELSE 1 .. Lesser(Free(s), n)

\* The peer of s talks to an open socket of the proxy.
Live(s) == wire[s] # "none" /\ ~closed

\* shutdown(SHUT_WR) on the sockets whose write side cn has just shut.
WireAfter(cn) ==
  [s \in Sides |-> IF cn[s].writeShutdown /\ wire[s] = "open" THEN "fin" ELSE wire[s]]

\* What epoll_wait reports for a channel.  EPOLLHUP needs both directions shut.
ReadyConnection(s) ==
  LET c == conn[s]
  IN  IF ~c.added THEN {} ELSE
        {ev \in Event :
           \/ ev = "IN"  /\ "IN" \in c.events  /\ (rcv[s] # <<>> \/ fin[s] \/ err[s])
           \/ ev = "OUT" /\ "OUT" \in c.events /\ (Free(s) > 0 \/ err[s] \/ wire[s] = "fin")
           \/ ev = "CLOSE" /\ (err[s] \/ (fin[s] /\ wire[s] = "fin" /\ "IN" \notin c.events))}

ReadyConnector ==
  IF connector # "Connecting" THEN {} ELSE
    {ev \in Event : \/ ev = "OUT" /\ dial \in {"ok", "failed"}
                    \/ ev = "CLOSE" /\ (dial = "failed" \/ err["backend"])}

ReadyEvents(ch) ==
  CASE ch \in Sides      -> ReadyConnection(ch)
    [] ch = "connector"  -> ReadyConnector
    [] ch = "timer"      -> IF timer = "armed" /\ timedOut THEN {"IN"} ELSE {}

-----------------------------------------------------------------------------
(* The session                                                             *)

\* Wrong: Close() does not queue the functor that holds the session.
RetainConnections(cn) == retained \cup {s \in Sides : IsOpen(cn[s])}

\* QueueInLoop([self] {}), of each ForceClose and of Close.
Retain(cn) == retained \cup {"session"} \cup {s \in Sides : IsOpen(cn[s])}

\* Close() when the connections are cn, the connector is in state k, and the
\* kernel's buffers are rq and sq.
\* ForceClose's close callback re-enters Close, which returns at closed_.
\* Closing a socket with unread bytes answers with RST and drops what it
\* still had to send.
CloseSession(cn, k, rq, sq) ==
  LET reset(s) == wire[s] # "none" /\ rq[s] # <<>>
  IN  /\ closed' = TRUE
      /\ owned' = FALSE
      /\ conn' = [s \in Sides |-> ForceClose(cn[s])]
      /\ connector' = IF k \in {"Idle", "Connecting"} THEN "Cancelled" ELSE k
      /\ timer' = IF timer = "armed" THEN "cancelled" ELSE timer
      /\ retained' = Retain(cn)
      /\ wire' = [s \in Sides |-> CASE wire[s] = "none" -> "none"
                                    [] reset(s)         -> "rst"
                                    [] OTHER            -> "fin"]
      /\ rcv' = rq
      /\ snd' = [s \in Sides |-> IF reset(s) THEN <<>> ELSE sq[s]]

\* A callback that leaves the session open.
KeepSession(cn, rq, sq) ==
  /\ conn' = cn
  /\ wire' = WireAfter(cn)
  /\ rcv' = rq
  /\ snd' = sq
  /\ UNCHANGED <<connector, closed, owned, retained, timer>>

\* Wrong: the first end of stream ends both.
FinishedAtFirstEof(cn) ==
  /\ cn["backend"].state # "None"
  /\ \E s \in Sides : cn[s].receivedEof
  /\ \A s \in Sides : cn[s].output = <<>>

\* Both ends are at end of stream and everything was handed to the kernel.
Finished(cn) ==
  /\ cn["backend"].state # "None"
  /\ \A s \in Sides : cn[s].receivedEof /\ cn[s].output = <<>>

CheckFinished(cn, rq, sq) ==
  IF ~closed /\ Finished(cn) THEN CloseSession(cn, connector, rq, sq)
                             ELSE KeepSession(cn, rq, sq)

-----------------------------------------------------------------------------
(* The event loop                                                          *)

\* The first callback of channel ch that is still due: the order is that of
\* Channel::HandleEventWithGuard, and a channel's callbacks are not
\* interrupted by another channel's.
Dispatch(ch, ev) ==
  /\ phase = "dispatch"
  /\ current \in {ch, "none"}
  /\ ev \in ready[ch]
  /\ ev = "IN" => "CLOSE" \notin ready[ch]
  /\ ev = "OUT" => ready[ch] = {"OUT"}
  /\ ready' = [ready EXCEPT ![ch] = @ \ {ev}]
  /\ current' = IF ready[ch] = {ev} THEN "none" ELSE ch
  /\ UNCHANGED <<phase, dial, timedOut, fin, err, peers>>

\* epoll_wait returns; the order of its channels is left to Dispatch.
Poll ==
  /\ phase = "poll"
  /\ ready' = [ch \in Channels |-> ReadyEvents(ch)]
  /\ \E ch \in Channels : ready'[ch] # {}
  /\ phase' = "dispatch"
  /\ UNCHANGED <<session, current, retained, timer, kernel, peers>>

\* The batch is over: the pending functors run and let go of what they hold.
RunPendingFunctors ==
  /\ phase = "dispatch"
  /\ conn["client"].state # "Connecting"
  /\ \A ch \in Channels : ready[ch] = {}
  /\ phase' = "poll"
  /\ retained' = {}
  /\ UNCHANGED <<session, ready, current, timer, kernel, peers>>

\* main(): Loop() has returned after a signal, and Stop() closes the session.
Stop ==
  /\ phase = "poll"
  /\ phase' = "exited"
  /\ IF closed THEN UNCHANGED <<session, retained, timer, wire, rcv, snd>>
               ELSE CloseSession(conn, connector, rcv, snd)
  /\ UNCHANGED <<ready, current, dial, timedOut, fin, err, peers>>

-----------------------------------------------------------------------------
(* Opening the backend: ProxySession::Start and the Connector              *)

\* The connector hands its socket to a connection that reads at once.
BackendConnected(cn) ==
  /\ conn' = [cn EXCEPT !["client"]  = StartRead(@),
                        !["backend"] = Establish(Blank("Connecting"), TRUE)]
  /\ connector' = "Succeeded"
  /\ timer' = IF timer = "armed" THEN "cancelled" ELSE timer
  /\ UNCHANGED <<closed, owned, retained>>

\* Start(): the client waits unread while connect() succeeds at once, is in
\* progress, fails at once, or is never called because socket() throws.
Started == [conn EXCEPT !["client"] = Establish(@, FALSE)]

StartCall ==
  /\ conn["client"].state = "Connecting"
  /\ UNCHANGED <<phase, ready, current, timedOut, fin, err, peers>>

StartConnected ==
  /\ StartCall
  /\ dial' = "ok"
  /\ wire' = [wire EXCEPT !["backend"] = "open"]
  /\ BackendConnected(Started)
  /\ UNCHANGED <<rcv, snd>>

\* Wrong: the connector waits without a timer.
StartUntimed ==
  /\ StartCall
  /\ conn' = Started
  /\ connector' = "Connecting"
  /\ dial' = "pending"
  /\ UNCHANGED <<closed, owned, retained, timer, wire, rcv, snd>>

StartPending ==
  /\ StartCall
  /\ conn' = Started
  /\ connector' = "Connecting"
  /\ timer' = "armed"
  /\ dial' = "pending"
  /\ UNCHANGED <<closed, owned, retained, wire, rcv, snd>>

StartRefused ==
  /\ StartCall
  /\ dial' = "failed"
  /\ CloseSession(Started, "Failed", rcv, snd)

StartThrows ==
  /\ SocketMayFail
  /\ StartCall
  /\ conn' = Started
  /\ UNCHANGED <<connector, timer, dial, closed, owned, retained, wire, rcv, snd>>

\* CompleteFailure(error, kFailed), whose error callback closes the session.
FailConnect == CloseSession(conn, "Failed", rcv, snd)

\* Connector::HandleError, for EPOLLERR and EPOLLHUP.
ConnectorError ==
  /\ Dispatch("connector", "CLOSE")
  /\ IF connector = "Connecting" THEN FailConnect
                                 ELSE UNCHANGED <<session, retained, timer, wire, rcv, snd>>

\* Connector::HandleWrite reads SO_ERROR to learn what became of connect().
ConnectorWrite ==
  /\ Dispatch("connector", "OUT")
  /\ CASE connector # "Connecting" -> UNCHANGED <<session, retained, timer, wire, rcv, snd>>
       [] connector = "Connecting" /\ dial = "ok" /\ ~err["backend"] ->
            BackendConnected(conn) /\ UNCHANGED <<wire, rcv, snd>>
       [] OTHER -> FailConnect

\* The timer queue skips a cancelled timer; HandleTimeout looks at state_.
ConnectorTimeout ==
  /\ Dispatch("timer", "IN")
  /\ IF timer = "armed" /\ connector = "Connecting"
     THEN FailConnect
     ELSE UNCHANGED <<session, retained, timer, wire, rcv, snd>>

-----------------------------------------------------------------------------
(* The callbacks of the two connections                                    *)

Untouched == UNCHANGED <<session, retained, timer, wire, rcv, snd>>

\* ForceClose on one end closes the session and with it the other end.
Abort == CloseSession(conn, connector, rcv, snd)

\* EPOLLERR, or EPOLLHUP without EPOLLIN.
HandleClose(s) ==
  /\ Dispatch(s, "CLOSE")
  /\ IF IsOpen(conn[s]) THEN Abort ELSE Untouched

CanRead(s) == conn[s].state = "Connected" /\ conn[s].reading

\* Wrong: HandleWrite does not ask whether the connection was closed meanwhile.
HasOutput(s) == conn[s].output # <<>>

CanWrite(s) == conn[s].state = "Connected" /\ conn[s].output # <<>>

\* Wrong: bytes waiting in the other direction pause this one, too.
PauseOnEither(source, target) ==
  IF target.output # <<>> \/ source.output # <<>> THEN StopRead(source) ELSE source

\* The source stops reading while the target has bytes waiting.
PauseSource(source, target) == IF target.output # <<>> THEN StopRead(source) ELSE source

\* Wrong: the drained end does not resume the other one.
NoResume(cn, s) == cn

\* The write-complete callback of s resumes the other end.
Resume(cn, s) == [cn EXCEPT ![Other(s)] = StartRead(@)]

\* Another callback of the batch has paused or closed the connection.
ReadSkipped(s) ==
  /\ Dispatch(s, "IN")
  /\ ~CanRead(s)
  /\ Untouched

\* read() returns one batch, which OnClientMessage / OnBackendMessage sends to
\* the other end; if that end now has bytes waiting, this one stops reading.
ReadMessage(s) ==
  LET o    == Other(s)
      n    == Lesser(BatchSize, Len(rcv[s]))
      data == SubSeq(rcv[s], 1, n)
      rest == [rcv EXCEPT ![s] = SubSeq(@, n + 1, Len(@))]
      direct == ~Drops(conn[o]) /\ conn[o].output = <<>>
  IN  /\ Dispatch(s, "IN")
      /\ CanRead(s)
      /\ rcv[s] # <<>>
      /\ \/ /\ direct /\ err[o]
            /\ CloseSession(conn, connector, rest, snd)
         \/ /\ ~(direct /\ err[o])
            /\ \E taken \in IF direct THEN Accepted(o, n) ELSE {0} :
                 LET target == Send(conn[o], data, taken)
                 IN  KeepSession([conn EXCEPT ![o] = target, ![s] = PauseSource(@, target)], rest,
                                 [snd EXCEPT ![o] = @ \o SubSeq(data, 1, taken)])

\* Wrong: EPOLLRDHUP is taken for the end of the stream.
EofAtRdhup(s) ==
  /\ Dispatch(s, "IN")
  /\ CanRead(s)
  /\ fin[s]
  /\ CheckFinished([conn EXCEPT ![s] = StopRead([@ EXCEPT !.receivedEof = TRUE]),
                                ![Other(s)] = ShutdownWrite(@)], rcv, snd)

\* Wrong: the end of the second stream does not end the session.
EofUnchecked(s) ==
  /\ Dispatch(s, "IN")
  /\ CanRead(s)
  /\ rcv[s] = <<>> /\ fin[s]
  /\ KeepSession([conn EXCEPT ![s] = StopRead([@ EXCEPT !.receivedEof = TRUE]),
                              ![Other(s)] = ShutdownWrite(@)], rcv, snd)

\* read() returns 0: OnClientEof / OnBackendEof.
ReadEof(s) ==
  /\ Dispatch(s, "IN")
  /\ CanRead(s)
  /\ rcv[s] = <<>> /\ fin[s]
  /\ CheckFinished([conn EXCEPT ![s] = StopRead([@ EXCEPT !.receivedEof = TRUE]),
                                ![Other(s)] = ShutdownWrite(@)], rcv, snd)

\* read() fails after the peer's RST.
ReadError(s) ==
  /\ Dispatch(s, "IN")
  /\ CanRead(s)
  /\ rcv[s] = <<>> /\ err[s]
  /\ Abort

WriteSkipped(s) ==
  /\ Dispatch(s, "OUT")
  /\ ~CanWrite(s)
  /\ Untouched

\* Wrong: the output is taken for written whatever send() returned.
WriteWhole(s) ==
  /\ Dispatch(s, "OUT")
  /\ CanWrite(s)
  /\ ~err[s]
  /\ CheckFinished(Resume([conn EXCEPT ![s] = Drained(@, Len(@.output))], s), rcv,
                   [snd EXCEPT ![s] = @ \o conn[s].output])

\* send() takes some of the output; once it is empty the write-complete
\* callback resumes the other end.
WriteOutput(s) ==
  /\ Dispatch(s, "OUT")
  /\ CanWrite(s)
  /\ ~err[s]
  /\ \E taken \in Accepted(s, Len(conn[s].output)) :
       LET target == Drained(conn[s], taken)
           sq     == [snd EXCEPT ![s] = @ \o SubSeq(conn[s].output, 1, taken)]
       IN  IF target.output # <<>>
           THEN KeepSession([conn EXCEPT ![s] = target], rcv, sq)
           ELSE CheckFinished(Resume([conn EXCEPT ![s] = target], s), rcv, sq)

WriteError(s) ==
  /\ Dispatch(s, "OUT")
  /\ CanWrite(s)
  /\ err[s]
  /\ Abort

-----------------------------------------------------------------------------
(* The network and the peers                                               *)

Connect(result) ==
  /\ connector = "Connecting" /\ dial = "pending"
  /\ dial' = result
  /\ wire' = IF result = "ok" THEN [wire EXCEPT !["backend"] = "open"] ELSE wire
  /\ UNCHANGED <<session, loop, timedOut, rcv, snd, fin, err, peers>>

ThreeSecondsPass ==
  /\ timer = "armed" /\ ~timedOut
  /\ timedOut' = TRUE
  /\ UNCHANGED <<session, loop, dial, wire, rcv, snd, fin, err, peers>>

\* A byte's value is its position in the peer's stream.
PeerSend(s) ==
  /\ Live(s) /\ ~fin[s] /\ ~err[s]
  /\ Len(sent[s]) < MaxBytes[s] /\ Len(rcv[s]) < RcvCap
  /\ sent' = [sent EXCEPT ![s] = Append(@, Len(@) + 1)]
  /\ rcv' = [rcv EXCEPT ![s] = Append(@, Len(sent[s]) + 1)]
  /\ UNCHANGED <<session, loop, dial, timedOut, wire, snd, fin, err, got, eof>>

PeerFin(s) ==
  /\ Live(s) /\ ~fin[s] /\ ~err[s]
  /\ fin' = [fin EXCEPT ![s] = TRUE]
  /\ UNCHANGED <<session, loop, dial, timedOut, wire, rcv, snd, err, peers>>

\* Unread bytes stay readable, unsent ones are lost.
PeerReset(s) ==
  /\ PeerMayReset
  /\ Live(s) /\ ~err[s]
  /\ err' = [err EXCEPT ![s] = TRUE]
  /\ snd' = [snd EXCEPT ![s] = <<>>]
  /\ UNCHANGED <<session, loop, dial, timedOut, wire, rcv, fin, peers>>

PeerRead(s) ==
  /\ snd[s] # <<>>
  /\ got' = [got EXCEPT ![s] = Append(@, Head(snd[s]))]
  /\ snd' = [snd EXCEPT ![s] = Tail(@)]
  /\ UNCHANGED <<session, loop, dial, timedOut, wire, rcv, fin, err, sent, eof>>

PeerReadEof(s) ==
  /\ wire[s] = "fin" /\ snd[s] = <<>> /\ ~err[s] /\ ~eof[s]
  /\ eof' = [eof EXCEPT ![s] = TRUE]
  /\ UNCHANGED <<session, loop, kernel, sent, got>>

-----------------------------------------------------------------------------

Callback(s) ==
  \/ HandleClose(s)
  \/ ReadSkipped(s) \/ ReadMessage(s) \/ ReadEof(s) \/ ReadError(s)
  \/ WriteSkipped(s) \/ WriteOutput(s) \/ WriteError(s)

Start == StartConnected \/ StartPending \/ StartRefused \/ StartThrows

LoopStep ==
  \/ Start
  \/ Poll
  \/ ConnectorError \/ ConnectorWrite \/ ConnectorTimeout
  \/ \E s \in Sides : Callback(s)
  \/ RunPendingFunctors

Environment ==
  \/ Connect("ok") \/ Connect("failed")
  \/ ThreeSecondsPass
  \/ \E s \in Sides :
       \/ PeerSend(s) \/ PeerFin(s) \/ PeerReset(s)
       \/ PeerRead(s) \/ PeerReadEof(s)

Next == LoopStep \/ Stop \/ Environment

Spec == Init /\ [][Next]_vars

\* The loop's thread keeps running and time passes; whether the program is
\* stopped, and whether the backend answers, is left open.
Fairness == WF_vars(LoopStep) /\ WF_vars(ThreeSecondsPass)

\* The peer of s goes on reading.
PeerKeepsReading(s) == WF_vars(PeerRead(s)) /\ WF_vars(PeerReadEof(s))

\* The backend's peer goes on reading; the client's may stop at any time.
FairSpec == Spec /\ Fairness /\ PeerKeepsReading("backend")

-----------------------------------------------------------------------------
(* Safety                                                                  *)

\* What may cut a session short: a reset, a backend that could not be
\* connected, or the program's end.
Fault ==
  \/ \E s \in Sides : err[s]
  \/ closed /\ connector # "Succeeded" /\ (dial = "failed" \/ timedOut)
  \/ phase = "exited"

\* Start() was cut short by an exception: nothing watches the session.
Stalled == connector = "Idle" /\ conn["client"].state = "Connected"

\* What the other peer of s has read or will read from the proxy's kernel.
Delivered(s) == got[Other(s)] \o snd[Other(s)]

\* Every byte a peer sent is, in order and once, with the other peer, in that
\* side's send buffer, in its output_, or still unread (OnClientMessage,
\* Send and HandleWrite hand bytes over in two places each).
StreamIntact ==
  \A s \in Sides :
    ~closed /\ ~err[Other(s)] =>
      sent[s] = Delivered(s) \o conn[Other(s)].output \o rcv[s]

\* A session closes by itself only when both streams have ended and every
\* byte was handed to the kernel; nothing is truncated by CheckFinished, by
\* EPOLLHUP or by closing with unread bytes.
CleanClose ==
  closed /\ ~Fault =>
    \A s \in Sides : fin[s] /\ Delivered(s) = sent[s] /\ wire[s] = "fin"

\* The user-space buffer never holds more than one batch, and an end is read
\* only while the other end has nothing waiting (OnClientMessage's StopRead).
BoundedOutput ==
  \A s \in Sides :
    /\ Len(conn[s].output) <= BatchSize
    /\ conn[s].reading => conn[Other(s)].output = <<>>

\* A paused source is never forgotten: while it is paused the other end has
\* output to write and epoll is asked to report when it can be written.
PausedIsResumable ==
  \A s \in Sides :
    conn[s].state = "Connected" /\ connector = "Succeeded"
        /\ ~conn[s].reading /\ ~conn[s].receivedEof =>
      LET o == conn[Other(s)] IN o.output # <<>> /\ "OUT" \in o.events /\ o.added

\* An end whose write side is shut and that epoll still watches is being
\* read: otherwise the peer's FIN would raise EPOLLHUP without EPOLLIN, which
\* HandleEventWithGuard turns into a ForceClose with bytes unread.
HalfClosedIsReading ==
  \A s \in Sides : conn[s].added /\ conn[s].writeShutdown => "IN" \in conn[s].events

\* Back-pressure as a whole: bounded, resumable, and never taken for a hang-up.
FlowControl == BoundedOutput /\ PausedIsResumable /\ HalfClosedIsReading

\* Who is alive: the session while the map, a pending functor or a locked
\* owner holds it; its parts while it lives or are held themselves.
SessionAlive == owned \/ "session" \in retained
ConnectionAlive(s) == SessionAlive \/ s \in retained \/ current = s
ConnectorAlive == (SessionAlive /\ connector # "Succeeded") \/ current = "connector"

\* No Channel* of the current epoll batch dangles: whatever earlier callbacks
\* close or release, its owner lives until its events were dispatched.
BatchIsAlive ==
  /\ \A s \in Sides : ready[s] # {} => ConnectionAlive(s)
  /\ ready["connector"] # {} => ConnectorAlive

\* A destructor never finds a channel in epoll (std::terminate), nor a session
\* that is not closed (assert).
DestroyedIsUnregistered ==
  /\ ~SessionAlive => closed
  /\ ~ConnectorAlive => connector # "Connecting"
  /\ \A s \in Sides : ~ConnectionAlive(s) => ~conn[s].added

\* How the session's parts go together: the backend exists from the moment
\* the connector has succeeded, and both ends close with the session.
Lifecycle ==
  /\ conn["client"].state # "None"
  /\ conn["backend"].state # "Connecting"
  /\ owned = ~closed
  /\ closed =>
       /\ \A s \in Sides : ~IsOpen(conn[s])
       /\ connector \notin {"Idle", "Connecting"}
  /\ ~closed =>
       /\ IsOpen(conn["client"])
       /\ conn["backend"].state = IF connector = "Succeeded" THEN "Connected" ELSE "None"
       /\ connector \in {"Idle", "Connecting", "Succeeded"}
       /\ conn["client"].state = "Connecting" => connector = "Idle"
       /\ connector # "Succeeded" =>
            /\ ~conn["client"].reading
            /\ ~conn["client"].receivedEof
            /\ conn["client"].output = <<>>
            /\ ~conn["client"].shutdownRequested

\* How the two directions of an open session are coupled.
Coupling ==
  /\ \A s \in Sides :
       /\ Len(conn[s].output) <= BatchSize
       /\ conn[s].reading => conn[Other(s)].output = <<>>
  /\ ~closed /\ connector = "Succeeded" =>
       \A s \in Sides :
         /\ conn[Other(s)].shutdownRequested = conn[s].receivedEof
         /\ ~conn[s].reading => conn[s].receivedEof \/ conn[Other(s)].output # <<>>

\* The inductive invariant behind BoundedOutput, PausedIsResumable,
\* HalfClosedIsReading, DestroyedIsUnregistered and ClosedIsInert: epoll's
\* interest, the flags of both ends and the session's state always agree.
SessionInv ==
  /\ \A s \in Sides : WellFormed(conn[s])
  /\ Lifecycle
  /\ Coupling

\* A closed session is inert: the callbacks left over in its batch, a late
\* timer or a late connect change none of its objects.
ClosedIsInert == [][closed => UNCHANGED session]_vars

-----------------------------------------------------------------------------
(* The promise to the peers                                                *)

\* What is on its way from peer s: a reset peer gets nothing more, and from a
\* closed session only what the kernel holds.
InTransit(s) ==
  LET o == Other(s)
  IN  IF err[o] THEN <<>> ELSE
      IF closed THEN snd[o] ELSE snd[o] \o conn[o].output \o rcv[s]

Promise == INSTANCE Relay WITH
  queue <- [s \in Sides |-> InTransit(s)],
  fault <- Fault,
  lost  <- [s \in Sides |-> err[Other(s)] \/ (closed /\ Fault)]

\* The session is a pair of reliable pipes: no byte is lost, duplicated or
\* reordered and no end of stream overtakes a byte, unless a fault occurs.
ImplementsRelay == Promise!SafeSpec

\* ... and as long as no fault occurs and both peers go on reading, every byte
\* and every end of stream reaches them, through pauses and half-closes.
DeliversEverything == PeerKeepsReading("client") => <>Stalled \/ Promise!Fairness

-----------------------------------------------------------------------------
(* Liveness                                                                *)

\* A peer that does not read stops its own direction only: what the client
\* sends reaches the backend, though the client may read nothing.
NoCrossBlocking ==
  \A n \in 1 .. MaxBytes["client"] :
    Len(sent["client"]) >= n ~> Len(got["backend"]) >= n \/ Fault \/ Stalled

\* Once both peers have ended their streams and go on reading the session
\* closes, and a closed session is destroyed: nothing holds it beyond its batch.
SessionEnds ==
  /\ PeerKeepsReading("client") => ((\A s \in Sides : fin[s]) ~> closed \/ Stalled)
  /\ closed ~> ~SessionAlive \/ phase = "exited"

\* A session in wait of its backend gets it or closes: the timer bounds it.
ConnectIsDecided ==
  [](connector # "Succeeded" => <>(connector = "Succeeded" \/ closed \/ Stalled))
=============================================================================
