---------------------------- MODULE LoadBalancer ---------------------------
(***************************************************************************)
(* The service's entrance (l4lb/src/lb/LoadBalancer.cpp and                *)
(* net/Acceptor.cpp): clients wait in the kernel's accept queue, the       *)
(* acceptor takes them one by one, each gets a session and the next        *)
(* backend in turn, and sessions_ owns the session under the number of     *)
(* its client descriptor.                                                  *)
(*                                                                         *)
(* The process's descriptors are limited.  A session needs two of them,    *)
(* one is kept in reserve, and accept() and socket() fail with EMFILE when *)
(* none is left.  A session is one of ProxySession's behaviours, seen from *)
(* its owner: what it does with the bytes is left out here.                *)
(*                                                                         *)
(* A step is a callback, except that HandleRead's loop is cut into its     *)
(* iterations, as clients may arrive between two calls of accept().        *)
(***************************************************************************)
EXTENDS Naturals, Sequences, FiniteSets

CONSTANTS
  Clients,       \* the clients that may connect, each at most once
  NoClient,      \* no client
  NumBackends,   \* backends_.size()
  NumFds,        \* descriptors left for the reserve and the sessions
  EdgeTriggered  \* is the listening socket registered with EPOLLET?

ASSUME BalancerAssumption ==
  /\ IsFiniteSet(Clients) /\ NoClient \notin Clients
  /\ NumBackends \in Nat \ {0}
  /\ NumFds \in Nat \ {0}
  /\ EdgeTriggered \in BOOLEAN

Fds == 1 .. NumFds

\* No descriptor, -1 in the code.
NoFd == 0

VARIABLES
  client,     \* what has become of each client
  backlog,    \* the kernel's queue of connections to accept
  edge,       \* a client has arrived since the last wake-up
  listening,  \* the listening socket is registered in epoll
  phase,      \* "poll": between callbacks; "accept": in HandleRead's loop
  session,    \* the session of each client that was accepted
  sessions,   \* sessions_, by the number of the client's descriptor
  next,       \* next_backend_
  open,       \* the process's open descriptors
  idle        \* idle_fd_

vars == <<client, backlog, edge, listening, phase, session, sessions, next, open, idle>>

\* A session's life: its connector waits for the backend; both ends are
\* connected; Start() was cut short by an exception; Close() has run.
Life == {"none", "connecting", "relaying", "stalled", "closed"}

Session == [life : Life, fd : Fds \cup {NoFd}, out : Fds \cup {NoFd},
            backend : 0 .. NumBackends - 1]

TypeOK ==
  /\ client \in [Clients -> {"away", "waiting", "accepted", "refused", "aborted", "closed"}]
  /\ backlog \in Seq(Clients)
  /\ edge \in BOOLEAN
  /\ listening \in BOOLEAN
  /\ phase \in {"poll", "accept", "stopping", "exited"}
  /\ session \in [Clients -> Session]
  /\ sessions \in [Fds -> Clients \cup {NoClient}]
  /\ next \in 0 .. NumBackends - 1
  /\ open \in SUBSET Fds
  /\ idle \in Fds \cup {NoFd}

\* The acceptor has opened its reserve and Start() has registered it.
Init ==
  /\ client = [c \in Clients |-> "away"]
  /\ backlog = <<>>
  /\ edge = FALSE
  /\ listening = TRUE
  /\ phase = "poll"
  /\ session = [c \in Clients |-> [life |-> "none", fd |-> NoFd, out |-> NoFd, backend |-> 0]]
  /\ sessions = [fd \in Fds |-> NoClient]
  /\ next = 0
  /\ open = {1}
  /\ idle = 1

-----------------------------------------------------------------------------
(* Descriptors                                                             *)

\* The kernel hands out the lowest number that is free.
Lowest(fds) == CHOOSE fd \in fds : \A other \in fds : fd <= other

Free(opened) == Fds \ opened

\* Wrong: the reserve is not opened again.
SpendReserve(opened, queue) ==
  /\ open' = opened \ {idle}
  /\ idle' = NoFd
  /\ backlog' = IF queue = <<>> THEN queue ELSE Tail(queue)

\* With the table full, the reserve's descriptor serves to accept one client
\* and drop it; then the reserve is opened again.
HandleDescriptorExhaustion(opened, queue) ==
  LET rest == opened \ {idle}
  IN  IF Free(rest) = {}
      THEN open' = rest /\ idle' = NoFd /\ backlog' = queue
      ELSE /\ idle' = Lowest(Free(rest))
           /\ open' = rest \cup {Lowest(Free(rest))}
           /\ backlog' = IF queue = <<>> THEN queue ELSE Tail(queue)

\* The clients that left the queue without a session.
Refuse(status, queue) ==
  IF queue # <<>> /\ backlog' # queue
  THEN [status EXCEPT ![Head(queue)] = "refused"]
  ELSE status

-----------------------------------------------------------------------------
(* Sessions                                                                *)

IsOpenSession(c) == session[c].life \in {"connecting", "relaying", "stalled"}

\* Wrong: the close callback erases the backend's descriptor.
EraseOther(c) == [sessions EXCEPT ![session[c].out] = NoClient]

\* SetCloseCallback: sessions_.erase(fd).
Erase(c) == [sessions EXCEPT ![session[c].fd] = NoClient]

\* Session c's Close(): both sockets are closed, the callback erases it.
Close(c) ==
  /\ session' = [session EXCEPT ![c].life = "closed"]
  /\ client' = [client EXCEPT ![c] = "closed"]
  /\ open' = open \ {session[c].fd, session[c].out}
  /\ sessions' = Erase(c)

InLoop == phase = "poll" /\ UNCHANGED <<backlog, edge, listening, phase, next, idle>>

\* connect() has succeeded.
Connected(c) ==
  /\ InLoop
  /\ session[c].life = "connecting"
  /\ session' = [session EXCEPT ![c].life = "relaying"]
  /\ UNCHANGED <<client, sessions, open>>

\* connect() has failed, or its three seconds are over.
ConnectFails(c) ==
  /\ InLoop
  /\ session[c].life = "connecting"
  /\ Close(c)

\* A session closes by itself; a client that leaves while the backend is not
\* connected is not noticed, as nothing of it is in epoll.
SessionEnds(c) ==
  /\ InLoop
  /\ session[c].life = "relaying"
  /\ Close(c)

-----------------------------------------------------------------------------
(* Acceptor::HandleRead                                                    *)

\* Wrong: the listening socket is registered edge-triggered.
ReadableOnce == edge

\* What epoll reports of the listening socket.
Readable == IF EdgeTriggered THEN edge ELSE backlog # <<>>

BeginAccept ==
  /\ phase = "poll"
  /\ listening /\ Readable
  /\ phase' = "accept"
  /\ edge' = FALSE
  /\ UNCHANGED <<client, backlog, listening, session, sessions, next, open, idle>>

\* EAGAIN: the queue is empty.
AcceptNone ==
  /\ phase = "accept"
  /\ backlog = <<>> /\ Free(open) # {}
  /\ phase' = "poll"
  /\ UNCHANGED <<client, backlog, edge, listening, session, sessions, next, open, idle>>

\* Wrong: every error of accept() is taken for exhaustion.
AbortedAsExhausted ==
  /\ phase = "accept"
  /\ backlog # <<>> /\ Free(open) # {}
  /\ HandleDescriptorExhaustion(open, Tail(backlog))
  /\ client' = Refuse([client EXCEPT ![Head(backlog)] = "aborted"], Tail(backlog))
  /\ phase' = "poll"
  /\ UNCHANGED <<edge, listening, session, sessions, next>>

\* accept() reports an error of the connection it takes: HandleRead returns.
AcceptAborted ==
  /\ phase = "accept"
  /\ backlog # <<>> /\ Free(open) # {}
  /\ client' = [client EXCEPT ![Head(backlog)] = "aborted"]
  /\ backlog' = Tail(backlog)
  /\ phase' = "poll"
  /\ UNCHANGED <<edge, listening, session, sessions, next, open, idle>>

\* EMFILE from accept(), which asks for a descriptor before it looks at the
\* queue: the queue may be empty.
AcceptExhausted ==
  /\ phase = "accept"
  /\ Free(open) = {}
  /\ HandleDescriptorExhaustion(open, backlog)
  /\ client' = Refuse(client, backlog)
  /\ phase' = "poll"
  /\ UNCHANGED <<edge, listening, session, sessions, next>>

\* Room for a client's descriptor and for its backend's.
RoomForSession == Cardinality(Free(open)) >= 2

\* What the first client of the queue gets: the two lowest numbers.
ClientFd == Lowest(Free(open))
BackendFd == Lowest(Free(open) \ {ClientFd})

\* sessions_.emplace(fd, session), which keeps what is there.
Emplace(c, fd) == [sessions EXCEPT ![fd] = IF @ = NoClient THEN c ELSE @]

\* Wrong: the turn starts again at the first backend when it should reach the last.
NextButOne == IF next + 2 >= NumBackends THEN 0 ELSE next + 1

NextBackend == (next + 1) % NumBackends

\* OnNewConnection for the first client of the queue; its session begins as `life'.
OnNewConnection(life, out) ==
  /\ next' = NextBackend
  /\ session' = [session EXCEPT ![Head(backlog)] =
                   [life |-> life, fd |-> ClientFd, out |-> out, backend |-> next]]
  /\ UNCHANGED <<edge, listening>>

\* accept() and socket() succeed and connect() is in progress, or done.
AcceptSession ==
  /\ phase = "accept"
  /\ backlog # <<>> /\ RoomForSession
  /\ \E life \in {"connecting", "relaying"} : OnNewConnection(life, BackendFd)
  /\ sessions' = Emplace(Head(backlog), ClientFd)
  /\ client' = [client EXCEPT ![Head(backlog)] = "accepted"]
  /\ backlog' = Tail(backlog)
  /\ open' = open \cup {ClientFd, BackendFd}
  /\ UNCHANGED <<phase, idle>>

\* connect() fails at once: the session is erased before Start() returns.
AcceptRefused ==
  /\ phase = "accept"
  /\ backlog # <<>> /\ RoomForSession
  /\ OnNewConnection("closed", BackendFd)
  /\ sessions' = [Emplace(Head(backlog), ClientFd) EXCEPT ![ClientFd] = NoClient]
  /\ client' = [client EXCEPT ![Head(backlog)] = "closed"]
  /\ backlog' = Tail(backlog)
  /\ UNCHANGED <<phase, open, idle>>

\* accept() gets the last descriptor.  Connector::Start's socket() throws, and
\* the exception ends in HandleRead's handler, which takes it for one of
\* accept(): it drops the client that waits next.  The session stays in
\* sessions_, without a channel and without a timer.
AcceptStalled ==
  /\ phase = "accept"
  /\ backlog # <<>> /\ Free(open) # {} /\ ~RoomForSession
  /\ OnNewConnection("stalled", NoFd)
  /\ sessions' = Emplace(Head(backlog), ClientFd)
  /\ HandleDescriptorExhaustion(open \cup {ClientFd}, Tail(backlog))
  /\ client' = Refuse([client EXCEPT ![Head(backlog)] = "accepted"], Tail(backlog))
  /\ phase' = "poll"

-----------------------------------------------------------------------------
(* The end of the program                                                  *)

\* A signal ends Loop(); Stop() begins with the acceptor.
Signal ==
  /\ phase = "poll"
  /\ phase' = "stopping"
  /\ listening' = FALSE
  /\ UNCHANGED <<client, backlog, edge, session, sessions, next, open, idle>>

\* One iteration of Stop()'s loop; Close() of a closed session does nothing.
StopSession ==
  /\ phase = "stopping"
  /\ \E fd \in Fds :
       /\ sessions[fd] # NoClient
       /\ IF IsOpenSession(sessions[fd])
          THEN Close(sessions[fd])
          ELSE UNCHANGED <<session, client, open, sessions>>
  /\ UNCHANGED <<backlog, edge, listening, phase, next, idle>>

StopDone ==
  /\ phase = "stopping"
  /\ \A fd \in Fds : sessions[fd] = NoClient
  /\ phase' = "exited"
  /\ UNCHANGED <<client, backlog, edge, listening, session, sessions, next, open, idle>>

-----------------------------------------------------------------------------

\* The kernel completes a client's handshake.
Arrive(c) ==
  /\ phase # "exited"
  /\ client[c] = "away"
  /\ client' = [client EXCEPT ![c] = "waiting"]
  /\ backlog' = Append(backlog, c)
  /\ edge' = TRUE
  /\ UNCHANGED <<listening, phase, session, sessions, next, open, idle>>

Accept ==
  \/ BeginAccept \/ AcceptNone \/ AcceptAborted \/ AcceptExhausted
  \/ AcceptSession \/ AcceptRefused \/ AcceptStalled

Stop == StopSession \/ StopDone

Next ==
  \/ Accept
  \/ \E c \in Clients : Connected(c) \/ ConnectFails(c) \/ SessionEnds(c) \/ Arrive(c)
  \/ Signal
  \/ Stop

Spec == Init /\ [][Next]_vars

\* The loop keeps running: it dispatches whatever is ready, and a connector's
\* timer bounds its wait, even if other callbacks come in between.
Fairness ==
  /\ WF_vars(Accept)
  /\ WF_vars(Stop)
  /\ \A c \in Clients : SF_vars(Connected(c) \/ ConnectFails(c))

FairSpec == Spec /\ Fairness

-----------------------------------------------------------------------------
(* Safety                                                                  *)

\* sessions_ holds every open session under its own descriptor, and no other:
\* however the kernel reuses the numbers, no session is lost, kept after its
\* end, or erased in another's place.
MapIsExact ==
  \A fd \in Fds, c \in Clients :
    sessions[fd] = c <=> IsOpenSession(c) /\ session[c].fd = fd

\* The descriptors of a client's session.
Owned(c) ==
  IF IsOpenSession(c) THEN {session[c].fd, session[c].out} \ {NoFd} ELSE {}

\* No descriptor leaks and none has two owners, whatever fails on the way; and
\* the reserve survives every exhaustion: without it a client that waits could
\* be neither served nor dropped, and the loop would spin.
DescriptorsAreOwned ==
  /\ open = (UNION {Owned(c) : c \in Clients}) \cup {idle}
  /\ \A c \in Clients :
       idle \notin Owned(c) /\ \A d \in Clients \ {c} : Owned(c) \cap Owned(d) = {}

\* The table of sessions and the table of descriptors, together.
BalancerInv == TypeOK /\ MapIsExact /\ DescriptorsAreOwned

\* Backends take turns: refused connections and sessions that end at once
\* included, none is ever ahead of another by more than one connection.
Turns(b) == Cardinality({c \in Clients : session[c].life # "none" /\ session[c].backend = b})
BackendsTakeTurns ==
  \A a, b \in 0 .. NumBackends - 1 : Turns(a) <= Turns(b) + 1

\* A client is refused only when there is no room for a session.
RefusedOnlyWhenFull ==
  [][\A c \in Clients : client'[c] = "refused" /\ client[c] # "refused" => ~RoomForSession]_vars

\* Every session is on its way to an end: it relays, or a timer bounds its
\* wait for the backend.
OpenIsAttended ==
  \A c \in Clients : IsOpenSession(c) => session[c].life \in {"connecting", "relaying"}

-----------------------------------------------------------------------------
(* Liveness                                                                *)

\* No client is left in the accept queue while the service runs: errors and
\* exhausted descriptors included, it is accepted, refused or aborted.
NobodyIsForgotten ==
  \A c \in Clients : client[c] = "waiting" ~> client[c] # "waiting" \/ phase \in {"stopping", "exited"}

\* Stop() comes to its end, with every session closed and every descriptor
\* but the reserve given back.
StopCompletes == phase = "stopping" ~> phase = "exited" /\ open = {idle}
=============================================================================
