----------------------------- MODULE TcpServer -----------------------------
(***************************************************************************)
(* The multi-threaded server of the course library (code/day29): the main  *)
(* reactor accepts and keeps the connection map, a pool of sub-reactors    *)
(* reads and answers, and HttpServer closes idle connections by a timer    *)
(* that runs on the main reactor.  A connection belongs to shared_ptrs:    *)
(* its map entry, the functors bound to it, and whoever is running it.     *)
(*                                                                         *)
(* A thread's callback runs to completion, except where another thread     *)
(* can see it half done: between the test of state_ in HandleClose and the *)
(* assignment, and between EnableRead and on_connect_.  A push and its     *)
(* wake-up are one step (EventLoop has them apart).  A failed assert ends  *)
(* the program.                                                            *)
(***************************************************************************)
EXTENDS Naturals, Sequences, FiniteSets, Functions, FiniteSetsExt

CONSTANTS
  Conns,       \* the connections of a behaviour, one per client
  NumFds,      \* descriptors left for connections
  MaxThreads,  \* the largest argument of SetThreadNums
  AutoClose,   \* HttpServer's auto_close_conn
  Talkers,     \* those that send a request, once (bounds the behaviours)
  None

ASSUME ServerAssumption ==
  /\ NumFds \in Nat \ {0}
  /\ MaxThreads \in Nat
  /\ AutoClose \in BOOLEAN
  /\ Talkers \subseteq Conns
  /\ None \notin Conns

VARIABLES
  threads,     \* thread_nums_
  next,        \* next_ of the pool
  server,      \* connectionsMap_, and where HandleNewConnection is
  state,       \* state_ of each connection
  home,        \* the loop a connection was given to
  fd,          \* connfd_
  epoll,       \* the connections whose channel is registered
  timers,      \* connections with an armed ActiveCloseConn timer
  loop,        \* each EventLoop
  client,      \* the peers and the kernel's side of the sockets
  aborted      \* which assert failed, if any

vars == <<threads, next, server, state, home, fd, epoll, timers, loop, client, aborted>>

Fds == 1 .. NumFds
Main == 0
Loops == 0 .. MaxThreads
Functor == {"close", "destroy"} \X Conns
Event == {<<"wake">>, <<"accept">>} \cup ({"timer", "read"} \X Conns)

Loop == [
  pc : {"poll", "events", "functors"},
  batch : SUBSET Event,        \* Poll's result, what is left of it
  toDo : Seq(Functor),         \* to_do_list_
  functors : Seq(Functor),     \* DoToDoList's functors, those still to run
  held : SUBSET Conns,         \* connections bound by any of them
  closing : Conns \cup {None}, \* HandleClose past its test of state_
  wake : BOOLEAN]              \* the eventfd is readable

Client == [
  at : {"away", "backlog", "open", "closed"},
  sent : BOOLEAN,
  unread : BOOLEAN,
  eof : BOOLEAN]

Away == [at |-> "away", sent |-> FALSE, unread |-> FALSE, eof |-> FALSE]
Closed == [Away EXCEPT !.at = "closed"]

TypeOK ==
  /\ threads \in 0 .. MaxThreads
  /\ next \in 0 .. MaxThreads
  /\ server \in [map : [Fds -> Conns \cup {None}], connecting : Conns \cup {None}]
  /\ state \in [Conns -> {"Invalid", "Connected", "Disconected"}]
  /\ home \in [Conns -> Loops]
  /\ fd \in [Conns -> Fds \cup {None}]
  /\ epoll \subseteq Conns
  /\ timers \subseteq Conns
  /\ loop \in [Loops -> Loop]
  /\ client \in [Conns -> Client]
  /\ aborted \in {"no", "accept", "close"}

Init ==
  /\ threads \in 0 .. MaxThreads
  /\ next = 0
  /\ server = [map |-> [f \in Fds |-> None], connecting |-> None]
  /\ state = [c \in Conns |-> "Invalid"]
  /\ home = [c \in Conns |-> Main]
  /\ fd = [c \in Conns |-> None]
  /\ epoll = {} /\ timers = {}
  /\ loop = [t \in Loops |->
       [pc |-> "poll", batch |-> {}, toDo |-> <<>>, functors |-> <<>>,
        held |-> {}, closing |-> None, wake |-> FALSE]]
  /\ client = [c \in Conns |-> Away]
  /\ aborted = "no"

-----------------------------------------------------------------------------
(* Ownership                                                               *)

Mapped == Range(server.map) \ {None}
Bound(functors) == {functors[i][2] : i \in DOMAIN functors}

\* Some shared_ptr to c exists; when the last one goes, ~TcpConnection closes
\* the descriptor and the channel is destroyed.
Alive(c) ==
  \/ c \in Mapped
  \/ \E t \in Loops : c \in Bound(loop[t].toDo) \cup loop[t].held \cup {loop[t].closing}

FreeFds == Fds \ {fd[c] : c \in {d \in Conns : Alive(d)}}

-----------------------------------------------------------------------------
(* EventLoop                                                               *)

\* Wrong: a wake-up is for the functors of the loop's own only.
WakesItself(self, t, calling) == calling

\* Another thread, or a functor of the loop's own, must wake it.
Wakes(self, t, calling) == self # t \/ calling

\* QueueOneFunc of loop t, called on thread self.
QueueOneFunc(loops, self, t, functor) ==
  [loops EXCEPT ![t].toDo = Append(@, functor),
                ![t].wake = @ \/ Wakes(self, t, loops[self].pc = "functors")]

Free(t) == loop[t].closing = None /\ (t = Main => server.connecting = None)

HasInput(c) == client[c].unread \/ client[c].eof

\* The connections epoll_wait reports on t: level-triggered, as EPOLLET does not fit
\* the short that EnableET adds it to.  An end of stream is reported until the
\* channel is unregistered, also when the connection is closed already.
Readable(t) == {c \in epoll : home[c] = t /\ HasInput(c)}

\* Everything that is ready on t, with the timers in `due` among them.
Ready(t, due) ==
  {e \in Event :
     \/ e = <<"wake">> /\ loop[t].wake
     \/ e = <<"accept">> /\ t = Main /\ \E c \in Conns : client[c].at = "backlog"
     \/ e \in {"timer"} \X due
     \/ e \in {"read"} \X Readable(t)}

Poll(t) ==
  /\ loop[t].pc = "poll"
  /\ \E due \in SUBSET (IF t = Main THEN timers ELSE {}) :
       /\ Ready(t, due) # {}
       /\ loop' = [loop EXCEPT ![t].pc = "events", ![t].batch = Ready(t, due)]
       /\ timers' = timers \ due
  /\ UNCHANGED <<threads, next, server, state, home, fd, epoll, client, aborted>>

\* HandleRead of the eventfd.  Wherever it is in the batch, it is taken last:
\* there it forgets the most wake-ups.
WakeUp(t) ==
  /\ loop[t].pc = "events" /\ Free(t) /\ loop[t].batch = {<<"wake">>}
  /\ loop' = [loop EXCEPT ![t].batch = {}, ![t].wake = FALSE]
  /\ UNCHANGED <<threads, next, server, state, home, fd, epoll, timers, client, aborted>>

\* DoToDoList takes the list; with nothing in it, it is done.
TakeToDoList(t) ==
  /\ loop[t].pc = "events" /\ Free(t) /\ loop[t].batch = {}
  /\ loop' = [loop EXCEPT ![t].pc = IF loop[t].toDo = <<>> THEN "poll" ELSE "functors",
                          ![t].toDo = <<>>,
                          ![t].functors = loop[t].toDo, ![t].held = Bound(loop[t].toDo)]
  /\ UNCHANGED <<threads, next, server, state, home, fd, epoll, timers, client, aborted>>

\* The end of DoToDoList destroys the functors; a connection that nobody else
\* holds goes with them, and its socket is closed.
EndToDoList(t) ==
  /\ loop[t].pc = "functors" /\ loop[t].functors = <<>>
  /\ loop' = [loop EXCEPT ![t].pc = "poll", ![t].held = {}]
  /\ UNCHANGED server
  /\ client' = [c \in Conns |->
       IF c \in loop[t].held /\ ~Alive(c)' THEN Closed ELSE client[c]]
  /\ UNCHANGED <<threads, next, state, home, fd, epoll, timers, aborted>>

-----------------------------------------------------------------------------
(* Closing                                                                 *)

\* Wrong: the connection leaves the map, and that is all.
EraseOnly(loops, self, c) == loops

\* The end of HandleCloseInLoop: the connection's own loop is to unregister it.
Hand(loops, self, c) == QueueOneFunc(loops, self, home[c], <<"destroy", c>>)

\* HandleCloseInLoop(c) on the main thread, whose loop state so far is loops.
HandleCloseInLoop(loops, c) ==
  IF server.map[fd[c]] = None
  THEN /\ aborted' = "close"
       /\ loop' = loops
       /\ UNCHANGED server
  ELSE /\ server' = [server EXCEPT !.map[fd[c]] = None]
       /\ loop' = Hand(loops, Main, c)
       /\ UNCHANGED aborted

\* HandleClose after its test: the assignment and on_close_, by RunOneFunc.
SetDisconected(t) ==
  LET c == loop[t].closing
      loops == [loop EXCEPT ![t].closing = None]
  IN  /\ c # None
      /\ state' = [state EXCEPT ![c] = "Disconected"]
      /\ IF t = Main
         THEN HandleCloseInLoop(loops, c)
         ELSE /\ loop' = QueueOneFunc(loops, t, Main, <<"close", c>>)
              /\ UNCHANGED <<server, aborted>>
      /\ UNCHANGED <<threads, next, home, fd, epoll, timers, client>>

CloseFunctor(t) ==
  /\ loop[t].pc = "functors" /\ loop[t].functors # <<>>
  /\ loop[t].functors[1][1] = "close"
  /\ HandleCloseInLoop([loop EXCEPT ![t].functors = Tail(@)], loop[t].functors[1][2])
  /\ UNCHANGED <<threads, next, state, home, fd, epoll, timers, client>>

\* ConnectionDestructor takes the channel out of epoll.
DestroyFunctor(t) ==
  /\ loop[t].pc = "functors" /\ loop[t].functors # <<>>
  /\ loop[t].functors[1][1] = "destroy"
  /\ epoll' = epoll \ {loop[t].functors[1][2]}
  /\ loop' = [loop EXCEPT ![t].functors = Tail(@)]
  /\ UNCHANGED <<threads, next, server, state, home, fd, timers, client, aborted>>

-----------------------------------------------------------------------------
(* Connections                                                             *)

\* accept4 fails, for want of a descriptor or for what became of the client: -1
\* is passed on.
AcceptFails ==
  /\ loop[Main].pc = "events" /\ Free(Main) /\ <<"accept">> \in loop[Main].batch
  /\ aborted' = "accept"
  /\ UNCHANGED <<threads, next, server, state, home, fd, epoll, timers, loop, client>>

\* One connection per event.  HandleNewConnection up to EnableRead: until then the
\* channel can report only errors and hang-ups, for which it has no callback.
HandleNewConnection(c) ==
  /\ loop[Main].pc = "events" /\ Free(Main) /\ <<"accept">> \in loop[Main].batch
  /\ client[c].at = "backlog"
  /\ FreeFds # {}
  /\ fd' = [fd EXCEPT ![c] = Min(FreeFds)]
  /\ home' = [home EXCEPT ![c] = IF threads = 0 THEN Main ELSE next + 1]
  /\ next' = IF threads = 0 THEN next ELSE (next + 1) % threads
  /\ state' = [state EXCEPT ![c] = "Connected"]
  /\ server' = [map |-> [server.map EXCEPT ![Min(FreeFds)] = c], connecting |-> c]
  /\ epoll' = epoll \cup {c}
  /\ loop' = [loop EXCEPT ![Main].batch = @ \ {<<"accept">>}]
  /\ client' = [client EXCEPT ![c].at = "open"]
  /\ UNCHANGED <<threads, timers, aborted>>

\* on_connect_ arms the timer; the sub-reactor may have begun already.
OnConnection ==
  /\ server.connecting # None
  /\ timers' = IF AutoClose THEN timers \cup {server.connecting} ELSE timers
  /\ server' = [server EXCEPT !.connecting = None]
  /\ UNCHANGED <<threads, next, state, home, fd, epoll, loop, client, aborted>>

\* HandleMessage: ReadNonBlocking goes on until EAGAIN, and so meets an end behind
\* the data; or the message is answered, with or without closing after it (a bad
\* request, Connection: close).  HandleClose passes its test of state_ once.
HandleMessage(t, c) ==
  /\ loop[t].pc = "events" /\ Free(t) /\ <<"read", c>> \in loop[t].batch
  /\ \E closes \in BOOLEAN :
       /\ client[c].eof => closes
       /\ loop' = [loop EXCEPT
            ![t].batch = @ \ {<<"read", c>>},
            ![t].closing = IF closes /\ state[c] # "Disconected" THEN c ELSE None]
  /\ client' = [client EXCEPT ![c].unread = FALSE]
  /\ UNCHANGED <<threads, next, server, state, home, fd, epoll, timers, aborted>>

\* ActiveCloseConn: idle for long enough, or looked at again later.  The weak_ptr
\* may have expired.
ActiveCloseConn(c) ==
  /\ loop[Main].pc = "events" /\ Free(Main) /\ <<"timer", c>> \in loop[Main].batch
  /\ \E idle \in BOOLEAN :
       /\ timers' = IF Alive(c) /\ ~idle THEN timers \cup {c} ELSE timers
       /\ loop' = [loop EXCEPT
            ![Main].batch = @ \ {<<"timer", c>>},
            ![Main].closing =
               IF Alive(c) /\ idle /\ state[c] # "Disconected" THEN c ELSE None]
  /\ UNCHANGED <<threads, next, server, state, home, fd, epoll, client, aborted>>

-----------------------------------------------------------------------------
(* The clients                                                             *)

ClientConnects(c) ==
  /\ client[c].at = "away"
  /\ client' = [client EXCEPT ![c].at = "backlog"]
  /\ UNCHANGED <<threads, next, server, state, home, fd, epoll, timers, loop, aborted>>

ClientSends(c) ==
  /\ c \in Talkers /\ ~client[c].sent
  /\ client[c].at \in {"backlog", "open"} /\ ~client[c].eof
  /\ client' = [client EXCEPT ![c].sent = TRUE, ![c].unread = TRUE]
  /\ UNCHANGED <<threads, next, server, state, home, fd, epoll, timers, loop, aborted>>

ClientEnds(c) ==
  /\ client[c].at \in {"backlog", "open"} /\ ~client[c].eof
  /\ client' = [client EXCEPT ![c].eof = TRUE]
  /\ UNCHANGED <<threads, next, server, state, home, fd, epoll, timers, loop, aborted>>

-----------------------------------------------------------------------------

LoopStep(t) ==
  \/ Poll(t) \/ WakeUp(t) \/ TakeToDoList(t) \/ EndToDoList(t)
  \/ SetDisconected(t) \/ CloseFunctor(t) \/ DestroyFunctor(t)
  \/ \E c \in Conns : HandleMessage(t, c)

MainStep ==
  \/ LoopStep(Main)
  \/ AcceptFails \/ OnConnection
  \/ \E c \in Conns : HandleNewConnection(c) \/ ActiveCloseConn(c)

ClientStep == \E c \in Conns : ClientConnects(c) \/ ClientSends(c) \/ ClientEnds(c)

Next ==
  /\ aborted = "no"
  /\ MainStep \/ ClientStep \/ \E t \in Loops \ {Main} : LoopStep(t)

Spec == Init /\ [][Next]_vars

\* Every reactor's thread runs; nothing is assumed of the clients.
FairSpec ==
  /\ Spec
  /\ WF_vars(aborted = "no" /\ MainStep)
  /\ \A t \in Loops \ {Main} : WF_vars(aborted = "no" /\ LoopStep(t))

-----------------------------------------------------------------------------
(* Safety                                                                  *)

\* The map has every connection that is not closing, under its descriptor, and
\* no two owners share a descriptor, though the numbers are reused.
MapIsExact ==
  /\ \A f \in Fds : server.map[f] # None => fd[server.map[f]] = f
  /\ \A c \in Conns : state[c] = "Connected" => server.map[fd[c]] = c
  /\ \A c, d \in Conns : c # d /\ Alive(c) /\ Alive(d) => fd[c] # fd[d]

\* A channel that epoll may report, or that Poll has reported, is not destroyed,
\* whichever thread drops the last reference; that is so of a closed connection
\* too, which every epoll_wait reports until ConnectionDestructor has run.
ChannelsAreOwned ==
  /\ \A c \in epoll : Alive(c)
  /\ \A t \in Loops, c \in Conns : <<"read", c>> \in loop[t].batch => Alive(c)

\* A loop that may sleep has no functor waiting without a wake-up.
SleepMeansNoWork ==
  \A t \in Loops : loop[t].pc = "poll" /\ loop[t].toDo # <<>> => loop[t].wake

\* Two threads close the same connection only if the idle timer runs beside a
\* sub-reactor.
CloseIsOnce == aborted = "close" => AutoClose /\ threads > 0

ServerInv == TypeOK /\ MapIsExact /\ ChannelsAreOwned /\ SleepMeansNoWork /\ CloseIsOnce

\* The assert of HandleCloseInLoop: the connection is still in the map.
CloseFindsEntry == aborted # "close"

-----------------------------------------------------------------------------
(* Liveness                                                                *)

\* Every request and every end of stream is read, and a connection that is closed,
\* by either side or by the timer, gives back its descriptor, across both loops and
\* whatever order they run in: a loop that sleeps is woken for its functors, and
\* one that a closed connection's end of stream keeps awake gets to them.
\* (A talker may also keep silent: the others do nothing that it cannot do.)
NothingIsOverlooked ==
  \A c \in Talkers :
    client[c].at = "open" /\ (HasInput(c) \/ state[c] = "Disconected") ~>
      \/ client[c].at = "closed"
      \/ ~HasInput(c) /\ state[c] = "Connected"
      \/ aborted # "no"
=============================================================================
