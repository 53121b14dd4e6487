-------------------------- MODULE TcpServerProofs --------------------------
(***************************************************************************)
(* The invariant of the multi-threaded server, for any number of clients,  *)
(* descriptors and sub-reactors, with and without the idle timer.          *)
(***************************************************************************)
EXTENDS TcpServer, SequenceTheorems, WellFoundedInduction, TLAPS

\* The functors a loop has still to run.
Waiting(t) == Range(loop[t].toDo) \cup Range(loop[t].functors)

\* SetThreadNums, and whom the pool gives a connection to.
PoolInv ==
  /\ threads > 0 => next < threads
  /\ threads = 0 => \A c \in Conns : home[c] = Main

\* A connection is somebody's only once it was accepted.
AcceptInv ==
  \A c \in Conns :
    /\ Alive(c) \/ c \in epoll => state[c] # "Invalid"
    /\ state[c] # "Invalid" => fd[c] \in Fds /\ client[c].at \in {"open", "closed"}

\* Where each loop is in its iteration, and what it can then have in hand.
PhaseInv ==
  \A t \in Loops :
    /\ loop[t].batch # {} \/ loop[t].closing # None => loop[t].pc = "events"
    /\ loop[t].functors # <<>> => loop[t].pc = "functors"
    /\ Bound(loop[t].functors) \subseteq loop[t].held
    /\ loop[t].pc # "events" /\ loop[t].toDo # <<>> => loop[t].wake

\* What Poll has reported stays true until it is handled.
BatchInv ==
  /\ \A t \in Loops, c \in Conns :
       /\ <<"read", c>> \in loop[t].batch => home[c] = t /\ c \in epoll
       /\ <<"timer", c>> \in loop[t].batch => t = Main /\ AutoClose
  /\ timers # {} => AutoClose

\* Each functor is in the loop it is meant for, and a close comes after the end.
FunctorInv ==
  \A t \in Loops : \A f \in Waiting(t) :
    /\ f[1] = "close" => t = Main /\ state[f[2]] = "Disconected"
    /\ f[1] = "destroy" => t = home[f[2]]

\* A registered channel's connection is in the map, or about to be destroyed.
OwnedInv ==
  \A c \in epoll : c \in Mapped \/ \E t \in Loops : <<"destroy", c>> \in Waiting(t)

\* No two of the functors of a list close the same connection.
Once(functors) ==
  \A i, j \in 1 .. Len(functors) :
    functors[i] = functors[j] /\ functors[i][1] = "close" => i = j

\* No idle timer, or no sub-reactor beside it.
Alone == ~AutoClose \/ threads = 0

\* Then only a connection's own loop closes it, and only once.
OnceInv ==
  /\ aborted # "close"
  /\ \A t \in Loops, c \in Conns :
       loop[t].closing = c => t = home[c] /\ state[c] = "Connected"
  /\ \A f \in Waiting(Main) : f[1] = "close" => server.map[fd[f[2]]] = f[2]
  /\ Once(loop[Main].toDo) /\ Once(loop[Main].functors)
  /\ \A f \in Range(loop[Main].toDo) : f[1] = "close" => f \notin Range(loop[Main].functors)

IInv ==
  /\ TypeOK /\ PoolInv /\ AcceptInv /\ PhaseInv /\ BatchInv /\ FunctorInv
  /\ OwnedInv /\ MapIsExact
  /\ Alone => OnceInv

-----------------------------------------------------------------------------
(* Lists of functors                                                       *)

LEMMA FunctorIs ==
  \A f \in Functor :
    /\ f[1] \in {"close", "destroy"} /\ f[2] \in Conns /\ f = <<f[1], f[2]>>
BY DEF Functor

LEMMA EmptyList ==
  <<>> \in Seq(Functor) /\ Range(<<>>) = {} /\ Bound(<<>>) = {} /\ Once(<<>>)
BY EmptySeq DEF Range, Bound, Once

LEMMA BoundIs ==
  ASSUME NEW q \in Seq(Functor)
  PROVE  /\ Range(q) = {q[i] : i \in 1 .. Len(q)} /\ Range(q) \subseteq Functor
         /\ Bound(q) = {f[2] : f \in Range(q)}
         /\ Bound(q) \subseteq Conns
<1>1. DOMAIN q = 1 .. Len(q) /\ \A i \in 1 .. Len(q) : q[i] \in Functor
  OBVIOUS
<1>2. Range(q) = {q[i] : i \in 1 .. Len(q)} /\ Range(q) \subseteq Functor
  BY <1>1 DEF Range
<1>3. Bound(q) = {f[2] : f \in Range(q)}
  BY <1>1, <1>2 DEF Bound
<1> QED BY <1>2, <1>3, FunctorIs

LEMMA AppendList ==
  ASSUME NEW q \in Seq(Functor), NEW f \in Functor
  PROVE  /\ Append(q, f) \in Seq(Functor) /\ Append(q, f) # <<>>
         /\ Range(Append(q, f)) = Range(q) \cup {f}
         /\ Bound(Append(q, f)) = Bound(q) \cup {f[2]}
         /\ Once(q) /\ (f[1] = "close" => f \notin Range(q)) => Once(Append(q, f))
<1> DEFINE n == Len(q)
           a == Append(q, f)
<1>1. /\ a \in Seq(Functor) /\ a # <<>> /\ Len(a) = n + 1 /\ n \in Nat
      /\ a[n + 1] = f /\ \A i \in 1 .. n : a[i] = q[i]
  BY AppendProperties
<1> HIDE DEF a
<1>2. 1 .. n + 1 = (1 .. n) \cup {n + 1}
  BY <1>1
<1> HIDE DEF n
<1>3. Range(a) = {a[i] : i \in 1 .. n + 1} /\ Range(q) = {q[i] : i \in 1 .. n}
  BY <1>1, BoundIs DEF n
<1>4. Range(a) = Range(q) \cup {f}
  BY <1>1, <1>2, <1>3
<1>5. Bound(a) = Bound(q) \cup {f[2]}
  <2>1. Bound(a) = {g[2] : g \in Range(a)} /\ Bound(q) = {g[2] : g \in Range(q)}
    BY <1>1, BoundIs
  <2> QED BY <1>4, <2>1
<1>6. ASSUME Once(q), f[1] = "close" => f \notin Range(q)
      PROVE  Once(a)
  <2> SUFFICES ASSUME NEW i \in 1 .. n + 1, NEW j \in 1 .. n + 1, a[i] = a[j], a[i][1] = "close"
               PROVE  i = j
    BY <1>1 DEF Once
  <2>1. CASE i \in 1 .. n /\ j \in 1 .. n
    BY <1>1, <1>6, <2>1 DEF Once, n
  <2>2. \A k \in 1 .. n : a[k] \in Range(q)
    BY <1>1, <1>3
  <2> QED BY <1>1, <1>2, <1>6, <2>1, <2>2
<1> QED BY <1>1, <1>4, <1>5, <1>6 DEF a

LEMMA TailList ==
  ASSUME NEW q \in Seq(Functor), q # <<>>
  PROVE  /\ q[1] \in Functor /\ Tail(q) \in Seq(Functor)
         /\ Range(q) = {q[1]} \cup Range(Tail(q))
         /\ Bound(q) = {q[1][2]} \cup Bound(Tail(q))
         /\ Once(q) => Once(Tail(q)) /\ (q[1][1] = "close" => q[1] \notin Range(Tail(q)))
<1> DEFINE n == Len(q)
           a == Tail(q)
<1>1. /\ a \in Seq(Functor) /\ Len(a) = n - 1 /\ n \in Nat \ {0}
      /\ q[1] \in Functor /\ \A i \in 1 .. n - 1 : a[i] = q[i + 1]
  OBVIOUS
<1> HIDE DEF a, n
<1>2. /\ 1 .. n = {1} \cup {i + 1 : i \in 1 .. n - 1}
      /\ 1 \in 1 .. n /\ \A i \in 1 .. n - 1 : i + 1 \in 1 .. n /\ i + 1 # 1
  <2>1. \A i \in 1 .. n : i # 1 => i - 1 \in 1 .. n - 1 /\ i = (i - 1) + 1
    BY <1>1
  <2>2. 1 \in 1 .. n /\ \A i \in 1 .. n - 1 : i + 1 \in 1 .. n /\ i + 1 # 1
    BY <1>1
  <2> QED BY <2>1, <2>2
<1>3. Range(a) = {a[i] : i \in 1 .. n - 1} /\ Range(q) = {q[i] : i \in 1 .. n}
  BY <1>1, BoundIs DEF n
<1>4. Range(q) = {q[1]} \cup Range(a)
  <2>1. q[1] \in Range(q) /\ \A i \in 1 .. n - 1 : a[i] \in Range(q)
    BY <1>1, <1>2, <1>3
  <2>2. ASSUME NEW i \in 1 .. n, i # 1
        PROVE  q[i] \in Range(a)
    <3>1. PICK j \in 1 .. n - 1 : i = j + 1
      BY <1>2, <2>2
    <3> QED BY <1>1, <1>3, <3>1
  <2> QED BY <1>3, <2>1, <2>2
<1>5. Bound(q) = {q[1][2]} \cup Bound(a)
  <2>1. Bound(a) = {g[2] : g \in Range(a)} /\ Bound(q) = {g[2] : g \in Range(q)}
    BY <1>1, BoundIs
  <2> QED BY <1>4, <2>1
<1>6. ASSUME Once(q)
      PROVE  Once(a) /\ (q[1][1] = "close" => q[1] \notin Range(a))
  <2>1. \A i, j \in 1 .. n : q[i] = q[j] /\ q[i][1] = "close" => i = j
    BY <1>6 DEF Once, n
  <2>2. Once(a)
    <3> SUFFICES ASSUME NEW i \in 1 .. n - 1, NEW j \in 1 .. n - 1, a[i] = a[j], a[i][1] = "close"
                 PROVE  i = j
      BY <1>1 DEF Once
    <3>1. /\ i + 1 \in 1 .. n /\ j + 1 \in 1 .. n
          /\ q[i + 1] = a[i] /\ q[j + 1] = a[j]
      BY <1>1, <1>2
    <3>2. i + 1 = j + 1
      BY <2>1, <3>1
    <3> QED BY <1>1, <3>2
  <2>3. ASSUME q[1][1] = "close", NEW i \in 1 .. n - 1, a[i] = q[1]
        PROVE  FALSE
    BY <1>1, <1>2, <2>1, <2>3
  <2> QED BY <1>3, <2>2, <2>3
<1> QED BY <1>1, <1>4, <1>5, <1>6 DEF a

-----------------------------------------------------------------------------
(* Steps that leave the functors and the map alone                         *)

\* One loop moves on, the others stay where they are.
LEMMA OneLoop ==
  ASSUME TypeOK, NEW t \in Loops, NEW r \in Loop, loop' = [loop EXCEPT ![t] = r]
  PROVE  /\ loop' \in [Loops -> Loop] /\ loop'[t] = r
         /\ \A u \in Loops : u # t => loop'[u] = loop[u]
BY DEF TypeOK

LEMMA LoopType ==
  ASSUME NEW r \in Loop, NEW p \in {"poll", "events", "functors"}, NEW b \in SUBSET Event,
         NEW k \in Conns \cup {None}, NEW w \in BOOLEAN
  PROVE  LET n == [r EXCEPT !.pc = p, !.batch = b, !.closing = k, !.wake = w]
         IN  /\ n \in Loop
             /\ n.pc = p /\ n.batch = b /\ n.closing = k /\ n.wake = w
             /\ n.toDo = r.toDo /\ n.functors = r.functors /\ n.held = r.held
BY DEF Loop

\* Who owns a connection.
LEMMA AliveIs ==
  ASSUME NEW c \in Conns
  PROVE  Alive(c) <=> \/ c \in Mapped
                      \/ \E t \in Loops : \/ c \in Bound(loop[t].toDo)
                                          \/ c \in loop[t].held
                                          \/ c = loop[t].closing
BY DEF Alive

\* Nobody becomes an owner of a connection that has none, no descriptor
\* changes, and no connection is opened: the map stays exact.
LEMMA MapStaysExact ==
  ASSUME MapIsExact, fd' = fd, server'.map = server.map,
         \A c \in Conns : Alive(c)' => Alive(c),
         \A c \in Conns : state'[c] = "Connected" => state[c] = "Connected"
  PROVE  MapIsExact'
BY DEF MapIsExact

\* The list, the functors and the map are as before; a loop that is newly
\* closing closes what somebody owns.
Quiet ==
  /\ UNCHANGED <<threads, next, state, home, fd, epoll>>
  /\ server'.map = server.map
  /\ \A t \in Loops :
       /\ loop'[t].toDo = loop[t].toDo /\ loop'[t].functors = loop[t].functors
       /\ loop'[t].held \subseteq loop[t].held
       /\ loop'[t].closing \in {None, loop[t].closing} \cup {c \in Conns : Alive(c)}
  /\ \A c \in Conns : client[c].at \in {"open", "closed"} => client'[c].at \in {"open", "closed"}

LEMMA QuietKeeps ==
  ASSUME IInv, Quiet
  PROVE  /\ PoolInv' /\ AcceptInv' /\ FunctorInv' /\ OwnedInv' /\ MapIsExact'
         /\ \A t \in Loops : Waiting(t)' = Waiting(t)
         /\ Alone' = Alone
<1>1. \A t \in Loops : Waiting(t)' = Waiting(t)
  BY DEF Waiting, Quiet
<1>2. Mapped' = Mapped
  BY DEF Mapped, Quiet
<1>3. \A c \in Conns : Alive(c)' => Alive(c)
  <2> SUFFICES ASSUME NEW c \in Conns, Alive(c)', c \notin Mapped
               PROVE  Alive(c)
    BY DEF Alive
  <2>1. PICK t \in Loops : \/ c \in Bound(loop'[t].toDo)
                           \/ c \in loop'[t].held
                           \/ c = loop'[t].closing
    BY <1>2 DEF Alive
  <2>2. c # None
    BY ServerAssumption
  <2> QED BY <2>1, <2>2 DEF Quiet, Alive
<1>4. PoolInv' /\ Alone' = Alone
  BY DEF Quiet, IInv, PoolInv, Alone
<1>5. AcceptInv'
  BY <1>3 DEF Quiet, IInv, AcceptInv
<1>6. FunctorInv'
  BY <1>1 DEF Quiet, IInv, FunctorInv
<1>7. OwnedInv'
  BY <1>1, <1>2 DEF Quiet, IInv, OwnedInv
<1>8. MapIsExact'
  BY <1>3, MapStaysExact DEF Quiet, IInv
<1> QED BY <1>1, <1>4, <1>5, <1>6, <1>7, <1>8

\* And closes it alone, if it may.
LEMMA QuietClosesOnce ==
  ASSUME IInv, Quiet, Alone => aborted' # "close",
         Alone => \A t \in Loops, c \in Conns :
                    loop'[t].closing = c =>
                      loop[t].closing = c \/ (t = home[c] /\ state[c] = "Connected")
  PROVE  Alone' => OnceInv'
<1> SUFFICES ASSUME Alone PROVE OnceInv'
  BY QuietKeeps
<1>1. OnceInv
  BY DEF IInv
<1>2. Waiting(Main)' = Waiting(Main) /\ Main \in Loops
  BY QuietKeeps, ServerAssumption DEF Loops, Main
<1>3. /\ loop'[Main].toDo = loop[Main].toDo /\ loop'[Main].functors = loop[Main].functors
      /\ UNCHANGED <<state, home, fd>> /\ server'.map = server.map
  BY <1>2 DEF Quiet
<1>4. \A t \in Loops, c \in Conns :
        loop'[t].closing = c => t = home'[c] /\ state'[c] = "Connected"
  BY <1>1, <1>3 DEF OnceInv
<1>5. \A f \in Waiting(Main)' : f[1] = "close" => server'.map[fd'[f[2]]] = f[2]
  BY <1>1, <1>2, <1>3 DEF OnceInv
<1> QED BY <1>1, <1>3, <1>4, <1>5 DEF OnceInv

\* What the clients do, a failed accept, and the end of HandleNewConnection.
LEMMA ClientKeeps ==
  ASSUME IInv, ClientStep
  PROVE  IInv'
<1>1. PICK c \in Conns : ClientConnects(c) \/ ClientSends(c) \/ ClientEnds(c)
  BY DEF ClientStep
<1>2. UNCHANGED <<threads, next, server, state, home, fd, epoll, timers, loop, aborted>>
  BY <1>1 DEF ClientConnects, ClientSends, ClientEnds
<1>3. /\ client' \in [Conns -> Client]
      /\ \A d \in Conns : client[d].at \in {"open", "closed"} => client'[d].at \in {"open", "closed"}
  <2>1. client \in [Conns -> Client]
    BY DEF IInv, TypeOK
  <2>2. client[c].at # "closed"
    BY <1>1, <2>1 DEF ClientConnects, ClientSends, ClientEnds, Client
  <2>3. PICK r \in Client : client' = [client EXCEPT ![c] = r] /\ r.at \in {"open", "backlog"}
                           /\ (client[c].at = "open" => r.at = "open")
    <3>1. client[c] \in Client
      BY <2>1
    <3>2. CASE ClientConnects(c)
      BY <3>1, <3>2 DEF ClientConnects, Client
    <3>3. CASE ClientSends(c)
      <4> DEFINE r == [client[c] EXCEPT !.sent = TRUE, !.unread = TRUE]
      <4>1. r \in Client /\ r.at = client[c].at /\ client[c].at \in {"open", "backlog"}
        BY <3>1, <3>3 DEF ClientSends, Client
      <4>2. client' = [client EXCEPT ![c] = r]
        BY <3>3 DEF ClientSends
      <4> HIDE DEF r
      <4> QED BY <4>1, <4>2
    <3>4. CASE ClientEnds(c)
      <4> DEFINE r == [client[c] EXCEPT !.eof = TRUE]
      <4>1. r \in Client /\ r.at = client[c].at /\ client[c].at \in {"open", "backlog"}
        BY <3>1, <3>4 DEF ClientEnds, Client
      <4>2. client' = [client EXCEPT ![c] = r]
        BY <3>4 DEF ClientEnds
      <4> HIDE DEF r
      <4> QED BY <4>1, <4>2
    <3> QED BY <1>1, <3>2, <3>3, <3>4
  <2>4. client' \in [Conns -> Client] /\ client'[c] = r
        /\ \A d \in Conns : d # c => client'[d] = client[d]
    BY <2>1, <2>3
  <2> QED BY <2>2, <2>3, <2>4
<1>4. TypeOK' /\ PhaseInv' /\ BatchInv'
  BY <1>2, <1>3 DEF IInv, TypeOK, PhaseInv, BatchInv
<1>5. Quiet
  BY <1>2, <1>3 DEF Quiet
<1>6. Alone' => OnceInv'
  BY <1>2, <1>5, QuietClosesOnce DEF IInv, OnceInv
<1> QED BY <1>4, <1>5, <1>6, QuietKeeps DEF IInv

LEMMA AcceptEndKeeps ==
  ASSUME IInv, AcceptFails \/ OnConnection
  PROVE  IInv'
<1>1. /\ UNCHANGED <<threads, next, state, home, fd, epoll, loop, client>>
      /\ aborted' \in {aborted, "accept"}
      /\ timers' \in {timers, IF AutoClose THEN timers \cup {server.connecting} ELSE timers}
  BY DEF AcceptFails, OnConnection
<1>2. server'.map = server.map /\ TypeOK'
  <2>1. CASE AcceptFails
    BY <2>1 DEF AcceptFails, IInv, TypeOK
  <2>2. CASE OnConnection
    <3>1. server.connecting \in Conns
      BY <2>2 DEF OnConnection, IInv, TypeOK
    <3> QED BY <2>2, <3>1 DEF OnConnection, IInv, TypeOK
  <2> QED BY <2>1, <2>2
<1>3. PhaseInv' /\ BatchInv'
  BY <1>1, ServerAssumption DEF IInv, PhaseInv, BatchInv
<1>4. Quiet
  BY <1>1, <1>2 DEF Quiet
<1>5. Alone' => OnceInv'
  BY <1>1, <1>4, QuietClosesOnce DEF IInv, OnceInv
<1> QED BY <1>2, <1>3, <1>4, <1>5, QuietKeeps DEF IInv

\* Poll reports what is ready, and it is so until it is handled.
LEMMA PollKeeps ==
  ASSUME IInv, NEW t \in Loops, Poll(t)
  PROVE  IInv'
<1>1. PICK due \in SUBSET (IF t = Main THEN timers ELSE {}) :
        /\ loop' = [loop EXCEPT ![t].pc = "events", ![t].batch = Ready(t, due)]
        /\ timers' = timers \ due
  BY DEF Poll
<1>2. /\ UNCHANGED <<threads, next, server, state, home, fd, epoll, client, aborted>>
      /\ loop[t].pc = "poll"
  BY DEF Poll
<1> DEFINE batch == Ready(t, due)
<1>3. /\ batch \subseteq Event
      /\ \A c \in Conns : <<"read", c>> \in batch => c \in epoll /\ home[c] = t
      /\ \A c \in Conns : <<"timer", c>> \in batch => c \in due
  <2>1. batch \subseteq Event
    BY DEF Ready
  <2>2. ASSUME NEW c \in Conns, <<"read", c>> \in batch
        PROVE  c \in epoll /\ home[c] = t
    BY <2>2 DEF Ready, Readable
  <2>3. ASSUME NEW c \in Conns, <<"timer", c>> \in batch
        PROVE  c \in due
    BY <2>3 DEF Ready
  <2> QED BY <2>1, <2>2, <2>3
<1> HIDE DEF batch
<1>4. loop' = [loop EXCEPT ![t].pc = "events", ![t].batch = batch]
  BY <1>1 DEF batch
<1> DEFINE r == [loop[t] EXCEPT !.pc = "events", !.batch = batch]
<1>5. /\ r \in Loop /\ r.pc = "events" /\ r.batch = batch
      /\ r.toDo = loop[t].toDo /\ r.functors = loop[t].functors
      /\ r.held = loop[t].held /\ r.closing = loop[t].closing /\ r.wake = loop[t].wake
  <2>1. loop[t] \in Loop
    BY DEF IInv, TypeOK
  <2> QED BY <1>3, <2>1 DEF Loop
<1>6. /\ loop' \in [Loops -> Loop] /\ loop'[t] = r
      /\ \A u \in Loops : u # t => loop'[u] = loop[u]
  <2>1. loop' = [loop EXCEPT ![t] = r]
    BY <1>4
  <2> HIDE DEF r
  <2> QED BY <1>5, <2>1, OneLoop DEF IInv
<1> HIDE DEF r
<1>7. TypeOK'
  <2>1. client' \in [Conns -> Client]
    BY <1>2, ZenonT(30) DEF IInv, TypeOK, Client
  <2> QED BY <1>1, <1>2, <1>6, <2>1 DEF IInv, TypeOK
<1>8. Quiet
  <2>1. \A c \in Conns : client'[c].at = client[c].at
    BY <1>2 DEF IInv, TypeOK, Client
  <2> QED BY <1>2, <1>5, <1>6, <2>1 DEF Quiet
<1>9. PhaseInv'
  <2>1. loop[t].functors = <<>>
    BY <1>2 DEF IInv, PhaseInv
  <2> QED BY <1>5, <1>6, <2>1 DEF IInv, PhaseInv
<1>10. BatchInv'
  <2>1. \A c \in due : t = Main /\ AutoClose
    BY DEF IInv, BatchInv
  <2>2. timers' # {} => AutoClose
    BY <1>1 DEF IInv, BatchInv
  <2>3. ASSUME NEW u \in Loops, NEW c \in Conns
        PROVE  /\ <<"read", c>> \in loop'[u].batch => home'[c] = u /\ c \in epoll'
               /\ <<"timer", c>> \in loop'[u].batch => u = Main /\ AutoClose
    <3>1. CASE u = t
      BY <1>2, <1>3, <1>5, <1>6, <2>1, <3>1
    <3>2. CASE u # t
      BY <1>2, <1>6, <3>2 DEF IInv, BatchInv
    <3> QED BY <3>1, <3>2
  <2> QED BY <2>2, <2>3 DEF BatchInv
<1>11. Alone' => OnceInv'
  BY <1>2, <1>5, <1>6, <1>8, QuietClosesOnce DEF IInv, OnceInv
<1> QED BY <1>7, <1>8, <1>9, <1>10, <1>11, QuietKeeps DEF IInv

LEMMA WakeUpKeeps ==
  ASSUME IInv, NEW t \in Loops, WakeUp(t)
  PROVE  IInv'
<1>1. /\ loop' = [loop EXCEPT ![t].batch = {}, ![t].wake = FALSE]
      /\ loop[t].pc = "events"
      /\ UNCHANGED <<threads, next, server, state, home, fd, epoll, timers, client, aborted>>
  BY DEF WakeUp
<1> DEFINE r == [loop[t] EXCEPT !.batch = {}, !.wake = FALSE]
<1>2. /\ r \in Loop /\ r.pc = "events" /\ r.batch = {}
      /\ r.toDo = loop[t].toDo /\ r.functors = loop[t].functors
      /\ r.held = loop[t].held /\ r.closing = loop[t].closing
  <2>1. loop[t] \in Loop
    BY DEF IInv, TypeOK
  <2> QED BY <1>1, <2>1 DEF Loop
<1>3. /\ loop' \in [Loops -> Loop] /\ loop'[t] = r
      /\ \A u \in Loops : u # t => loop'[u] = loop[u]
  <2>1. loop' = [loop EXCEPT ![t] = r]
    BY <1>1
  <2> HIDE DEF r
  <2> QED BY <1>2, <2>1, OneLoop DEF IInv
<1> HIDE DEF r
<1>4. TypeOK' /\ PhaseInv' /\ BatchInv'
  BY <1>1, <1>2, <1>3 DEF IInv, TypeOK, PhaseInv, BatchInv
<1>5. Quiet
  BY <1>1, <1>2, <1>3 DEF Quiet
<1>6. Alone' => OnceInv'
  BY <1>1, <1>2, <1>3, <1>5, QuietClosesOnce DEF IInv, OnceInv
<1> QED BY <1>4, <1>5, <1>6, QuietKeeps DEF IInv

\* A callback handles an event of its loop's batch and may begin to close the
\* connection: its own, or one of the map's by the idle timer.
LEMMA CallbackKeeps ==
  ASSUME IInv, NEW t \in Loops, NEW c \in Conns, NEW e \in Event, NEW k \in {c, None},
         loop[t].pc = "events", loop[t].closing = None,
         loop' = [loop EXCEPT ![t].batch = @ \ {e}, ![t].closing = k],
         k = c => Alive(c) /\ (Alone => t = home[c] /\ state[c] = "Connected"),
         UNCHANGED <<threads, next, server, state, home, fd, epoll, aborted>>,
         timers' \in SUBSET Conns, timers' # {} => AutoClose,
         client' \in [Conns -> Client], \A d \in Conns : client'[d].at = client[d].at
  PROVE  IInv'
<1> DEFINE r == [loop[t] EXCEPT !.batch = @ \ {e}, !.closing = k]
<1>1. /\ r \in Loop /\ r.pc = "events" /\ r.batch \subseteq loop[t].batch
      /\ r.toDo = loop[t].toDo /\ r.functors = loop[t].functors
      /\ r.held = loop[t].held /\ r.closing = k /\ r.wake = loop[t].wake
  <2>1. loop[t] \in Loop
    BY DEF IInv, TypeOK
  <2> QED BY <2>1 DEF Loop
<1>2. /\ loop' \in [Loops -> Loop] /\ loop'[t] = r
      /\ \A u \in Loops : u # t => loop'[u] = loop[u]
  <2>1. loop' = [loop EXCEPT ![t] = r]
    OBVIOUS
  <2> HIDE DEF r
  <2> QED BY <1>1, <2>1, OneLoop DEF IInv
<1> HIDE DEF r
<1>3. TypeOK'
  BY <1>2 DEF IInv, TypeOK
<1>4. PhaseInv' /\ BatchInv'
  BY <1>1, <1>2 DEF IInv, PhaseInv, BatchInv
<1>5. Quiet
  BY <1>1, <1>2 DEF Quiet
<1>6. Alone' => OnceInv'
  <2>1. ASSUME Alone, NEW u \in Loops, NEW d \in Conns, loop'[u].closing = d
        PROVE  loop[u].closing = d \/ (u = home[d] /\ state[d] = "Connected")
    BY <1>1, <1>2, <2>1, ServerAssumption
  <2> QED BY <1>5, <2>1, QuietClosesOnce DEF IInv, OnceInv
<1> QED BY <1>3, <1>4, <1>5, <1>6, QuietKeeps DEF IInv

LEMMA RegisteredIsAlive ==
  ASSUME IInv, NEW c \in epoll
  PROVE  Alive(c)
<1>1. c \in Conns /\ c # None
  BY ServerAssumption DEF IInv, TypeOK
<1>2. CASE c \in Mapped
  BY <1>2 DEF Alive
<1>3. ASSUME NEW t \in Loops, <<"destroy", c>> \in Waiting(t)
      PROVE  Alive(c)
  <2> DEFINE f == <<"destroy", c>>
  <2>1. loop[t].toDo \in Seq(Functor) /\ loop[t].functors \in Seq(Functor)
    BY DEF IInv, TypeOK, Loop
  <2>2. f[2] = c
    OBVIOUS
  <2> HIDE DEF f
  <2>3. CASE f \in Range(loop[t].toDo)
    <3>1. c \in Bound(loop[t].toDo)
      BY <2>1, <2>2, <2>3, BoundIs
    <3> QED BY <3>1 DEF Alive
  <2>4. CASE f \in Range(loop[t].functors)
    <3>1. c \in Bound(loop[t].functors)
      BY <2>1, <2>2, <2>4, BoundIs
    <3> QED BY <3>1 DEF Alive, IInv, PhaseInv
  <2> QED BY <1>3, <2>3, <2>4 DEF Waiting, f
<1> QED BY <1>2, <1>3 DEF IInv, OwnedInv

LEMMA MessageKeeps ==
  ASSUME IInv, NEW t \in Loops, NEW c \in Conns, HandleMessage(t, c)
  PROVE  IInv'
<1>1. /\ loop[t].pc = "events" /\ loop[t].closing = None /\ <<"read", c>> \in loop[t].batch
      /\ client' = [client EXCEPT ![c].unread = FALSE]
      /\ UNCHANGED <<threads, next, server, state, home, fd, epoll, timers, aborted>>
  BY DEF HandleMessage, Free
<1>2. PICK k \in {c, None} :
        /\ loop' = [loop EXCEPT ![t].batch = @ \ {<<"read", c>>}, ![t].closing = k]
        /\ k = c => state[c] # "Disconected"
  <2>1. c # None
    BY ServerAssumption
  <2> QED BY <2>1 DEF HandleMessage
<1>3. home[c] = t /\ c \in epoll
  BY <1>1 DEF IInv, BatchInv
<1>4. Alive(c) /\ state[c] # "Invalid" /\ state[c] \in {"Invalid", "Connected", "Disconected"}
  BY <1>3, RegisteredIsAlive DEF IInv, AcceptInv, TypeOK
<1>5. client' \in [Conns -> Client] /\ \A d \in Conns : client'[d].at = client[d].at
  <2> DEFINE r == [client[c] EXCEPT !.unread = FALSE]
  <2>1. client \in [Conns -> Client] /\ client[c] \in Client
    BY DEF IInv, TypeOK
  <2>2. r \in Client /\ r.at = client[c].at
    BY <2>1 DEF Client
  <2>3. client' = [client EXCEPT ![c] = r]
    BY <1>1
  <2> HIDE DEF r
  <2> QED BY <2>1, <2>2, <2>3
<1>6. <<"read", c>> \in Event /\ timers \in SUBSET Conns /\ (timers # {} => AutoClose)
  BY DEF Event, IInv, TypeOK, BatchInv
<1> QED BY <1>1, <1>2, <1>3, <1>4, <1>5, <1>6, CallbackKeeps

LEMMA IdleKeeps ==
  ASSUME IInv, NEW c \in Conns, ActiveCloseConn(c)
  PROVE  IInv'
<1>1. /\ loop[Main].pc = "events" /\ loop[Main].closing = None
      /\ <<"timer", c>> \in loop[Main].batch
      /\ UNCHANGED <<threads, next, server, state, home, fd, epoll, client, aborted>>
      /\ timers' \in {timers, timers \cup {c}}
  BY DEF ActiveCloseConn, Free
<1>2. PICK k \in {c, None} :
        /\ loop' = [loop EXCEPT ![Main].batch = @ \ {<<"timer", c>>}, ![Main].closing = k]
        /\ k = c => Alive(c) /\ state[c] # "Disconected"
  <2>1. c # None
    BY ServerAssumption
  <2> QED BY <2>1 DEF ActiveCloseConn
<1>3. Main \in Loops /\ AutoClose
  <2>1. Main \in Loops
    BY ServerAssumption DEF Loops, Main
  <2> QED BY <1>1, <2>1 DEF IInv, BatchInv
<1>4. Alone => home[c] = Main
  BY <1>3 DEF Alone, IInv, PoolInv
<1>5. Alive(c) => state[c] # "Invalid" /\ state[c] \in {"Invalid", "Connected", "Disconected"}
  BY DEF IInv, AcceptInv, TypeOK
<1>6. /\ <<"timer", c>> \in Event /\ timers' \in SUBSET Conns /\ client' \in [Conns -> Client]
      /\ \A d \in Conns : client'[d].at = client[d].at
  BY <1>1 DEF Event, IInv, TypeOK
<1> QED BY <1>1, <1>2, <1>3, <1>4, <1>5, <1>6, CallbackKeeps

-----------------------------------------------------------------------------
(* The lists of functors are taken, and let go                             *)

\* What holds on as long as only owners leave.
LEMMA OwnersLeave ==
  ASSUME IInv, UNCHANGED <<threads, next, home, fd>>, epoll' \subseteq epoll,
         \A c \in Conns : Alive(c)' => Alive(c),
         \A c \in Conns : state'[c] = "Invalid" <=> state[c] = "Invalid",
         \A c \in Conns : client[c].at \in {"open", "closed"} =>
                            client'[c].at \in {"open", "closed"}
  PROVE  PoolInv' /\ AcceptInv' /\ (Alone' <=> Alone)
<1>1. PoolInv' /\ (Alone' <=> Alone)
  BY DEF IInv, PoolInv, Alone
<1>2. AcceptInv'
  BY DEF IInv, AcceptInv
<1> QED BY <1>1, <1>2

LEMMA TakeKeeps ==
  ASSUME IInv, NEW t \in Loops, TakeToDoList(t)
  PROVE  IInv'
<1> DEFINE l == loop[t]
           r == [l EXCEPT !.pc = IF l.toDo = <<>> THEN "poll" ELSE "functors",
                          !.toDo = <<>>, !.functors = l.toDo, !.held = Bound(l.toDo)]
<1>1. /\ loop' = [loop EXCEPT ![t] = r]
      /\ l.pc = "events" /\ l.closing = None /\ l.batch = {}
      /\ UNCHANGED <<threads, next, server, state, home, fd, epoll, timers, client, aborted>>
  BY DEF TakeToDoList, Free
<1>2. l \in Loop /\ l.toDo \in Seq(Functor) /\ Bound(l.toDo) \subseteq Conns
  <2>1. l \in Loop
    BY DEF IInv, TypeOK
  <2> QED BY <2>1, BoundIs DEF Loop
<1>3. l.functors = <<>>
  BY <1>1 DEF IInv, PhaseInv
<1> HIDE DEF l
<1>4. /\ r \in Loop /\ r.batch = {} /\ r.toDo = <<>> /\ r.functors = l.toDo
      /\ r.held = Bound(l.toDo) /\ r.closing = None /\ r.wake = l.wake
      /\ r.pc = IF l.toDo = <<>> THEN "poll" ELSE "functors"
  <2>1. <<>> \in Seq(Functor)
    BY EmptyList
  <2> QED BY <1>1, <1>2, <2>1 DEF Loop
<1> HIDE DEF r
<1>5. /\ loop' \in [Loops -> Loop] /\ loop'[t] = r
      /\ \A u \in Loops : u # t => loop'[u] = loop[u]
  BY <1>1, <1>4, OneLoop DEF IInv
<1>6. \A u \in Loops : Waiting(u)' = Waiting(u)
  <2>1. Waiting(t)' = Waiting(t)
    BY <1>3, <1>4, <1>5, EmptyList DEF Waiting, l
  <2> QED BY <1>5, <2>1 DEF Waiting
<1>7. Mapped' = Mapped /\ server'.map = server.map
  BY <1>1 DEF Mapped
<1>8. \A c \in Conns : Alive(c)' => Alive(c)
  <2> SUFFICES ASSUME NEW c \in Conns, NEW u \in Loops,
                      \/ c \in Bound(loop'[u].toDo)
                      \/ c \in loop'[u].held
                      \/ c = loop'[u].closing
               PROVE  Alive(c)
    BY <1>7 DEF Alive
  <2>1. CASE u # t
    BY <1>5, <2>1 DEF Alive
  <2>2. CASE u = t
    <3>1. c \in Bound(loop[t].toDo)
      BY <1>4, <1>5, <2>2, EmptyList, ServerAssumption DEF l
    <3> QED BY <3>1 DEF Alive
  <2> QED BY <2>1, <2>2
<1>9. TypeOK' /\ PhaseInv' /\ BatchInv'
  <2>1. TypeOK'
    BY <1>1, <1>5 DEF IInv, TypeOK
  <2>2. PhaseInv'
    BY <1>4, <1>5 DEF IInv, PhaseInv
  <2>3. BatchInv'
    BY <1>1, <1>4, <1>5 DEF IInv, BatchInv
  <2> QED BY <2>1, <2>2, <2>3
<1>10. PoolInv' /\ AcceptInv' /\ (Alone' <=> Alone)
  BY <1>1, <1>8, OwnersLeave
<1>11. FunctorInv' /\ OwnedInv' /\ MapIsExact'
  <2>1. FunctorInv'
    BY <1>1, <1>6 DEF IInv, FunctorInv
  <2>2. OwnedInv'
    BY <1>1, <1>6, <1>7 DEF IInv, OwnedInv
  <2>3. MapIsExact'
    BY <1>1, <1>8, MapStaysExact DEF IInv
  <2> QED BY <2>1, <2>2, <2>3
<1>12. ASSUME Alone PROVE OnceInv'
  <2>1. OnceInv
    BY <1>12 DEF IInv
  <2>2. Main \in Loops
    BY ServerAssumption DEF Loops, Main
  <2>3. \A u \in Loops, c \in Conns :
          loop'[u].closing = c => u = home'[c] /\ state'[c] = "Connected"
    BY <1>1, <1>4, <1>5, <2>1, ServerAssumption DEF OnceInv
  <2>4. \A f \in Waiting(Main)' : f[1] = "close" => server'.map[fd'[f[2]]] = f[2]
    BY <1>1, <1>6, <2>1, <2>2 DEF OnceInv
  <2>5. /\ Once(loop'[Main].toDo) /\ Once(loop'[Main].functors)
        /\ \A f \in Range(loop'[Main].toDo) :
             f[1] = "close" => f \notin Range(loop'[Main].functors)
    <3>1. CASE t = Main
      BY <1>4, <1>5, <2>1, <3>1, EmptyList DEF OnceInv, l
    <3>2. CASE t # Main
      BY <1>5, <2>1, <2>2, <3>2 DEF OnceInv
    <3> QED BY <3>1, <3>2
  <2> QED BY <1>1, <2>1, <2>3, <2>4, <2>5 DEF OnceInv
<1> QED BY <1>9, <1>10, <1>11, <1>12 DEF IInv

LEMMA EndKeeps ==
  ASSUME IInv, NEW t \in Loops, EndToDoList(t)
  PROVE  IInv'
<1> DEFINE l == loop[t]
           r == [l EXCEPT !.pc = "poll", !.held = {}]
<1>1. /\ loop' = [loop EXCEPT ![t] = r]
      /\ l.pc = "functors" /\ l.functors = <<>>
      /\ client' = [c \in Conns |->
           IF c \in loop[t].held /\ ~Alive(c)' THEN Closed ELSE client[c]]
      /\ UNCHANGED <<threads, next, server, state, home, fd, epoll, timers, aborted>>
  BY DEF EndToDoList
<1>2. l \in Loop
  BY DEF IInv, TypeOK
<1> HIDE DEF l
<1>3. /\ r \in Loop /\ r.batch = l.batch /\ r.toDo = l.toDo /\ r.functors = l.functors
      /\ r.held = {} /\ r.closing = l.closing /\ r.wake = l.wake /\ r.pc = "poll"
  BY <1>2 DEF Loop
<1> HIDE DEF r
<1>4. /\ loop' \in [Loops -> Loop] /\ loop'[t] = r
      /\ \A u \in Loops : u # t => loop'[u] = loop[u]
  BY <1>1, <1>3, OneLoop DEF IInv
<1>5. /\ client' \in [Conns -> Client]
      /\ \A c \in Conns : client[c].at \in {"open", "closed"} => client'[c].at \in {"open", "closed"}
  <2>1. client \in [Conns -> Client]
    BY DEF IInv, TypeOK
  <2>2. Closed \in Client /\ Closed.at = "closed"
    BY DEF Closed, Away, Client
  <2>3. \A c \in Conns : client'[c] \in {Closed, client[c]}
    BY <1>1
  <2>4. client' \in [Conns -> Client]
    BY <1>1, <2>1, <2>2
  <2> QED BY <2>2, <2>3, <2>4
<1>6. TypeOK' /\ PhaseInv' /\ BatchInv'
  <2>1. TypeOK'
    BY <1>1, <1>4, <1>5 DEF IInv, TypeOK
  <2>2. l.batch = {} /\ l.closing = None
    BY <1>1 DEF IInv, PhaseInv, l
  <2>3. PhaseInv'
    BY <1>1, <1>3, <1>4, <2>2, EmptyList DEF IInv, PhaseInv, l
  <2>4. BatchInv'
    BY <1>1, <1>3, <1>4, <2>2 DEF IInv, BatchInv
  <2> QED BY <2>1, <2>3, <2>4
<1>7. Quiet
  BY <1>1, <1>3, <1>4, <1>5 DEF Quiet, l
<1>8. Alone' => OnceInv'
  BY <1>1, <1>3, <1>4, <1>7, QuietClosesOnce DEF IInv, OnceInv, l
<1> QED BY <1>6, <1>7, <1>8, QuietKeeps DEF IInv

-----------------------------------------------------------------------------
(* Closing                                                                 *)

LEMMA DestroyKeeps ==
  ASSUME IInv, NEW t \in Loops, DestroyFunctor(t)
  PROVE  IInv'
<1> DEFINE l == loop[t]
           q == l.functors
           r == [l EXCEPT !.functors = Tail(q)]
<1>1. /\ loop' = [loop EXCEPT ![t] = r]
      /\ l.pc = "functors" /\ q # <<>> /\ q[1][1] = "destroy"
      /\ epoll' = epoll \ {q[1][2]}
      /\ UNCHANGED <<threads, next, server, state, home, fd, timers, client, aborted>>
  BY DEF DestroyFunctor
<1>2. /\ l \in Loop /\ q \in Seq(Functor) /\ l.batch = {}
      /\ q[1] \in Functor /\ Tail(q) \in Seq(Functor)
      /\ Range(q) = {q[1]} \cup Range(Tail(q)) /\ Bound(q) = {q[1][2]} \cup Bound(Tail(q))
      /\ Once(q) => Once(Tail(q))
  <2>1. l \in Loop /\ q \in Seq(Functor)
    BY DEF IInv, TypeOK, Loop
  <2>2. l.batch = {}
    BY <1>1 DEF IInv, PhaseInv
  <2> QED BY <1>1, <2>1, <2>2, TailList
<1>3. q[1] = <<"destroy", q[1][2]>> /\ q[1][2] \in Conns
  BY <1>1, <1>2, FunctorIs
<1> HIDE DEF l
<1>4. /\ r \in Loop /\ r.batch = l.batch /\ r.toDo = l.toDo /\ r.functors = Tail(q)
      /\ r.held = l.held /\ r.closing = l.closing /\ r.wake = l.wake /\ r.pc = l.pc
  BY <1>2 DEF Loop
<1> HIDE DEF r, q
<1>5. /\ loop' \in [Loops -> Loop] /\ loop'[t] = r
      /\ \A u \in Loops : u # t => loop'[u] = loop[u]
  BY <1>1, <1>4, OneLoop DEF IInv
<1>6. \A u \in Loops : /\ Waiting(u)' \subseteq Waiting(u)
                       /\ \A f \in Waiting(u) : f = q[1] \/ f \in Waiting(u)'
  <2>1. Waiting(t)' = Range(l.toDo) \cup Range(Tail(q)) /\ Waiting(t) = Range(l.toDo) \cup Range(q)
    BY <1>4, <1>5 DEF Waiting, l, q
  <2>2. \A u \in Loops : u # t => Waiting(u)' = Waiting(u)
    BY <1>5 DEF Waiting
  <2> QED BY <1>2, <2>1, <2>2
<1>7. Mapped' = Mapped /\ server'.map = server.map
  BY <1>1 DEF Mapped
<1>8. \A c \in Conns : Alive(c)' => Alive(c)
  <2> SUFFICES ASSUME NEW c \in Conns, NEW u \in Loops,
                      \/ c \in Bound(loop'[u].toDo)
                      \/ c \in loop'[u].held
                      \/ c = loop'[u].closing
               PROVE  Alive(c)
    BY <1>7 DEF Alive
  <2>1. loop'[u].toDo = loop[u].toDo /\ loop'[u].held = loop[u].held
        /\ loop'[u].closing = loop[u].closing
    BY <1>4, <1>5 DEF l
  <2> QED BY <2>1 DEF Alive
<1>9. TypeOK'
  BY <1>1, <1>5 DEF IInv, TypeOK
<1>10. PhaseInv'
  <2>1. Bound(Tail(q)) \subseteq l.held
    BY <1>2 DEF IInv, PhaseInv, l, q
  <2> QED BY <1>1, <1>2, <1>4, <1>5, <2>1 DEF IInv, PhaseInv, l
<1>11. BatchInv'
  <2>1. ASSUME NEW u \in Loops, NEW c \in Conns, <<"read", c>> \in loop'[u].batch
        PROVE  home'[c] = u /\ c \in epoll'
    <3>1. u # t /\ <<"read", c>> \in loop[u].batch
      BY <1>2, <1>4, <1>5, <2>1
    <3>2. home[c] = u /\ c \in epoll
      BY <3>1 DEF IInv, BatchInv
    <3>3. home[q[1][2]] = t
      <4>1. q[1] \in Waiting(t)
        BY <1>2 DEF Waiting, l, q
      <4> QED BY <1>1, <4>1 DEF IInv, FunctorInv
    <3> QED BY <1>1, <3>1, <3>2, <3>3
  <2>2. \A u \in Loops, c \in Conns : <<"timer", c>> \in loop'[u].batch => u = Main /\ AutoClose
    BY <1>4, <1>5 DEF IInv, BatchInv, l
  <2> QED BY <1>1, <2>1, <2>2 DEF IInv, BatchInv
<1>12. PoolInv' /\ AcceptInv' /\ (Alone' <=> Alone)
  BY <1>1, <1>8, OwnersLeave
<1>13. FunctorInv'
  BY <1>1, <1>6 DEF IInv, FunctorInv
<1>14. OwnedInv'
  <2> SUFFICES ASSUME NEW c \in epoll', c \notin Mapped
               PROVE  \E u \in Loops : <<"destroy", c>> \in Waiting(u)'
    BY <1>7 DEF OwnedInv
  <2>1. PICK u \in Loops : <<"destroy", c>> \in Waiting(u)
    BY <1>1 DEF IInv, OwnedInv
  <2>2. <<"destroy", c>> # q[1]
    BY <1>1, <1>3
  <2> QED BY <1>6, <2>1, <2>2
<1>15. MapIsExact'
  BY <1>1, <1>8, MapStaysExact DEF IInv
<1>16. ASSUME Alone PROVE OnceInv'
  <2>1. OnceInv
    BY <1>16 DEF IInv
  <2>2. Main \in Loops
    BY ServerAssumption DEF Loops, Main
  <2>3. /\ loop'[Main].toDo = loop[Main].toDo
        /\ Range(loop'[Main].functors) \subseteq Range(loop[Main].functors)
        /\ Once(loop[Main].functors) => Once(loop'[Main].functors)
    BY <1>2, <1>4, <1>5, <2>2 DEF l, q
  <2>4. \A f \in Waiting(Main)' : f[1] = "close" => server'.map[fd'[f[2]]] = f[2]
    BY <1>1, <1>6, <2>1, <2>2 DEF OnceInv
  <2>5. \A u \in Loops, c \in Conns :
          loop'[u].closing = c => u = home'[c] /\ state'[c] = "Connected"
    BY <1>1, <1>4, <1>5, <2>1 DEF OnceInv, l
  <2> QED BY <1>1, <2>1, <2>3, <2>4, <2>5 DEF OnceInv
<1> QED BY <1>9, <1>10, <1>11, <1>12, <1>13, <1>14, <1>15, <1>16 DEF IInv

\* The loops once a thread is done with what made it close c: a functor, or
\* HandleClose's own this.
Released(loops, c) ==
  /\ loops \in [Loops -> Loop]
  /\ \A t \in Loops :
       /\ loops[t].pc = loop[t].pc /\ loops[t].batch = loop[t].batch
       /\ loops[t].toDo = loop[t].toDo /\ loops[t].held = loop[t].held
       /\ loops[t].wake = loop[t].wake
       /\ loops[t].closing \in {None, loop[t].closing}
       /\ loops[t].functors # <<>> => loop[t].functors # <<>>
       /\ Range(loops[t].functors) \subseteq Range(loop[t].functors)
       /\ Range(loop[t].functors) \subseteq Range(loops[t].functors) \cup {<<"close", c>>}
  /\ Alone =>
       /\ Once(loops[Main].functors)
       /\ <<"close", c>> \notin Range(loops[Main].functors) \cup Range(loop[Main].toDo)
       /\ \A t \in Loops : loops[t].closing # c

LEMMA ClosingReleases ==
  ASSUME IInv, NEW t \in Loops, NEW c \in Conns, loop[t].closing = c
  PROVE  Released([loop EXCEPT ![t].closing = None], c)
<1> DEFINE r == [loop[t] EXCEPT !.closing = None]
           loops == [loop EXCEPT ![t] = r]
<1>1. loop[t] \in Loop /\ loop \in [Loops -> Loop] /\ Main \in Loops
  BY ServerAssumption DEF IInv, TypeOK, Loops, Main
<1>2. /\ r \in Loop /\ r.batch = loop[t].batch /\ r.toDo = loop[t].toDo
      /\ r.functors = loop[t].functors /\ r.held = loop[t].held /\ r.closing = None
      /\ r.wake = loop[t].wake /\ r.pc = loop[t].pc
  BY <1>1 DEF Loop
<1>3. [loop EXCEPT ![t].closing = None] = loops
  OBVIOUS
<1> HIDE DEF r
<1>4. /\ loops \in [Loops -> Loop] /\ loops[t] = r
      /\ \A u \in Loops : u # t => loops[u] = loop[u]
  BY <1>1, <1>2
<1> HIDE DEF loops
<1>5. ASSUME Alone
      PROVE  /\ Once(loops[Main].functors)
             /\ <<"close", c>> \notin Range(loops[Main].functors) \cup Range(loop[Main].toDo)
             /\ \A u \in Loops : loops[u].closing # c
  <2>1. OnceInv
    BY <1>5 DEF IInv
  <2>2. loops[Main].functors = loop[Main].functors
    BY <1>1, <1>2, <1>4
  <2>3. state[c] = "Connected" /\ \A u \in Loops : loop[u].closing = c => u = t
    BY <2>1 DEF OnceInv
  <2>4. ASSUME <<"close", c>> \in Waiting(Main)
        PROVE  FALSE
    <3>1. state[<<"close", c>>[2]] = "Disconected"
      BY <1>1, <2>4 DEF IInv, FunctorInv
    <3> QED BY <2>3, <3>1
  <2>5. \A u \in Loops : loops[u].closing # c
    BY <1>2, <1>4, <2>3, ServerAssumption
  <2> QED BY <2>1, <2>2, <2>4, <2>5 DEF OnceInv, Waiting
<1>6. \A u \in Loops :
        /\ loops[u].pc = loop[u].pc /\ loops[u].batch = loop[u].batch
        /\ loops[u].toDo = loop[u].toDo /\ loops[u].held = loop[u].held
        /\ loops[u].wake = loop[u].wake
        /\ loops[u].closing \in {None, loop[u].closing}
        /\ loops[u].functors = loop[u].functors
  BY <1>2, <1>4
<1>7. Released(loops, c)
  BY <1>4, <1>5, <1>6 DEF Released
<1> QED BY <1>3, <1>7

LEMMA FunctorReleases ==
  ASSUME IInv, NEW c \in Conns, loop[Main].functors # <<>>, loop[Main].functors[1] = <<"close", c>>
  PROVE  Released([loop EXCEPT ![Main].functors = Tail(@)], c)
<1> DEFINE q == loop[Main].functors
           r == [loop[Main] EXCEPT !.functors = Tail(q)]
           loops == [loop EXCEPT ![Main] = r]
<1>1. loop[Main] \in Loop /\ loop \in [Loops -> Loop] /\ Main \in Loops
  BY ServerAssumption DEF IInv, TypeOK, Loops, Main
<1>2. /\ q \in Seq(Functor) /\ Tail(q) \in Seq(Functor)
      /\ Range(q) = {<<"close", c>>} \cup Range(Tail(q))
      /\ Once(q) => Once(Tail(q)) /\ <<"close", c>> \notin Range(Tail(q))
  <2>1. q \in Seq(Functor)
    BY <1>1 DEF Loop
  <2>2. <<"close", c>>[1] = "close"
    OBVIOUS
  <2> QED BY <2>1, <2>2, TailList
<1>3. [loop EXCEPT ![Main].functors = Tail(@)] = loops
  OBVIOUS
<1>4. /\ r \in Loop /\ r.batch = loop[Main].batch /\ r.toDo = loop[Main].toDo
      /\ r.functors = Tail(q) /\ r.held = loop[Main].held /\ r.closing = loop[Main].closing
      /\ r.wake = loop[Main].wake /\ r.pc = loop[Main].pc
  BY <1>1, <1>2 DEF Loop
<1> HIDE DEF r
<1>5. /\ loops \in [Loops -> Loop] /\ loops[Main] = r
      /\ \A u \in Loops : u # Main => loops[u] = loop[u]
  BY <1>1, <1>4
<1> HIDE DEF loops
<1>6. ASSUME Alone
      PROVE  /\ Once(loops[Main].functors)
             /\ <<"close", c>> \notin Range(loops[Main].functors) \cup Range(loop[Main].toDo)
             /\ \A u \in Loops : loops[u].closing # c
  <2>1. OnceInv
    BY <1>6 DEF IInv
  <2>2. <<"close", c>> \in Waiting(Main) /\ <<"close", c>> \in Range(q) /\ <<"close", c>>[1] = "close"
    BY <1>2 DEF Waiting
  <2>3. state[<<"close", c>>[2]] = "Disconected"
    BY <1>1, <2>2 DEF IInv, FunctorInv
  <2>4. \A u \in Loops : loops[u].closing # c
    BY <1>4, <1>5, <2>1, <2>3 DEF OnceInv
  <2>5. <<"close", c>> \notin Range(loop[Main].toDo)
    BY <2>1, <2>2 DEF OnceInv
  <2> QED BY <1>2, <1>4, <1>5, <2>1, <2>4, <2>5 DEF OnceInv
<1>7. \A u \in Loops :
        /\ loops[u].pc = loop[u].pc /\ loops[u].batch = loop[u].batch
        /\ loops[u].toDo = loop[u].toDo /\ loops[u].held = loop[u].held
        /\ loops[u].wake = loop[u].wake
        /\ loops[u].closing \in {None, loop[u].closing}
        /\ u # Main => loops[u].functors = loop[u].functors
        /\ u = Main => loops[u].functors = Tail(q)
  BY <1>4, <1>5
<1>8. Released(loops, c)
  BY <1>2, <1>5, <1>6, <1>7 DEF Released
<1> QED BY <1>3, <1>8

\* What QueueOneFunc does to the lists, and to who is about to run what.
LEMMA QueueIs ==
  ASSUME IInv, NEW c \in Conns, NEW loops, Released(loops, c),
         NEW s \in Loops, NEW t \in Loops, NEW f \in Functor, f[2] = c,
         loop' = QueueOneFunc(loops, s, t, f)
  PROVE  /\ loop' \in [Loops -> Loop]
         /\ \A u \in Loops :
              /\ loop'[u].pc = loop[u].pc /\ loop'[u].batch = loop[u].batch
              /\ loop'[u].held = loop[u].held /\ loop'[u].closing = loops[u].closing
              /\ loop'[u].functors = loops[u].functors
              /\ loop'[u].toDo = IF u = t THEN Append(loop[u].toDo, f) ELSE loop[u].toDo
              /\ loop'[u].wake =
                   IF u = t THEN loop[u].wake \/ Wakes(s, t, loop[s].pc = "functors")
                            ELSE loop[u].wake
              /\ loop[u].toDo \in Seq(Functor) /\ loops[u].functors \in Seq(Functor)
              /\ Bound(loops[u].functors) \subseteq Bound(loop[u].functors)
<1> DEFINE w == loop[t].wake \/ Wakes(s, t, loop[s].pc = "functors")
           q == Append(loop[t].toDo, f)
           r == [loops[t] EXCEPT !.toDo = q, !.wake = w]
<1>1. /\ loops \in [Loops -> Loop] /\ loop \in [Loops -> Loop]
      /\ \A u \in Loops :
           /\ loops[u].pc = loop[u].pc /\ loops[u].batch = loop[u].batch
           /\ loops[u].toDo = loop[u].toDo /\ loops[u].held = loop[u].held
           /\ loops[u].wake = loop[u].wake
           /\ Range(loops[u].functors) \subseteq Range(loop[u].functors)
  BY DEF Released, IInv, TypeOK
<1>2. \A u \in Loops :
        /\ loop[u].toDo \in Seq(Functor) /\ loops[u].functors \in Seq(Functor)
        /\ loop[u].functors \in Seq(Functor) /\ loop[u].wake \in BOOLEAN
  BY <1>1 DEF Loop
<1>3. \A u \in Loops : Bound(loops[u].functors) \subseteq Bound(loop[u].functors)
  <2> SUFFICES ASSUME NEW u \in Loops
               PROVE  Bound(loops[u].functors) \subseteq Bound(loop[u].functors)
    OBVIOUS
  <2>1. /\ Bound(loops[u].functors) = {g[2] : g \in Range(loops[u].functors)}
        /\ Bound(loop[u].functors) = {g[2] : g \in Range(loop[u].functors)}
    BY <1>2, BoundIs
  <2> QED BY <1>1, <2>1
<1>4. loop' = [loops EXCEPT ![t] = r]
  BY <1>1 DEF QueueOneFunc
<1>5. q \in Seq(Functor) /\ w \in BOOLEAN
  BY <1>2, AppendList DEF Wakes
<1> HIDE DEF q, w
<1>6. /\ r \in Loop /\ r.batch = loops[t].batch /\ r.toDo = q /\ r.functors = loops[t].functors
      /\ r.held = loops[t].held /\ r.closing = loops[t].closing
      /\ r.wake = w /\ r.pc = loops[t].pc
  <2>1. loops[t] \in Loop
    BY <1>1
  <2> QED BY <1>5, <2>1 DEF Loop
<1> HIDE DEF r
<1>7. /\ loop' \in [Loops -> Loop] /\ loop'[t] = r
      /\ \A u \in Loops : u # t => loop'[u] = loops[u]
  BY <1>1, <1>4, <1>6
<1>8. ASSUME NEW u \in Loops
      PROVE  /\ loop'[u].pc = loop[u].pc /\ loop'[u].batch = loop[u].batch
             /\ loop'[u].held = loop[u].held /\ loop'[u].closing = loops[u].closing
             /\ loop'[u].functors = loops[u].functors
             /\ loop'[u].toDo = IF u = t THEN q ELSE loop[u].toDo
             /\ loop'[u].wake = IF u = t THEN w ELSE loop[u].wake
  BY <1>1, <1>6, <1>7
<1> QED BY <1>2, <1>3, <1>7, <1>8 DEF q, w

\* A closing connection is somebody's, and is not connected any more.
LEMMA ClosingStays ==
  ASSUME IInv, NEW c \in Conns, Alive(c), state' = [state EXCEPT ![c] = "Disconected"],
         UNCHANGED <<threads, next, home, fd, epoll, client>>,
         \A d \in Conns : Alive(d)' => Alive(d)
  PROVE  /\ PoolInv' /\ AcceptInv' /\ (Alone' <=> Alone)
         /\ state' \in [Conns -> {"Invalid", "Connected", "Disconected"}]
         /\ \A d \in Conns : state'[d] = IF d = c THEN "Disconected" ELSE state[d]
         /\ fd[c] \in Fds
<1>1. state \in [Conns -> {"Invalid", "Connected", "Disconected"}]
  BY DEF IInv, TypeOK
<1>2. \A d \in Conns : state'[d] = IF d = c THEN "Disconected" ELSE state[d]
  BY <1>1
<1>3. state[c] # "Invalid" /\ fd[c] \in Fds
  BY DEF IInv, AcceptInv
<1>4. PoolInv' /\ AcceptInv' /\ (Alone' <=> Alone)
  BY <1>2, <1>3, OwnersLeave
<1> QED BY <1>1, <1>2, <1>3, <1>4

\* Whom c shares its descriptor with: nobody.
LEMMA EntryIs ==
  ASSUME IInv, NEW c \in Conns, Alive(c)
  PROVE  fd[c] \in Fds /\ server.map[fd[c]] \in {None, c}
<1>1. fd[c] \in Fds /\ server.map[fd[c]] \in Conns \cup {None}
  BY DEF IInv, AcceptInv, TypeOK
<1>2. ASSUME NEW d \in Conns, server.map[fd[c]] = d, d # c
      PROVE  FALSE
  <2>1. d # None /\ fd[d] = fd[c]
    BY <1>1, <1>2, ServerAssumption DEF IInv, MapIsExact
  <2>2. d \in Mapped
    <3>1. DOMAIN server.map = Fds
      BY DEF IInv, TypeOK
    <3> QED BY <1>1, <1>2, <2>1, <3>1 DEF Mapped, Range
  <2>3. Alive(d)
    BY <2>2 DEF Alive
  <2> QED BY <1>2, <2>1, <2>3 DEF IInv, MapIsExact
<1> QED BY <1>1, <1>2

\* The assert of HandleCloseInLoop fails: the program ends where it is.
LEMMA AbortKeeps ==
  ASSUME IInv, NEW c \in Conns, Alive(c), server.map[fd[c]] = None,
         Alone => state[c] = "Connected" \/ <<"close", c>> \in Waiting(Main),
         Released(loop', c), state' = [state EXCEPT ![c] = "Disconected"],
         aborted' = "close",
         UNCHANGED <<threads, next, server, home, fd, epoll, timers, client>>
  PROVE  IInv'
<1>1. ~Alone
  <2> SUFFICES ASSUME Alone PROVE FALSE
    OBVIOUS
  <2>1. OnceInv /\ c # None
    BY ServerAssumption DEF IInv
  <2>2. state[c] # "Connected"
    BY <2>1 DEF IInv, MapIsExact
  <2>3. server.map[fd[<<"close", c>>[2]]] = <<"close", c>>[2]
    BY <2>1, <2>2 DEF OnceInv
  <2> QED BY <2>1, <2>3
<1>2. /\ loop' \in [Loops -> Loop]
      /\ \A t \in Loops :
           /\ loop'[t].pc = loop[t].pc /\ loop'[t].batch = loop[t].batch
           /\ loop'[t].toDo = loop[t].toDo /\ loop'[t].held = loop[t].held
           /\ loop'[t].wake = loop[t].wake
           /\ loop'[t].closing \in {None, loop[t].closing}
           /\ loop'[t].functors # <<>> => loop[t].functors # <<>>
           /\ Range(loop'[t].functors) \subseteq Range(loop[t].functors)
           /\ Range(loop[t].functors) \subseteq Range(loop'[t].functors) \cup {<<"close", c>>}
  BY DEF Released
<1>3. \A t \in Loops : Bound(loop'[t].functors) \subseteq Bound(loop[t].functors)
  <2> SUFFICES ASSUME NEW t \in Loops
               PROVE  Bound(loop'[t].functors) \subseteq Bound(loop[t].functors)
    OBVIOUS
  <2>1. loop[t].functors \in Seq(Functor) /\ loop'[t].functors \in Seq(Functor)
    BY <1>2 DEF IInv, TypeOK, Loop
  <2>2. /\ Bound(loop'[t].functors) = {g[2] : g \in Range(loop'[t].functors)}
        /\ Bound(loop[t].functors) = {g[2] : g \in Range(loop[t].functors)}
    BY <2>1, BoundIs
  <2> QED BY <1>2, <2>2
<1>4. \A t \in Loops : /\ Waiting(t)' \subseteq Waiting(t)
                       /\ Waiting(t) \subseteq Waiting(t)' \cup {<<"close", c>>}
  BY <1>2 DEF Waiting
<1>5. Mapped' = Mapped /\ server'.map = server.map
  BY DEF Mapped
<1>6. \A d \in Conns : Alive(d)' => Alive(d)
  <2> SUFFICES ASSUME NEW d \in Conns, NEW u \in Loops,
                      \/ d \in Bound(loop'[u].toDo)
                      \/ d \in loop'[u].held
                      \/ d = loop'[u].closing
               PROVE  Alive(d)
    BY <1>5 DEF Alive
  <2>1. d # None
    BY ServerAssumption
  <2> QED BY <1>2, <2>1 DEF Alive
<1>7. /\ PoolInv' /\ AcceptInv' /\ (Alone' <=> Alone)
      /\ state' \in [Conns -> {"Invalid", "Connected", "Disconected"}]
      /\ \A d \in Conns : state'[d] = IF d = c THEN "Disconected" ELSE state[d]
  BY <1>6, ClosingStays
<1>8. TypeOK'
  BY <1>2, <1>7 DEF IInv, TypeOK
<1>9. PhaseInv'
  BY <1>2, <1>3 DEF IInv, PhaseInv
<1>10. BatchInv'
  BY <1>2 DEF IInv, BatchInv
<1>11. FunctorInv'
  <2> SUFFICES ASSUME NEW t \in Loops, NEW f \in Waiting(t)'
               PROVE  /\ f[1] = "close" => t = Main /\ state'[f[2]] = "Disconected"
                      /\ f[1] = "destroy" => t = home[f[2]]
    BY DEF FunctorInv
  <2>1. f \in Waiting(t) /\ f[2] \in Conns
    <3>1. loop[t].toDo \in Seq(Functor) /\ loop[t].functors \in Seq(Functor)
      BY DEF IInv, TypeOK, Loop
    <3> QED BY <1>4, <3>1, BoundIs, FunctorIs DEF Waiting
  <2> QED BY <1>7, <2>1 DEF IInv, FunctorInv
<1>12. OwnedInv'
  <2>1. \A d : <<"destroy", d>> # <<"close", c>>
    OBVIOUS
  <2> QED BY <1>4, <1>5, <2>1 DEF IInv, OwnedInv
<1>13. MapIsExact'
  BY <1>6, <1>7, MapStaysExact DEF IInv
<1> QED BY <1>1, <1>7, <1>8, <1>9, <1>10, <1>11, <1>12, <1>13 DEF IInv

\* The two ways on: the main loop takes c out of the map and lets c's own loop
\* destroy its channel; a sub-reactor lets the main loop close it.
Erases(s, t, f, c) ==
  /\ f = <<"destroy", c>> /\ s = Main /\ t = home[c]
  /\ server.map[fd[c]] = c
  /\ server' = [server EXCEPT !.map[fd[c]] = None]

HandsOver(s, t, f, c) ==
  /\ f = <<"close", c>> /\ s # Main /\ t = Main
  /\ server' = server
  /\ Alone => state[c] = "Connected"

LEMMA EntryGoes ==
  ASSUME IInv, NEW c \in Conns, fd[c] \in Fds, NEW s, NEW t, NEW f,
         Erases(s, t, f, c) \/ HandsOver(s, t, f, c)
  PROVE  /\ server' \in [map : [Fds -> Conns \cup {None}], connecting : Conns \cup {None}]
         /\ \A x \in Fds : server'.map[x] = server.map[x] \/ (server.map[x] = c /\ server'.map[x] = None)
         /\ Mapped' \subseteq Mapped /\ Mapped \subseteq Mapped' \cup {c}
         /\ HandsOver(s, t, f, c) => server' = server
<1>1. server \in [map : [Fds -> Conns \cup {None}], connecting : Conns \cup {None}]
  BY DEF IInv, TypeOK
<1>2. CASE HandsOver(s, t, f, c)
  BY <1>1, <1>2 DEF HandsOver, Mapped
<1>3. CASE Erases(s, t, f, c)
  <2>1. /\ server.map[fd[c]] = c
        /\ server' = [server EXCEPT !.map[fd[c]] = None]
    BY <1>3 DEF Erases
  <2>2. server' \in [map : [Fds -> Conns \cup {None}], connecting : Conns \cup {None}]
    BY <1>1, <2>1
  <2>3. \A x \in Fds : server'.map[x] = IF x = fd[c] THEN None ELSE server.map[x]
    BY <1>1, <2>1
  <2>4. /\ Mapped = {server.map[x] : x \in Fds} \ {None}
        /\ Mapped' = {server'.map[x] : x \in Fds} \ {None}
    BY <1>1, <2>2 DEF Mapped, Range
  <2>5. \A x \in Fds : server'.map[x] = server.map[x] \/ (server.map[x] = c /\ server'.map[x] = None)
    BY <2>1, <2>3
  <2>6. Mapped' \subseteq Mapped /\ Mapped \subseteq Mapped' \cup {c}
    BY <2>4, <2>5
  <2>7. ~HandsOver(s, t, f, c)
    BY <1>3 DEF Erases, HandsOver
  <2> QED BY <2>2, <2>5, <2>6, <2>7
<1> QED BY <1>2, <1>3

LEMMA QueueKeeps ==
  ASSUME IInv, NEW c \in Conns, Alive(c), NEW loops, Released(loops, c),
         NEW s \in Loops, NEW t \in Loops, NEW f \in Functor,
         Erases(s, t, f, c) \/ HandsOver(s, t, f, c),
         loop[s].pc \in {"events", "functors"},
         loop' = QueueOneFunc(loops, s, t, f),
         state' = [state EXCEPT ![c] = "Disconected"],
         UNCHANGED <<threads, next, home, fd, epoll, timers, client, aborted>>
  PROVE  IInv'
<1>1. f[2] = c /\ (f[1] = "close" => t = Main /\ s # t) /\ (f[1] = "destroy" => t = home[c] /\ s = Main)
  BY DEF Erases, HandsOver
<1>2. /\ loop' \in [Loops -> Loop]
      /\ \A u \in Loops :
           /\ loop'[u].pc = loop[u].pc /\ loop'[u].batch = loop[u].batch
           /\ loop'[u].held = loop[u].held /\ loop'[u].closing = loops[u].closing
           /\ loop'[u].functors = loops[u].functors
           /\ loop'[u].toDo = IF u = t THEN Append(loop[u].toDo, f) ELSE loop[u].toDo
           /\ loop'[u].wake =
                IF u = t THEN loop[u].wake \/ Wakes(s, t, loop[s].pc = "functors")
                         ELSE loop[u].wake
           /\ loop[u].toDo \in Seq(Functor) /\ loops[u].functors \in Seq(Functor)
           /\ Bound(loops[u].functors) \subseteq Bound(loop[u].functors)
  BY <1>1, QueueIs
<1>3. \A u \in Loops :
        /\ loops[u].closing \in {None, loop[u].closing}
        /\ loops[u].functors # <<>> => loop[u].functors # <<>>
        /\ Range(loops[u].functors) \subseteq Range(loop[u].functors)
        /\ Range(loop[u].functors) \subseteq Range(loops[u].functors) \cup {<<"close", c>>}
  BY DEF Released
<1>4. \A u \in Loops :
        /\ u = t => /\ Range(loop'[u].toDo) = Range(loop[u].toDo) \cup {f}
                    /\ Bound(loop'[u].toDo) = Bound(loop[u].toDo) \cup {c}
        /\ u # t => loop'[u].toDo = loop[u].toDo
  BY <1>1, <1>2, AppendList
<1>5. ASSUME NEW u \in Loops
      PROVE  /\ Waiting(u)' \subseteq Waiting(u) \cup {f}
             /\ u # t => Waiting(u)' \subseteq Waiting(u)
             /\ Waiting(u) \subseteq Waiting(u)' \cup {<<"close", c>>}
             /\ Waiting(u)' \subseteq Range(loops[u].functors) \cup Range(loop[u].toDo) \cup {f}
  <2>1. /\ Range(loop[u].toDo) \subseteq Range(loop'[u].toDo)
        /\ Range(loop'[u].toDo) \subseteq Range(loop[u].toDo) \cup {f}
        /\ u # t => Range(loop'[u].toDo) = Range(loop[u].toDo)
    BY <1>4
  <2>2. Range(loop'[u].functors) = Range(loops[u].functors)
    BY <1>2
  <2>3. /\ Range(loops[u].functors) \subseteq Range(loop[u].functors)
        /\ Range(loop[u].functors) \subseteq Range(loops[u].functors) \cup {<<"close", c>>}
    BY <1>3
  <2>4. /\ Waiting(u)' = Range(loop'[u].toDo) \cup Range(loop'[u].functors)
        /\ Waiting(u) = Range(loop[u].toDo) \cup Range(loop[u].functors)
    BY DEF Waiting
  <2> QED BY <2>1, <2>2, <2>3, <2>4
<1>6. f \in Waiting(t)'
  BY <1>4 DEF Waiting
<1>7. fd[c] \in Fds
  BY EntryIs
<1>8. /\ server' \in [map : [Fds -> Conns \cup {None}], connecting : Conns \cup {None}]
      /\ \A x \in Fds : server'.map[x] = server.map[x] \/ (server.map[x] = c /\ server'.map[x] = None)
      /\ Mapped' \subseteq Mapped /\ Mapped \subseteq Mapped' \cup {c}
      /\ HandsOver(s, t, f, c) => server' = server
  BY <1>7, EntryGoes
<1>9. \A d \in Conns : Alive(d)' => Alive(d)
  <2> SUFFICES ASSUME NEW d \in Conns, d # c, NEW u \in Loops,
                      \/ d \in Bound(loop'[u].toDo)
                      \/ d \in loop'[u].held
                      \/ d = loop'[u].closing
               PROVE  Alive(d)
    BY <1>8 DEF Alive
  <2>1. d # None
    BY ServerAssumption
  <2>2. \/ d \in Bound(loop[u].toDo)
        \/ d \in loop[u].held
        \/ d = loop[u].closing
    <3>1. d \in Bound(loop'[u].toDo) => d \in Bound(loop[u].toDo)
      BY <1>4
    <3>2. loop'[u].held = loop[u].held /\ loop'[u].closing \in {None, loop[u].closing}
      BY <1>2, <1>3
    <3> QED BY <2>1, <3>1, <3>2
  <2> QED BY <2>2 DEF Alive
<1>10. /\ PoolInv' /\ AcceptInv' /\ (Alone' <=> Alone)
       /\ state' \in [Conns -> {"Invalid", "Connected", "Disconected"}]
       /\ \A d \in Conns : state'[d] = IF d = c THEN "Disconected" ELSE state[d]
  BY <1>9, ClosingStays
<1>11. TypeOK'
  BY <1>2, <1>8, <1>10 DEF IInv, TypeOK
<1>12. PhaseInv'
  <2> SUFFICES ASSUME NEW u \in Loops
               PROVE  /\ loop'[u].batch # {} \/ loop'[u].closing # None => loop'[u].pc = "events"
                      /\ loop'[u].functors # <<>> => loop'[u].pc = "functors"
                      /\ Bound(loop'[u].functors) \subseteq loop'[u].held
                      /\ loop'[u].pc # "events" /\ loop'[u].toDo # <<>> => loop'[u].wake
    BY DEF PhaseInv
  <2>1. /\ loop[u].batch # {} \/ loop[u].closing # None => loop[u].pc = "events"
        /\ loop[u].functors # <<>> => loop[u].pc = "functors"
        /\ Bound(loop[u].functors) \subseteq loop[u].held
        /\ loop[u].pc # "events" /\ loop[u].toDo # <<>> => loop[u].wake
    BY DEF IInv, PhaseInv
  <2>2. /\ loop'[u].batch # {} \/ loop'[u].closing # None => loop'[u].pc = "events"
        /\ loop'[u].functors # <<>> => loop'[u].pc = "functors"
        /\ Bound(loop'[u].functors) \subseteq loop'[u].held
    BY <1>2, <1>3, <2>1, ZenonT(30)
  <2>3. CASE u # t
    BY <1>2, <2>1, <2>2, <2>3
  <2>4. CASE u = t
    <3>1. loop[u].pc # "events" => Wakes(s, t, loop[s].pc = "functors")
      BY <2>4 DEF Wakes
    <3> QED BY <1>2, <2>1, <2>2, <2>4, <3>1
  <2> QED BY <2>3, <2>4
<1>13. BatchInv'
  BY <1>2 DEF IInv, BatchInv
<1>14. FunctorInv'
  <2> SUFFICES ASSUME NEW u \in Loops, NEW g \in Waiting(u)'
               PROVE  /\ g[1] = "close" => u = Main /\ state'[g[2]] = "Disconected"
                      /\ g[1] = "destroy" => u = home[g[2]]
    BY DEF FunctorInv
  <2>1. CASE g \in Waiting(u)
    <3>1. g[2] \in Conns
      <4>1. loop[u].functors \in Seq(Functor) /\ loop[u].toDo \in Seq(Functor)
        BY DEF IInv, TypeOK, Loop
      <4> QED BY <2>1, <4>1, BoundIs, FunctorIs DEF Waiting
    <3> QED BY <1>10, <2>1, <3>1 DEF IInv, FunctorInv
  <2>2. CASE g = f /\ u = t
    BY <1>1, <1>10, <2>2
  <2> QED BY <1>5, <2>1, <2>2
<1>15. OwnedInv'
  <2> SUFFICES ASSUME NEW d \in epoll, d \notin Mapped'
               PROVE  \E u \in Loops : <<"destroy", d>> \in Waiting(u)'
    BY DEF OwnedInv
  <2>1. CASE d \notin Mapped
    <3>1. PICK u \in Loops : <<"destroy", d>> \in Waiting(u)
      BY <2>1 DEF IInv, OwnedInv
    <3>2. <<"destroy", d>> # <<"close", c>>
      OBVIOUS
    <3> QED BY <1>5, <3>1, <3>2
  <2>2. CASE d \in Mapped
    <3>1. d = c /\ ~HandsOver(s, t, f, c)
      BY <1>8, <2>2 DEF Mapped
    <3>2. f = <<"destroy", c>>
      BY <3>1 DEF Erases
    <3> QED BY <1>6, <3>1, <3>2
  <2> QED BY <2>1, <2>2
<1>16. MapIsExact'
  <2>1. \A x \in Fds : server'.map[x] # None => fd[server'.map[x]] = x
    BY <1>8 DEF IInv, MapIsExact
  <2>2. ASSUME NEW d \in Conns, state'[d] = "Connected"
        PROVE  server'.map[fd[d]] = d
    <3>1. d # c /\ state[d] = "Connected"
      BY <1>10, <2>2
    <3>2. server.map[fd[d]] = d /\ fd[d] \in Fds
      BY <3>1 DEF IInv, MapIsExact, AcceptInv
    <3> QED BY <1>8, <3>1, <3>2
  <2>3. \A d, e \in Conns : d # e /\ Alive(d)' /\ Alive(e)' => fd[d] # fd[e]
    BY <1>9 DEF IInv, MapIsExact
  <2> QED BY <2>1, <2>2, <2>3 DEF MapIsExact
<1>17. ASSUME Alone PROVE OnceInv'
  <2>1. OnceInv /\ Main \in Loops
    BY <1>17, ServerAssumption DEF IInv, Loops, Main
  <2>2. /\ Once(loops[Main].functors)
        /\ <<"close", c>> \notin Range(loops[Main].functors) \cup Range(loop[Main].toDo)
        /\ \A u \in Loops : loops[u].closing # c
    BY <1>17 DEF Released
  <2>3. ASSUME NEW u \in Loops, NEW d \in Conns, loop'[u].closing = d
        PROVE  u = home[d] /\ state'[d] = "Connected"
    <3>1. d # c /\ loop[u].closing = d
      BY <1>2, <1>3, <2>2, <2>3, ServerAssumption
    <3> QED BY <1>10, <2>1, <3>1 DEF OnceInv
  <2>4. ASSUME NEW g \in Waiting(Main)', g[1] = "close"
        PROVE  server'.map[fd[g[2]]] = g[2]
    <3>1. CASE g = f
      <4>1. HandsOver(s, t, f, c)
        BY <2>4, <3>1 DEF Erases
      <4>2. state[c] = "Connected" /\ server' = server
        BY <1>17, <4>1 DEF HandsOver
      <4>3. server.map[fd[c]] = c
        BY <4>2 DEF IInv, MapIsExact
      <4> QED BY <1>1, <3>1, <4>2, <4>3
    <3>2. CASE g # f
      <4>1. g \in Waiting(Main) /\ g \in Functor
        <5>1. loop[Main].functors \in Seq(Functor) /\ loop[Main].toDo \in Seq(Functor)
          BY <2>1 DEF IInv, TypeOK, Loop
        <5> QED BY <1>5, <2>1, <3>2, <5>1, BoundIs, ZenonT(30) DEF Waiting
      <4>2. g \in Range(loops[Main].functors) \cup Range(loop[Main].toDo)
        BY <1>5, <2>1, <3>2
      <4>3. g[2] # c /\ g[2] \in Conns
        BY <2>2, <2>4, <4>1, <4>2, FunctorIs
      <4>4. server.map[fd[g[2]]] = g[2]
        BY <2>1, <2>4, <4>1 DEF OnceInv
      <4>5. fd[g[2]] \in Fds
        <5>1. state[g[2]] = "Disconected"
          BY <2>1, <2>4, <4>1 DEF IInv, FunctorInv
        <5> QED BY <4>3, <5>1 DEF IInv, AcceptInv
      <4> QED BY <1>8, <4>3, <4>4, <4>5
    <3> QED BY <3>1, <3>2
  <2>5. /\ Once(loop'[Main].toDo) /\ Once(loop'[Main].functors)
        /\ \A g \in Range(loop'[Main].toDo) :
             g[1] = "close" => g \notin Range(loop'[Main].functors)
    <3>1. /\ loop'[Main].functors = loops[Main].functors /\ loop[Main].toDo \in Seq(Functor)
          /\ Range(loops[Main].functors) \subseteq Range(loop[Main].functors)
      BY <1>2, <1>3, <2>1
    <3>2. f[1] = "close" => f = <<"close", c>>
      BY DEF Erases, HandsOver
    <3>3. CASE t = Main
      <4>1. loop'[Main].toDo = Append(loop[Main].toDo, f)
        BY <1>2, <2>1, <3>3
      <4>2. Once(loop'[Main].toDo) /\ Range(loop'[Main].toDo) = Range(loop[Main].toDo) \cup {f}
        <5> DEFINE q == loop[Main].toDo
        <5>1. q \in Seq(Functor) /\ Once(q) /\ (f[1] = "close" => f \notin Range(q))
          BY <2>1, <2>2, <3>1, <3>2 DEF OnceInv
        <5>2. loop'[Main].toDo = Append(q, f)
          BY <4>1
        <5> HIDE DEF q
        <5>3. Once(Append(q, f)) /\ Range(Append(q, f)) = Range(q) \cup {f}
          BY <5>1, AppendList
        <5> QED BY <5>2, <5>3 DEF q
      <4> QED BY <2>1, <2>2, <3>1, <3>2, <4>2 DEF OnceInv
    <3>4. CASE t # Main
      <4>1. loop'[Main].toDo = loop[Main].toDo
        BY <1>4, <2>1, <3>4
      <4> QED BY <2>1, <2>2, <3>1, <4>1 DEF OnceInv
    <3> QED BY <3>3, <3>4
  <2> QED BY <2>1, <2>3, <2>4, <2>5 DEF OnceInv
<1> QED BY <1>10, <1>11, <1>12, <1>13, <1>14, <1>15, <1>16, <1>17 DEF IInv

LEMMA MainErases ==
  ASSUME IInv, NEW c \in Conns, Alive(c), NEW loops, Released(loops, c),
         loop[Main].pc \in {"events", "functors"},
         server.map[fd[c]] # None, HandleCloseInLoop(loops, c),
         state' = [state EXCEPT ![c] = "Disconected"],
         UNCHANGED <<threads, next, home, fd, epoll, timers, client>>
  PROVE  IInv'
<1>1. Main \in Loops /\ home[c] \in Loops /\ <<"destroy", c>> \in Functor
  BY ServerAssumption DEF Loops, Main, IInv, TypeOK, Functor
<1>2. /\ server' = [server EXCEPT !.map[fd[c]] = None]
      /\ loop' = QueueOneFunc(loops, Main, home[c], <<"destroy", c>>)
      /\ aborted' = aborted
  BY DEF HandleCloseInLoop, Hand
<1>3. Erases(Main, home[c], <<"destroy", c>>, c)
  BY <1>2, EntryIs DEF Erases
<1> QED BY <1>1, <1>2, <1>3, QueueKeeps

LEMMA CloseFunctorKeeps ==
  ASSUME IInv, NEW t \in Loops, CloseFunctor(t)
  PROVE  IInv'
<1>1. loop[t].functors # <<>> /\ loop[t].functors[1][1] = "close" /\ loop[t].pc = "functors"
  BY DEF CloseFunctor
<1>2. loop[t].functors \in Seq(Functor) /\ loop[t].functors[1] \in Functor
  <2>1. loop[t].functors \in Seq(Functor)
    BY DEF IInv, TypeOK, Loop
  <2> QED BY <1>1, <2>1, TailList
<1>3. PICK c \in Conns : loop[t].functors[1] = <<"close", c>>
  BY <1>1, <1>2, FunctorIs
<1>4. <<"close", c>> \in Waiting(t) /\ c \in Bound(loop[t].functors)
  <2>1. /\ Range(loop[t].functors) = {<<"close", c>>} \cup Range(Tail(loop[t].functors))
        /\ Bound(loop[t].functors) = {<<"close", c>>[2]} \cup Bound(Tail(loop[t].functors))
    BY <1>1, <1>2, <1>3, TailList
  <2> QED BY <2>1 DEF Waiting
<1>5. t = Main /\ state[c] = "Disconected"
  <2>1. <<"close", c>>[1] = "close" /\ <<"close", c>>[2] = c
    OBVIOUS
  <2> QED BY <1>4, <2>1 DEF IInv, FunctorInv
<1>6. Alive(c)
  BY <1>4 DEF Alive, IInv, PhaseInv
<1>7. state' = [state EXCEPT ![c] = "Disconected"]
  <2>1. state \in [Conns -> {"Invalid", "Connected", "Disconected"}]
    BY DEF IInv, TypeOK
  <2> QED BY <1>5, <2>1 DEF CloseFunctor
<1> DEFINE loops == [loop EXCEPT ![Main].functors = Tail(@)]
<1>8. Released(loops, c)
  BY <1>1, <1>3, <1>5, FunctorReleases
<1>9. /\ HandleCloseInLoop(loops, c)
      /\ UNCHANGED <<threads, next, home, fd, epoll, timers, client>>
  BY <1>3, <1>5 DEF CloseFunctor
<1> HIDE DEF loops
<1>10. CASE server.map[fd[c]] = None
  <2>1. aborted' = "close" /\ loop' = loops /\ server' = server
    BY <1>9, <1>10 DEF HandleCloseInLoop
  <2> QED BY <1>4, <1>5, <1>6, <1>7, <1>8, <1>9, <1>10, <2>1, AbortKeeps
<1>11. CASE server.map[fd[c]] # None
  BY <1>1, <1>5, <1>6, <1>7, <1>8, <1>9, <1>11, MainErases
<1> QED BY <1>10, <1>11

LEMMA SetDisconectedKeeps ==
  ASSUME IInv, NEW t \in Loops, SetDisconected(t)
  PROVE  IInv'
<1>1. PICK c \in Conns : loop[t].closing = c
  BY DEF SetDisconected, IInv, TypeOK, Loop
<1> DEFINE loops == [loop EXCEPT ![t].closing = None]
<1>2. /\ state' = [state EXCEPT ![c] = "Disconected"]
      /\ t = Main => HandleCloseInLoop(loops, c)
      /\ t # Main => /\ loop' = QueueOneFunc(loops, t, Main, <<"close", c>>)
                     /\ UNCHANGED <<server, aborted>>
      /\ UNCHANGED <<threads, next, home, fd, epoll, timers, client>>
  BY <1>1 DEF SetDisconected
<1>3. Released(loops, c)
  BY <1>1, ClosingReleases
<1>4. Alive(c) /\ loop[t].pc = "events" /\ (Alone => state[c] = "Connected")
  BY <1>1, ServerAssumption DEF Alive, IInv, PhaseInv, OnceInv
<1> HIDE DEF loops
<1>5. CASE t = Main /\ server.map[fd[c]] = None
  <2>1. aborted' = "close" /\ loop' = loops /\ server' = server
    BY <1>2, <1>5 DEF HandleCloseInLoop
  <2> QED BY <1>2, <1>3, <1>4, <1>5, <2>1, AbortKeeps
<1>6. CASE t = Main /\ server.map[fd[c]] # None
  BY <1>2, <1>3, <1>4, <1>6, MainErases
<1>7. CASE t # Main
  <2>1. Main \in Loops /\ <<"close", c>> \in Functor
    BY ServerAssumption DEF Loops, Main, Functor
  <2>2. HandsOver(t, Main, <<"close", c>>, c)
    BY <1>2, <1>4, <1>7 DEF HandsOver
  <2>3. /\ loop' = QueueOneFunc(loops, t, Main, <<"close", c>>) /\ loop[t].pc \in {"events", "functors"}
        /\ state' = [state EXCEPT ![c] = "Disconected"]
        /\ UNCHANGED <<threads, next, home, fd, epoll, timers, client, aborted>>
    BY <1>2, <1>4, <1>7
  <2> QED BY <1>3, <1>4, <2>1, <2>2, <2>3, QueueKeeps
<1> QED BY <1>5, <1>6, <1>7

-----------------------------------------------------------------------------
(* A new connection                                                        *)

\* The kernel gives the lowest descriptor that no connection holds, if any.
LEMMA LowestFree ==
  ASSUME FreeFds # {}
  PROVE  Min(FreeFds) \in FreeFds
<1> DEFINE R == OpToRel(<, Nat)
           S == FreeFds
<1>1. S \subseteq Nat /\ S # {}
  BY ServerAssumption DEF FreeFds, Fds
<1> HIDE DEF S
<1>2. \E n \in S : \A m \in S : n <= m
  <2>1. IsWellFoundedOn(R, Nat)
    BY NatLessThanWellFounded
  <2> HIDE DEF R
  <2>2. PICK n \in S : \A m \in S : ~ (<<m, n>> \in R)
    BY <1>1, <2>1, WFMin
  <2>3. ASSUME NEW m \in S PROVE n <= m
    <3>1. ~ (m < n)
      BY <1>1, <2>2 DEF R, OpToRel
    <3> QED BY <1>1, <3>1
  <2> QED BY <2>3
<1>3. Min(S) \in S
  BY <1>2 DEF Min
<1> QED BY <1>3 DEF S

\* A functor keeps the connection it is bound to.
LEMMA WaitingIsAlive ==
  ASSUME IInv, NEW t \in Loops, NEW f \in Waiting(t)
  PROVE  f[2] \in Conns /\ Alive(f[2])
<1>1. loop[t].toDo \in Seq(Functor) /\ loop[t].functors \in Seq(Functor)
  BY DEF IInv, TypeOK, Loop
<1>2. f[2] \in Bound(loop[t].toDo) \cup Bound(loop[t].functors) /\ f \in Functor
  BY <1>1, BoundIs DEF Waiting
<1>3. f[2] \in Bound(loop[t].toDo) \cup loop[t].held
  BY <1>2 DEF IInv, PhaseInv
<1> QED BY <1>2, <1>3, FunctorIs DEF Alive

LEMMA NewConnectionKeeps ==
  ASSUME IInv, NEW c \in Conns, HandleNewConnection(c)
  PROVE  IInv'
<1>1. PICK x \in FreeFds : x = Min(FreeFds)
  BY LowestFree DEF HandleNewConnection
<1>2. /\ loop[Main].pc = "events" /\ client[c].at = "backlog"
      /\ fd' = [fd EXCEPT ![c] = x]
      /\ home' = [home EXCEPT ![c] = IF threads = 0 THEN Main ELSE next + 1]
      /\ next' = IF threads = 0 THEN next ELSE (next + 1) % threads
      /\ state' = [state EXCEPT ![c] = "Connected"]
      /\ server' = [map |-> [server.map EXCEPT ![x] = c], connecting |-> c]
      /\ epoll' = epoll \cup {c}
      /\ loop' = [loop EXCEPT ![Main].batch = @ \ {<<"accept">>}]
      /\ client' = [client EXCEPT ![c].at = "open"]
      /\ UNCHANGED <<threads, timers, aborted>>
  BY <1>1 DEF HandleNewConnection
<1>3. x \in Fds /\ \A d \in Conns : Alive(d) => fd[d] # x
  BY DEF FreeFds
<1>4. ~Alive(c) /\ c \notin epoll
  BY <1>2 DEF IInv, AcceptInv
<1>5. server.map \in [Fds -> Conns \cup {None}] /\ Mapped = {server.map[y] : y \in Fds} \ {None}
  <2>1. server.map \in [Fds -> Conns \cup {None}]
    BY DEF IInv, TypeOK
  <2> QED BY <2>1 DEF Mapped, Range
<1>6. \A y \in Fds : server.map[y] # None => Alive(server.map[y]) /\ fd[server.map[y]] = y
  BY <1>5 DEF Alive, IInv, MapIsExact
<1>7. server.map[x] = None
  BY <1>3, <1>5, <1>6
<1>8. /\ server' \in [map : [Fds -> Conns \cup {None}], connecting : Conns \cup {None}]
      /\ \A y \in Fds : server'.map[y] = IF y = x THEN c ELSE server.map[y]
      /\ Mapped' = Mapped \cup {c}
  <2>1. server'.map = [server.map EXCEPT ![x] = c] /\ server'.connecting = c
    BY <1>2
  <2>2. /\ server' \in [map : [Fds -> Conns \cup {None}], connecting : Conns \cup {None}]
        /\ \A y \in Fds : server'.map[y] = IF y = x THEN c ELSE server.map[y]
    BY <1>2, <1>3, <1>5
  <2>3. Mapped' = {server'.map[y] : y \in Fds} \ {None}
    BY <2>2 DEF Mapped, Range
  <2>4. c # None
    BY ServerAssumption
  <2> QED BY <1>3, <1>5, <1>7, <2>2, <2>3, <2>4
<1> DEFINE r == [loop[Main] EXCEPT !.batch = @ \ {<<"accept">>}]
<1>9. Main \in Loops /\ loop[Main] \in Loop
  <2>1. Main \in Loops
    BY ServerAssumption DEF Loops, Main
  <2> QED BY <2>1 DEF IInv, TypeOK
<1>10. /\ r \in Loop /\ r.pc = "events" /\ r.batch \subseteq loop[Main].batch
       /\ r.toDo = loop[Main].toDo /\ r.functors = loop[Main].functors
       /\ r.held = loop[Main].held /\ r.closing = loop[Main].closing
       /\ r.wake = loop[Main].wake
  BY <1>2, <1>9 DEF Loop
<1>11. /\ loop' \in [Loops -> Loop] /\ loop'[Main] = r
       /\ \A u \in Loops : u # Main => loop'[u] = loop[u]
  <2>1. loop' = [loop EXCEPT ![Main] = r]
    BY <1>2
  <2> HIDE DEF r
  <2> QED BY <1>9, <1>10, <2>1, OneLoop DEF IInv
<1> HIDE DEF r
<1>12. \A u \in Loops :
         /\ loop'[u].pc = loop[u].pc /\ loop'[u].batch \subseteq loop[u].batch
         /\ loop'[u].toDo = loop[u].toDo /\ loop'[u].functors = loop[u].functors
         /\ loop'[u].held = loop[u].held /\ loop'[u].closing = loop[u].closing
         /\ loop'[u].wake = loop[u].wake
  BY <1>2, <1>10, <1>11
<1>13. \A u \in Loops : Waiting(u)' = Waiting(u)
  BY <1>12 DEF Waiting
<1>14. \A d \in Conns : Alive(d)' => Alive(d) \/ d = c
  <2> SUFFICES ASSUME NEW d \in Conns, d # c, Alive(d)'
               PROVE  Alive(d)
    OBVIOUS
  <2>1. CASE d \in Mapped'
    BY <1>8, <2>1 DEF Alive
  <2>2. CASE \E u \in Loops : \/ d \in Bound(loop'[u].toDo)
                              \/ d \in loop'[u].held
                              \/ d = loop'[u].closing
    BY <1>12, <2>2 DEF Alive
  <2> QED BY <2>1, <2>2 DEF Alive
<1>15. /\ fd' \in [Conns -> Fds \cup {None}]
       /\ \A d \in Conns : fd'[d] = IF d = c THEN x ELSE fd[d]
       /\ state' \in [Conns -> {"Invalid", "Connected", "Disconected"}]
       /\ \A d \in Conns : state'[d] = IF d = c THEN "Connected" ELSE state[d]
  BY <1>2, <1>3 DEF IInv, TypeOK
<1>16. /\ home' \in [Conns -> Loops] /\ \A d \in Conns : d # c => home'[d] = home[d]
       /\ next' \in 0 .. MaxThreads /\ PoolInv'
  <2>1. threads \in 0 .. MaxThreads /\ next \in 0 .. MaxThreads /\ MaxThreads \in Nat
    BY ServerAssumption DEF IInv, TypeOK
  <2>2. threads > 0 => next < threads
    BY DEF IInv, PoolInv
  <2> DEFINE h == IF threads = 0 THEN Main ELSE next + 1
  <2>3. h \in Loops /\ (threads = 0 => h = Main)
    BY <2>1, <2>2 DEF Loops, Main
  <2>4. home' = [home EXCEPT ![c] = h] /\ home \in [Conns -> Loops]
    BY <1>2 DEF IInv, TypeOK
  <2> HIDE DEF h
  <2>5. home' \in [Conns -> Loops] /\ home'[c] = h /\ \A d \in Conns : d # c => home'[d] = home[d]
    BY <2>3, <2>4
  <2>6. next' \in 0 .. MaxThreads /\ (threads > 0 => next' < threads)
    <3>1. \A k \in Nat, n \in Nat \ {0} : k % n \in 0 .. n - 1
      OBVIOUS
    <3>2. CASE threads = 0
      BY <1>2, <2>1, <3>2
    <3>3. CASE threads # 0
      <4>1. threads \in Nat \ {0} /\ next + 1 \in Nat
        BY <2>1, <3>3
      <4>2. (next + 1) % threads \in 0 .. threads - 1
        BY <3>1, <4>1
      <4> QED BY <1>2, <2>1, <3>3, <4>2
    <3> QED BY <3>2, <3>3
  <2>7. PoolInv'
    BY <1>2, <2>3, <2>5, <2>6 DEF IInv, PoolInv
  <2> QED BY <2>5, <2>6, <2>7
<1>17. /\ client' \in [Conns -> Client] /\ client'[c].at = "open"
       /\ \A d \in Conns : d # c => client'[d] = client[d]
  <2> DEFINE k == [client[c] EXCEPT !.at = "open"]
  <2>1. client \in [Conns -> Client]
    BY DEF IInv, TypeOK
  <2>2. k \in Client /\ k.at = "open"
    BY <2>1 DEF Client
  <2>3. client' = [client EXCEPT ![c] = k]
    BY <1>2
  <2> HIDE DEF k
  <2> QED BY <2>1, <2>2, <2>3
<1>18. TypeOK'
  BY <1>2, <1>8, <1>11, <1>15, <1>16, <1>17 DEF IInv, TypeOK
<1>19. AcceptInv'
  <2> SUFFICES ASSUME NEW d \in Conns
               PROVE  /\ Alive(d)' \/ d \in epoll' => state'[d] # "Invalid"
                      /\ state'[d] # "Invalid" => fd'[d] \in Fds /\ client'[d].at \in {"open", "closed"}
    BY DEF AcceptInv
  <2>1. CASE d = c
    BY <1>3, <1>15, <1>17, <2>1
  <2>2. CASE d # c
    BY <1>2, <1>14, <1>15, <1>17, <2>2 DEF IInv, AcceptInv
  <2> QED BY <2>1, <2>2
<1>20. PhaseInv'
  BY <1>12 DEF IInv, PhaseInv
<1>21. BatchInv'
  <2>1. ASSUME NEW u \in Loops, NEW d \in Conns, <<"read", d>> \in loop'[u].batch
        PROVE  home'[d] = u /\ d \in epoll'
    <3>1. home[d] = u /\ d \in epoll
      BY <1>12, <2>1 DEF IInv, BatchInv
    <3> QED BY <1>2, <1>4, <1>16, <3>1
  <2>2. ASSUME NEW u \in Loops, NEW d \in Conns, <<"timer", d>> \in loop'[u].batch
        PROVE  u = Main /\ AutoClose
    <3>1. <<"timer", d>> \in loop[u].batch
      BY <1>12, <2>2
    <3> QED BY <3>1 DEF IInv, BatchInv
  <2> QED BY <1>2, <2>1, <2>2 DEF IInv, BatchInv
<1>22. \A u \in Loops : \A f \in Waiting(u) :
         f[2] \in Conns /\ f[2] # c /\ Alive(f[2])
  BY <1>4, WaitingIsAlive
<1>23. FunctorInv'
  <2> SUFFICES ASSUME NEW u \in Loops, NEW f \in Waiting(u)
               PROVE  /\ f[1] = "close" => u = Main /\ state'[f[2]] = "Disconected"
                      /\ f[1] = "destroy" => u = home'[f[2]]
    BY <1>13 DEF FunctorInv
  <2> QED BY <1>15, <1>16, <1>22 DEF IInv, FunctorInv
<1>24. OwnedInv'
  BY <1>2, <1>8, <1>13 DEF IInv, OwnedInv
<1>25. MapIsExact'
  <2>1. ASSUME NEW y \in Fds, server'.map[y] # None
        PROVE  fd'[server'.map[y]] = y
    <3>1. CASE y = x
      BY <1>8, <1>15, <3>1
    <3>2. CASE y # x
      <4>1. PICK d \in Conns : server'.map[y] = d /\ server.map[y] = d /\ d # None
        BY <1>5, <1>8, <2>1, <3>2
      <4>2. d # c /\ fd[d] = y
        BY <1>4, <1>6, <4>1
      <4> QED BY <1>15, <4>1, <4>2
    <3> QED BY <3>1, <3>2
  <2>2. ASSUME NEW d \in Conns, state'[d] = "Connected"
        PROVE  server'.map[fd'[d]] = d
    <3>1. CASE d = c
      BY <1>3, <1>8, <1>15, <3>1
    <3>2. CASE d # c
      <4>1. server.map[fd[d]] = d /\ fd[d] \in Fds /\ d # None
        BY <1>15, <2>2, <3>2, ServerAssumption DEF IInv, MapIsExact, AcceptInv
      <4> QED BY <1>7, <1>8, <1>15, <3>2, <4>1
    <3> QED BY <3>1, <3>2
  <2>3. ASSUME NEW d \in Conns, NEW e \in Conns, d # e, Alive(d)', Alive(e)'
        PROVE  fd'[d] # fd'[e]
    <3>1. (Alive(d) \/ d = c) /\ (Alive(e) \/ e = c)
      BY <1>14, <2>3
    <3>2. CASE d # c /\ e # c
      BY <1>15, <2>3, <3>1, <3>2 DEF IInv, MapIsExact
    <3>3. CASE d = c \/ e = c
      BY <1>3, <1>15, <2>3, <3>1, <3>3
    <3> QED BY <3>2, <3>3
  <2> QED BY <2>1, <2>2, <2>3 DEF MapIsExact
<1>26. ASSUME Alone' PROVE OnceInv'
  <2>1. OnceInv
    BY <1>2, <1>26 DEF IInv, Alone
  <2>2. ASSUME NEW u \in Loops, NEW d \in Conns, loop'[u].closing = d
        PROVE  u = home'[d] /\ state'[d] = "Connected"
    <3>1. loop[u].closing = d
      BY <1>12, <2>2
    <3>2. d # c
      BY <1>4, <3>1 DEF Alive
    <3> QED BY <1>15, <1>16, <2>1, <3>1, <3>2 DEF OnceInv
  <2>3. ASSUME NEW f \in Waiting(Main)', f[1] = "close"
        PROVE  server'.map[fd'[f[2]]] = f[2]
    <3>1. f \in Waiting(Main)
      BY <1>9, <1>13, <2>3
    <3>2. f[2] \in Conns /\ f[2] # c /\ Alive(f[2]) /\ server.map[fd[f[2]]] = f[2]
      BY <1>9, <1>22, <2>1, <2>3, <3>1 DEF OnceInv
    <3>3. fd[f[2]] \in Fds /\ fd[f[2]] # x
      BY <1>3, <3>2 DEF IInv, AcceptInv
    <3> QED BY <1>8, <1>15, <3>2, <3>3
  <2> QED BY <1>2, <1>9, <1>12, <2>1, <2>2, <2>3 DEF OnceInv
<1> QED BY <1>16, <1>18, <1>19, <1>20, <1>21, <1>23, <1>24, <1>25, <1>26 DEF IInv

-----------------------------------------------------------------------------
(* The server                                                              *)

LEMMA ServerInit == Init => IInv
<1> SUFFICES ASSUME Init PROVE IInv
  OBVIOUS
<1> DEFINE r == [pc |-> "poll", batch |-> {}, toDo |-> <<>>, functors |-> <<>>,
                 held |-> {}, closing |-> None, wake |-> FALSE]
<1>1. /\ threads \in 0 .. MaxThreads /\ next = 0
      /\ server = [map |-> [f \in Fds |-> None], connecting |-> None]
      /\ state = [c \in Conns |-> "Invalid"] /\ home = [c \in Conns |-> Main]
      /\ fd = [c \in Conns |-> None] /\ epoll = {} /\ timers = {}
      /\ loop = [t \in Loops |-> r]
      /\ client = [c \in Conns |-> Away] /\ aborted = "no"
  BY DEF Init
<1>2. Main \in Loops /\ 0 \in 0 .. MaxThreads
  BY ServerAssumption DEF Loops, Main
<1>3. /\ r \in Loop /\ r.pc = "poll" /\ r.batch = {} /\ r.toDo = <<>> /\ r.functors = <<>>
      /\ r.held = {} /\ r.closing = None
  BY EmptyList DEF Loop
<1> HIDE DEF r
<1>4. \A t \in Loops : loop[t] = r /\ Waiting(t) = {}
  BY <1>1, <1>3, EmptyList DEF Waiting
<1>5. TypeOK
  <2>1. Away \in Client
    BY DEF Away, Client
  <2>2. client \in [Conns -> Client] /\ loop \in [Loops -> Loop]
    BY <1>1, <1>3, <2>1
  <2>3. server \in [map : [Fds -> Conns \cup {None}], connecting : Conns \cup {None}]
    BY <1>1
  <2> QED BY <1>1, <1>2, <2>2, <2>3 DEF TypeOK
<1>6. Mapped = {}
  BY <1>1 DEF Mapped, Range
<1>7. \A c \in Conns : ~Alive(c)
  BY <1>3, <1>4, <1>6, EmptyList, ServerAssumption DEF Alive
<1>8. PoolInv /\ AcceptInv /\ BatchInv /\ FunctorInv /\ OwnedInv /\ MapIsExact
  BY <1>1, <1>3, <1>4, <1>7 DEF PoolInv, AcceptInv, BatchInv, FunctorInv, OwnedInv, MapIsExact
<1>9. PhaseInv
  BY <1>3, <1>4, EmptyList DEF PhaseInv
<1>10. OnceInv
  BY <1>1, <1>2, <1>3, <1>4, EmptyList, ServerAssumption DEF OnceInv
<1> QED BY <1>5, <1>8, <1>9, <1>10 DEF IInv

LEMMA ServerNext == IInv /\ [Next]_vars => IInv'
<1> SUFFICES ASSUME IInv, [Next]_vars PROVE IInv'
  OBVIOUS
<1>1. Main \in Loops
  BY ServerAssumption DEF Loops, Main
<1>2. ASSUME NEW t \in Loops, LoopStep(t) PROVE IInv'
  <2>1. CASE Poll(t) \/ WakeUp(t)
    BY <2>1, PollKeeps, WakeUpKeeps
  <2>2. CASE TakeToDoList(t) \/ EndToDoList(t)
    BY <2>2, TakeKeeps, EndKeeps
  <2>3. CASE SetDisconected(t) \/ CloseFunctor(t) \/ DestroyFunctor(t)
    BY <2>3, SetDisconectedKeeps, CloseFunctorKeeps, DestroyKeeps
  <2>4. CASE \E c \in Conns : HandleMessage(t, c)
    BY <2>4, MessageKeeps
  <2> QED BY <1>2, <2>1, <2>2, <2>3, <2>4 DEF LoopStep
<1>3. CASE MainStep
  BY <1>1, <1>2, <1>3, AcceptEndKeeps, NewConnectionKeeps, IdleKeeps DEF MainStep
<1>4. CASE ClientStep
  BY <1>4, ClientKeeps
<1>5. CASE UNCHANGED vars
  <2>1. UNCHANGED <<threads, next, server, state, home, fd, epoll, timers, loop, client, aborted>>
    BY <1>5 DEF vars
  <2>2. Quiet /\ TypeOK' /\ PhaseInv' /\ BatchInv'
    BY <2>1 DEF Quiet, IInv, TypeOK, PhaseInv, BatchInv
  <2>3. Alone' => OnceInv'
    BY <2>1, <2>2, QuietClosesOnce DEF IInv, OnceInv
  <2> QED BY <2>2, <2>3, QuietKeeps DEF IInv
<1> QED BY <1>2, <1>3, <1>4, <1>5 DEF Next

\* The map is exact and no descriptor has two owners, no channel that epoll may
\* report is destroyed, no loop sleeps over a functor, and only the idle timer
\* beside a sub-reactor closes a connection twice: whatever the threads do.
THEOREM ServerIsSound == Spec => []ServerInv
<1>1. IInv => ServerInv
  <2> SUFFICES ASSUME IInv PROVE ServerInv
    OBVIOUS
  <2>1. ChannelsAreOwned
    BY RegisteredIsAlive DEF ChannelsAreOwned, IInv, BatchInv
  <2>2. SleepMeansNoWork
    BY DEF SleepMeansNoWork, IInv, PhaseInv
  <2>3. CloseIsOnce
    <3>1. threads \in Nat /\ AutoClose \in BOOLEAN
      BY ServerAssumption DEF IInv, TypeOK
    <3> QED BY <3>1 DEF CloseIsOnce, IInv, Alone, OnceInv
  <2> QED BY <2>1, <2>2, <2>3 DEF IInv, ServerInv
<1> QED BY <1>1, ServerInit, ServerNext, PTL DEF Spec
=============================================================================
