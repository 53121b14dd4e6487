------------------------- MODULE LoadBalancerProofs ------------------------
(***************************************************************************)
(* Sessions, descriptors and turns of the balancer, for every number of    *)
(* clients, of backends and of descriptors.                                *)
(***************************************************************************)
EXTENDS LoadBalancer, SequenceTheorems, FiniteSetTheorems, TLAPS

\* What becomes of a client.
Status == {"away", "waiting", "accepted", "refused", "aborted", "closed"}

\* The clients of a queue are waiting, and each is in it once.
WaitsIn(status, queue) ==
  /\ \A i \in 1 .. Len(queue) : status[queue[i]] = "waiting"
  /\ \A i, j \in 1 .. Len(queue) : queue[i] = queue[j] => i = j

QueueInv == WaitsIn(client, backlog)

\* A client that was never accepted has no session, and an open session has
\* the client's descriptor.
SessionInv ==
  \A c \in Clients :
    /\ client[c] \in {"away", "waiting", "refused", "aborted"} => session[c].life = "none"
    /\ IsOpenSession(c) => session[c].fd \in Fds

\* The clients that backend b was chosen for.
Taken(b) == {c \in Clients : session[c].life # "none" /\ session[c].backend = b}

\* All backends have had q turns, those before next_backend_ one more.
Round(q) ==
  \A b \in 0 .. NumBackends - 1 : Cardinality(Taken(b)) = IF b < next THEN q + 1 ELSE q

TurnsInv == \E q \in Nat : Round(q)

\* The inductive invariant.
Inv ==
  /\ TypeOK /\ QueueInv /\ SessionInv
  /\ MapIsExact /\ DescriptorsAreOwned
  /\ TurnsInv

-----------------------------------------------------------------------------
(* Numbers and queues                                                      *)

\* A set of numbers has a least one.
LEMMA LeastNumber ==
  ASSUME NEW S \in SUBSET Nat, S # {}
  PROVE  \E n \in S : \A m \in S : n <= m
<1> DEFINE R == OpToRel(<, Nat)
<1>1. IsWellFoundedOn(R, Nat)
  BY NatLessThanWellFounded
<1> HIDE DEF R
<1>2. PICK n \in S : \A m \in S : ~ (<<m, n>> \in R)
  BY <1>1, WFMin
<1>3. ASSUME NEW m \in S PROVE n <= m
  <2>1. ~ (<<m, n>> \in R)
    BY <1>2
  <2>2. ~ (m < n)
    BY <2>1 DEF R, OpToRel
  <2> QED BY <2>2
<1> QED BY <1>3

\* The kernel finds the lowest free descriptor, if there is one.
LEMMA LowestIsFree ==
  ASSUME NEW fds \in SUBSET Fds, fds # {}
  PROVE  Lowest(fds) \in fds
<1>1. fds \in SUBSET Nat
  BY BalancerAssumption DEF Fds
<1>2. \E fd \in fds : \A other \in fds : fd <= other
  BY <1>1, LeastNumber
<1> QED BY <1>2 DEF Lowest

\* -1 is no descriptor.
LEMMA NoFdIsNone == NoFd \notin Fds
  BY BalancerAssumption DEF NoFd, Fds

\* The backends' indices go round.
LEMMA NextBackendTurns ==
  ASSUME next \in 0 .. NumBackends - 1
  PROVE  NextBackend = IF next + 1 = NumBackends THEN 0 ELSE next + 1
<1> DEFINE n == NumBackends
<1>1. n \in Nat \ {0} /\ next \in Nat /\ next < n
  BY BalancerAssumption
<1>2. ASSUME NEW m \in Nat \ {0}, NEW k \in 0 .. m
      PROVE  k % m = IF k = m THEN 0 ELSE k
  OBVIOUS
<1>3. n \in Nat \ {0} /\ next + 1 \in 0 .. n
  BY <1>1
<1>4. (next + 1) % n = IF next + 1 = n THEN 0 ELSE next + 1
  BY <1>2, <1>3
<1> QED BY <1>4 DEF NextBackend

\* The first client of a queue, and the queue behind it.
LEMMA PopQueue ==
  ASSUME NEW status \in [Clients -> Status], NEW queue \in Seq(Clients),
         WaitsIn(status, queue), queue # <<>>
  PROVE  /\ Head(queue) \in Clients /\ status[Head(queue)] = "waiting"
         /\ Tail(queue) \in Seq(Clients) /\ Tail(queue) # queue
         /\ \A v \in Status : WaitsIn([status EXCEPT ![Head(queue)] = v], Tail(queue))
<1>1. /\ Len(queue) \in Nat \ {0} /\ Head(queue) = queue[1]
      /\ Head(queue) \in Clients /\ Tail(queue) \in Seq(Clients)
      /\ Len(Tail(queue)) = Len(queue) - 1
      /\ \A i \in 1 .. Len(Tail(queue)) : Tail(queue)[i] = queue[i + 1]
  BY EmptySeq, HeadTailProperties
<1>2. status[Head(queue)] = "waiting"
  BY <1>1 DEF WaitsIn
<1>3. Tail(queue) # queue
  <2> DEFINE t == Tail(queue)
  <2>1. Len(t) = Len(queue) - 1 /\ Len(queue) \in Nat
    BY <1>1
  <2> HIDE DEF t
  <2>2. t # queue
    BY <2>1
  <2> QED BY <2>2 DEF t
<1>4. ASSUME NEW v \in Status
      PROVE  WaitsIn([status EXCEPT ![Head(queue)] = v], Tail(queue))
  <2> DEFINE t == Tail(queue)
             s == [status EXCEPT ![Head(queue)] = v]
  <2>1. ASSUME NEW i \in 1 .. Len(t)
        PROVE  t[i] \in Clients /\ t[i] # Head(queue) /\ s[t[i]] = "waiting"
    <3>1. t[i] = queue[i + 1] /\ i + 1 \in 1 .. Len(queue) /\ i + 1 # 1
      BY <1>1
    <3>2. t[i] \in Clients
      BY <3>1, ElementOfSeq
    <3>3. t[i] # Head(queue) /\ status[t[i]] = "waiting"
      BY <1>1, <3>1 DEF WaitsIn
    <3> QED BY <3>2, <3>3
  <2>2. ASSUME NEW i \in 1 .. Len(t), NEW j \in 1 .. Len(t), t[i] = t[j]
        PROVE  i = j
    <3>1. /\ t[i] = queue[i + 1] /\ i + 1 \in 1 .. Len(queue)
          /\ t[j] = queue[j + 1] /\ j + 1 \in 1 .. Len(queue)
      BY <1>1
    <3>2. i + 1 = j + 1
      BY <2>2, <3>1 DEF WaitsIn
    <3> QED BY <3>2
  <2> QED BY <2>1, <2>2 DEF WaitsIn
<1> QED BY <1>1, <1>2, <1>3, <1>4

-----------------------------------------------------------------------------
(* Descriptors                                                             *)

\* The reserve is open, nobody else's, and every session's are its own.
LEMMA Ownership ==
  ASSUME Inv
  PROVE  /\ idle \in Fds /\ idle \in open /\ open \in SUBSET Fds
         /\ \A x : x \in open <=> x = idle \/ \E c \in Clients : x \in Owned(c)
         /\ \A c \in Clients : Owned(c) \subseteq open \ {idle}
         /\ \A c \in Clients : \A d \in Clients \ {c} : Owned(c) \cap Owned(d) = {}
         /\ \A c \in Clients : IsOpenSession(c) => session[c].fd \in Owned(c)
<1>1. open \in SUBSET Fds
  BY DEF Inv, TypeOK
<1>2. open = (UNION {Owned(c) : c \in Clients}) \cup {idle}
  BY DEF Inv, DescriptorsAreOwned
<1>3. \A c \in Clients :
        idle \notin Owned(c) /\ \A d \in Clients \ {c} : Owned(c) \cap Owned(d) = {}
  BY DEF Inv, DescriptorsAreOwned
<1>4. \A c \in Clients : IsOpenSession(c) => session[c].fd \in Owned(c)
  BY NoFdIsNone DEF Inv, SessionInv, Owned
<1> QED BY <1>1, <1>2, <1>3, <1>4

\* One session's descriptors, and the reserve, are replaced by fresh ones.
LEMMA OwnershipMoves ==
  ASSUME Inv, NEW c, NEW old, NEW new, NEW rest,
         IF c \in Clients THEN Owned(c) = old /\ Owned(c)' = new ELSE old = {} /\ new = {},
         \A d \in Clients \ {c} : Owned(d)' = Owned(d),
         rest = open \ (old \cup {idle}),
         open' = rest \cup new \cup {idle'},
         rest \cap new = {}, idle' \notin rest \cup new
  PROVE  DescriptorsAreOwned'
<1>1. \A d \in Clients \ {c} : Owned(d) \subseteq rest
  BY Ownership
<1>2. \A x \in rest : \E d \in Clients \ {c} : x \in Owned(d)
  BY Ownership
<1>3. \A x : x \in open' <=> x = idle' \/ \E d \in Clients : x \in Owned(d)'
  BY <1>1, <1>2
<1>4. open' = (UNION {Owned(d)' : d \in Clients}) \cup {idle'}
  BY <1>3
<1>5. ASSUME NEW d \in Clients PROVE idle' \notin Owned(d)'
  BY <1>1
<1>6. ASSUME NEW d \in Clients, NEW f \in Clients \ {d}
      PROVE  Owned(d)' \cap Owned(f)' = {}
  <2>1. CASE d # c /\ f # c
    BY <2>1, Ownership
  <2>2. CASE d = c
    BY <1>1, <2>2
  <2>3. CASE f = c
    BY <1>1, <2>3
  <2> QED BY <2>1, <2>2, <2>3
<1> QED BY <1>4, <1>5, <1>6 DEF DescriptorsAreOwned

\* After an exhaustion a free descriptor is the reserve again, one client less waits.
LEMMA ReserveReturns ==
  ASSUME NEW opened \in SUBSET Fds, idle \in opened, NEW queue,
         HandleDescriptorExhaustion(opened, queue)
  PROVE  /\ idle' \in Fds /\ idle' \notin opened \ {idle}
         /\ open' = (opened \ {idle}) \cup {idle'}
         /\ backlog' = IF queue = <<>> THEN queue ELSE Tail(queue)
<1> DEFINE rest == opened \ {idle}
<1>1. Free(rest) # {} /\ Free(rest) \in SUBSET Fds
  BY DEF Free
<1>2. Lowest(Free(rest)) \in Free(rest)
  BY <1>1, LowestIsFree
<1> QED BY <1>1, <1>2 DEF HandleDescriptorExhaustion, Free

\* Room for a session means two free descriptors, and accept() and socket()
\* get different ones.
LEMMA RoomIsTwo ==
  ASSUME Inv, RoomForSession
  PROVE  /\ Free(open) # {}
         /\ ClientFd \in Fds \ open /\ BackendFd \in Fds \ open
<1>1. Free(open) \in SUBSET Fds
  BY DEF Free
<1>2. Free(open) # {}
  BY FS_EmptySet DEF RoomForSession
<1>3. ClientFd \in Free(open)
  BY <1>1, <1>2, LowestIsFree DEF ClientFd
<1>4. Free(open) \ {ClientFd} # {}
  <2>1. SUFFICES ASSUME Free(open) = {ClientFd} PROVE FALSE
    BY <1>3
  <2>2. Cardinality({ClientFd}) = 1
    BY FS_Singleton
  <2> QED BY <2>1, <2>2 DEF RoomForSession
<1>5. BackendFd \in Free(open) \ {ClientFd}
  BY <1>1, <1>4, LowestIsFree DEF BackendFd
<1> QED BY <1>2, <1>3, <1>5 DEF Free

-----------------------------------------------------------------------------
(* Steps that are alike                                                    *)

\* A step that neither opens, connects nor closes a session.
LEMMA SessionsKept ==
  ASSUME Inv, UNCHANGED <<session, sessions, next>>
  PROVE  MapIsExact' /\ TurnsInv' /\ (UNCHANGED <<open, idle>> => DescriptorsAreOwned')
<1>1. \A c \in Clients : (IsOpenSession(c))' = IsOpenSession(c) /\ Owned(c)' = Owned(c)
  BY DEF IsOpenSession, Owned
<1>2. MapIsExact'
  BY <1>1 DEF Inv, MapIsExact
<1>3. TurnsInv'
  BY DEF Inv, TurnsInv, Round, Taken
<1>4. UNCHANGED <<open, idle>> => DescriptorsAreOwned'
  BY DEF Inv, DescriptorsAreOwned, Owned, IsOpenSession
<1> QED BY <1>2, <1>3, <1>4

\* A client leaves the queue without a session.
LEMMA DropPreserves ==
  ASSUME Inv, backlog # <<>>, NEW v \in {"aborted", "refused"},
         client' = [client EXCEPT ![Head(backlog)] = v], backlog' = Tail(backlog),
         UNCHANGED session
  PROVE  /\ client' \in [Clients -> Status] /\ backlog' \in Seq(Clients)
         /\ QueueInv' /\ SessionInv'
<1>1. client \in [Clients -> Status] /\ backlog \in Seq(Clients) /\ v \in Status
  BY DEF Inv, TypeOK, Status
<1>2. /\ Head(backlog) \in Clients /\ client[Head(backlog)] = "waiting"
      /\ backlog' \in Seq(Clients) /\ QueueInv'
  BY <1>1, PopQueue DEF Inv, QueueInv
<1>3. SessionInv'
  BY <1>1, <1>2 DEF Inv, SessionInv, IsOpenSession, Status
<1> QED BY <1>1, <1>2, <1>3

-----------------------------------------------------------------------------
(* Sessions                                                                *)

\* connect() has succeeded: the session relays.
LEMMA ConnectedPreserves ==
  ASSUME Inv, NEW c \in Clients, Connected(c)
  PROVE  Inv'
<1>1. /\ session[c].life = "connecting"
      /\ session' = [session EXCEPT ![c].life = "relaying"]
      /\ UNCHANGED <<client, backlog, edge, listening, phase, sessions, next, open, idle>>
  BY DEF Connected, InLoop
<1>2. session \in [Clients -> Session] /\ session' \in [Clients -> Session]
  <2>1. session \in [Clients -> Session]
    BY DEF Inv, TypeOK
  <2>2. [session[c] EXCEPT !.life = "relaying"] \in Session
    BY <2>1 DEF Session, Life
  <2> QED BY <1>1, <2>1, <2>2
<1>3. /\ \A d \in Clients : /\ session'[d].fd = session[d].fd /\ session'[d].out = session[d].out
                            /\ session'[d].backend = session[d].backend
                            /\ session'[d].life = "none" <=> session[d].life = "none"
      /\ \A d \in Clients : (IsOpenSession(d))' = IsOpenSession(d)
  BY <1>1, <1>2 DEF Session, IsOpenSession
<1>4. TypeOK'
  BY <1>1, <1>2 DEF Inv, TypeOK
<1>5. QueueInv' /\ SessionInv' /\ MapIsExact'
  BY <1>1, <1>3 DEF Inv, QueueInv, SessionInv, MapIsExact
<1>6. DescriptorsAreOwned'
  <2>1. \A d \in Clients : Owned(d)' = Owned(d)
    BY <1>3 DEF Owned
  <2> QED BY <1>1, <2>1 DEF Inv, DescriptorsAreOwned
<1>7. TurnsInv'
  <2>1. \A b \in 0 .. NumBackends - 1 : Taken(b)' = Taken(b)
    BY <1>3 DEF Taken
  <2> QED BY <1>1, <2>1 DEF Inv, TurnsInv, Round
<1> QED BY <1>4, <1>5, <1>6, <1>7 DEF Inv

\* Close(): both descriptors are given back, and sessions_ loses this session.
LEMMA ClosePreserves ==
  ASSUME Inv, NEW c \in Clients, IsOpenSession(c), Close(c),
         UNCHANGED <<backlog, edge, listening, phase, next, idle>>
  PROVE  Inv'
<1>1. /\ session' = [session EXCEPT ![c].life = "closed"]
      /\ client' = [client EXCEPT ![c] = "closed"]
      /\ open' = open \ {session[c].fd, session[c].out}
      /\ sessions' = [sessions EXCEPT ![session[c].fd] = NoClient]
  BY DEF Close, Erase
<1>2. /\ session \in [Clients -> Session] /\ session' \in [Clients -> Session]
      /\ client \in [Clients -> Status] /\ client' \in [Clients -> Status]
      /\ sessions \in [Fds -> Clients \cup {NoClient}]
      /\ sessions' \in [Fds -> Clients \cup {NoClient}]
      /\ open \in SUBSET Fds
  <2>1. /\ session \in [Clients -> Session] /\ client \in [Clients -> Status]
        /\ sessions \in [Fds -> Clients \cup {NoClient}] /\ open \in SUBSET Fds
    BY DEF Inv, TypeOK, Status
  <2>2. [session[c] EXCEPT !.life = "closed"] \in Session
    BY <2>1 DEF Session, Life
  <2>3. session' \in [Clients -> Session]
    BY <1>1, <2>1, <2>2
  <2>4. /\ client' \in [Clients -> Status]
        /\ sessions' \in [Fds -> Clients \cup {NoClient}]
    BY <1>1, <2>1 DEF Status
  <2> QED BY <2>1, <2>3, <2>4
<1>3. /\ session'[c].life = "closed" /\ \A d \in Clients \ {c} : session'[d] = session[d]
      /\ \A d \in Clients : /\ session'[d].fd = session[d].fd
                            /\ session'[d].backend = session[d].backend
                            /\ session'[d].life = "none" <=> session[d].life = "none"
      /\ \A d \in Clients \ {c} : (IsOpenSession(d))' = IsOpenSession(d)
      /\ ~(IsOpenSession(c))'
  BY <1>1, <1>2 DEF Session, IsOpenSession
<1>4. TypeOK'
  BY <1>1, <1>2 DEF Inv, TypeOK, Status
<1>5. QueueInv'
  <2>1. client[c] # "waiting"
    BY DEF Inv, SessionInv, IsOpenSession
  <2>2. backlog \in Seq(Clients) /\ \A i \in 1 .. Len(backlog) : client[backlog[i]] = "waiting"
    BY DEF Inv, TypeOK, QueueInv, WaitsIn
  <2>3. \A i \in 1 .. Len(backlog) : client'[backlog[i]] = "waiting"
    BY <1>1, <1>2, <2>1, <2>2, ElementOfSeq
  <2> QED BY <2>3 DEF Inv, QueueInv, WaitsIn
<1>6. SessionInv'
  BY <1>1, <1>2, <1>3 DEF Inv, SessionInv
<1>7. session[c].fd \in Fds
  BY DEF Inv, SessionInv
<1>8. MapIsExact'
  <2>1. SUFFICES ASSUME NEW fd \in Fds, NEW d \in Clients
                 PROVE  sessions'[fd] = d <=> (IsOpenSession(d))' /\ session'[d].fd = fd
    BY DEF MapIsExact
  <2>2. /\ sessions[fd] = d <=> IsOpenSession(d) /\ session[d].fd = fd
        /\ sessions[session[c].fd] = c
    BY <1>7 DEF Inv, MapIsExact
  <2>3. d # NoClient
    BY BalancerAssumption
  <2>4. CASE fd = session[c].fd
    <3>1. sessions'[fd] = NoClient
      BY <1>1, <1>2, <1>7, <2>4
    <3>2. d # c => ~(IsOpenSession(d) /\ session[d].fd = fd)
      BY <2>2, <2>4
    <3> QED BY <1>3, <2>3, <3>1, <3>2
  <2>5. CASE fd # session[c].fd
    <3>1. sessions'[fd] = sessions[fd]
      BY <1>1, <1>2, <1>7, <2>5
    <3> QED BY <1>3, <2>2, <2>5, <3>1
  <2> QED BY <2>4, <2>5
<1>9. DescriptorsAreOwned'
  <2>1. Owned(c) = {session[c].fd, session[c].out} \ {NoFd}
    BY DEF Owned
  <2>2. Owned(c)' = {} /\ \A d \in Clients \ {c} : Owned(d)' = Owned(d)
    BY <1>3 DEF Owned
  <2>3. open' = open \ Owned(c)
    BY <1>1, <1>2, <2>1, NoFdIsNone
  <2>4. idle \in open /\ idle \notin Owned(c)
    BY Ownership
  <2> DEFINE rest == open \ (Owned(c) \cup {idle})
  <2>5. open' = rest \cup {} \cup {idle'} /\ rest \cap {} = {} /\ idle' \notin rest \cup {}
    BY <2>3, <2>4
  <2> QED BY <2>2, <2>5, OwnershipMoves
<1>10. TurnsInv'
  <2>1. \A b \in 0 .. NumBackends - 1 : Taken(b)' = Taken(b)
    BY <1>3 DEF Taken
  <2> QED BY <2>1 DEF Inv, TurnsInv, Round
<1> QED BY <1>4, <1>5, <1>6, <1>8, <1>9, <1>10 DEF Inv

-----------------------------------------------------------------------------
(* Acceptor::HandleRead                                                    *)

\* The turn passes on: the chosen backend has had one turn more.
LEMMA TurnPasses ==
  ASSUME Inv, NEW c \in Clients, session[c].life = "none",
         next' = NextBackend, session'[c].life # "none", session'[c].backend = next,
         \A d \in Clients \ {c} : session'[d] = session[d]
  PROVE  TurnsInv'
<1>1. PICK q \in Nat : Round(q)
  BY DEF Inv, TurnsInv
<1>2. /\ next \in 0 .. NumBackends - 1 /\ NumBackends \in Nat \ {0}
      /\ next' = IF next + 1 = NumBackends THEN 0 ELSE next + 1
  BY NextBackendTurns, BalancerAssumption DEF Inv, TypeOK
<1>3. ASSUME NEW b \in 0 .. NumBackends - 1
      PROVE  Cardinality(Taken(b)') = Cardinality(Taken(b)) + (IF b = next THEN 1 ELSE 0)
  <2>1. CASE b = next
    <3>1. Taken(b)' = Taken(b) \cup {c} /\ c \notin Taken(b)
      BY <2>1 DEF Taken
    <3>2. IsFiniteSet(Taken(b))
      <4>1. Taken(b) \subseteq Clients
        BY DEF Taken
      <4> QED BY <4>1, FS_Subset, BalancerAssumption
    <3>3. Cardinality(Taken(b) \cup {c}) = Cardinality(Taken(b)) + 1
      BY <3>1, <3>2, FS_AddElement
    <3> QED BY <2>1, <3>1, <3>3
  <2>2. CASE b # next
    <3>1. Taken(b)' = Taken(b)
      BY <2>2 DEF Taken
    <3>2. Cardinality(Taken(b)) \in Nat
      BY <1>1, <1>2 DEF Round
    <3> QED BY <2>2, <3>1, <3>2
  <2> QED BY <2>1, <2>2
<1>4. \A b \in 0 .. NumBackends - 1 : Cardinality(Taken(b)) = IF b < next THEN q + 1 ELSE q
  BY <1>1 DEF Round
<1>5. CASE next + 1 = NumBackends
  <2>1. \A b \in 0 .. NumBackends - 1 : Cardinality(Taken(b)') = q + 1 /\ ~(b < next')
    BY <1>2, <1>3, <1>4, <1>5
  <2>2. Round(q + 1)'
    BY <2>1 DEF Round
  <2> QED BY <2>2 DEF TurnsInv
<1>6. CASE next + 1 # NumBackends
  <2>1. \A b \in 0 .. NumBackends - 1 : Cardinality(Taken(b)') = IF b < next' THEN q + 1 ELSE q
    BY <1>2, <1>3, <1>4, <1>6
  <2>2. Round(q)'
    BY <2>1 DEF Round
  <2> QED BY <2>2 DEF TurnsInv
<1> QED BY <1>5, <1>6

\* A free number is no session's key.
LEMMA FreeIsNoKey ==
  ASSUME Inv, NEW fd \in Fds \ open
  PROVE  sessions[fd] = NoClient
<1>1. sessions[fd] \in Clients \cup {NoClient}
  BY DEF Inv, TypeOK
<1>2. SUFFICES ASSUME sessions[fd] \in Clients PROVE FALSE
  BY <1>1
<1>3. IsOpenSession(sessions[fd]) /\ session[sessions[fd]].fd = fd
  BY <1>2 DEF Inv, MapIsExact
<1> QED BY <1>2, <1>3, Ownership

\* OnNewConnection for the first client of the queue, however its session begins.
LEMMA NewSession ==
  ASSUME Inv, backlog # <<>>, ClientFd \in Fds \ open,
         NEW life \in Life \ {"none"}, NEW out \in Fds \cup {NoFd}, OnNewConnection(life, out)
  PROVE  /\ Head(backlog) \in Clients /\ client[Head(backlog)] = "waiting"
         /\ ~IsOpenSession(Head(backlog))
         /\ session'[Head(backlog)] = [life |-> life, fd |-> ClientFd, out |-> out, backend |-> next]
         /\ \A d \in Clients \ {Head(backlog)} : session'[d] = session[d]
         /\ session' \in [Clients -> Session] /\ next' \in 0 .. NumBackends - 1
         /\ listening' \in BOOLEAN /\ edge' \in BOOLEAN
         /\ TurnsInv'
<1> DEFINE h == Head(backlog)
           new == [life |-> life, fd |-> ClientFd, out |-> out, backend |-> next]
<1>1. h \in Clients /\ client[h] = "waiting"
  BY PopQueue DEF Inv, TypeOK, QueueInv, Status
<1>2. session[h].life = "none"
  BY <1>1 DEF Inv, SessionInv
<1>3. session' = [session EXCEPT ![h] = new] /\ next' = NextBackend
      /\ UNCHANGED <<edge, listening>>
  BY DEF OnNewConnection
<1>4. session \in [Clients -> Session] /\ new \in Session
  BY DEF Inv, TypeOK, Session
<1>5. /\ session'[h] = new /\ \A d \in Clients \ {h} : session'[d] = session[d]
      /\ session' \in [Clients -> Session]
  BY <1>1, <1>3, <1>4
<1>6. TurnsInv'
  BY <1>1, <1>2, <1>3, <1>5, TurnPasses
<1>7. next' \in 0 .. NumBackends - 1
  BY <1>3, NextBackendTurns, BalancerAssumption DEF Inv, TypeOK
<1> QED BY <1>1, <1>2, <1>3, <1>5, <1>6, <1>7 DEF IsOpenSession, Inv, TypeOK

\* The new session is entered under its descriptor, where nothing is.
LEMMA EnterKeepsMap ==
  ASSUME Inv, NEW c \in Clients, NEW fd \in Fds \ open, ~IsOpenSession(c),
         sessions' = Emplace(c, fd),
         (IsOpenSession(c))', session'[c].fd = fd,
         \A d \in Clients \ {c} : session'[d] = session[d]
  PROVE  sessions' \in [Fds -> Clients \cup {NoClient}] /\ MapIsExact'
<1>1. sessions[fd] = NoClient /\ sessions \in [Fds -> Clients \cup {NoClient}]
  BY FreeIsNoKey DEF Inv, TypeOK
<1>2. /\ sessions'[fd] = c /\ \A g \in Fds \ {fd} : sessions'[g] = sessions[g]
      /\ sessions' \in [Fds -> Clients \cup {NoClient}]
  BY <1>1 DEF Emplace
<1>3. ASSUME NEW g \in Fds, NEW d \in Clients
      PROVE  sessions'[g] = d <=> (IsOpenSession(d))' /\ session'[d].fd = g
  <2>1. /\ sessions[g] = d <=> IsOpenSession(d) /\ session[d].fd = g
        /\ sessions[fd] = d <=> IsOpenSession(d) /\ session[d].fd = fd
    BY DEF Inv, MapIsExact
  <2>2. d # c => (IsOpenSession(d))' = IsOpenSession(d) /\ session'[d].fd = session[d].fd
    BY DEF IsOpenSession
  <2>3. d # NoClient
    BY BalancerAssumption
  <2> QED BY <1>1, <1>2, <2>1, <2>2, <2>3
<1> QED BY <1>2, <1>3 DEF MapIsExact

\* A client is accepted or closed at once: it leaves the queue with a session.
LEMMA ServedPreserves ==
  ASSUME Inv, backlog # <<>>, NEW h \in Clients, h = Head(backlog),
         NEW status, NEW v \in {"accepted", "closed"},
         status = [client EXCEPT ![h] = v],
         (IsOpenSession(h))' => session'[h].fd \in Fds,
         \A d \in Clients \ {h} : session'[d] = session[d]
  PROVE  /\ status \in [Clients -> Status] /\ Tail(backlog) \in Seq(Clients)
         /\ WaitsIn(status, Tail(backlog))
         /\ client' = status => SessionInv'
<1>1. client \in [Clients -> Status] /\ backlog \in Seq(Clients) /\ v \in Status
  BY DEF Inv, TypeOK, Status
<1>2. /\ Tail(backlog) \in Seq(Clients)
      /\ WaitsIn(status, Tail(backlog))
  BY <1>1, PopQueue DEF Inv, QueueInv
<1>3. ASSUME client' = status PROVE SessionInv'
  <2>1. SUFFICES ASSUME NEW d \in Clients
                 PROVE  /\ client'[d] \in {"away", "waiting", "refused", "aborted"}
                             => session'[d].life = "none"
                        /\ (IsOpenSession(d))' => session'[d].fd \in Fds
    BY DEF SessionInv
  <2>2. CASE d = h
    BY <1>1, <1>3, <2>2
  <2>3. CASE d # h
    BY <1>1, <1>3, <2>3 DEF Inv, SessionInv, IsOpenSession
  <2> QED BY <2>2, <2>3
<1> QED BY <1>1, <1>2, <1>3

\* A session begins, connecting or already connected.
LEMMA AcceptSessionPreserves ==
  ASSUME Inv, AcceptSession
  PROVE  Inv'
<1>0. PICK h \in Clients : h = Head(backlog)
  BY PopQueue DEF AcceptSession, Inv, TypeOK, QueueInv, Status
<1>1. PICK life \in {"connecting", "relaying"} : OnNewConnection(life, BackendFd)
  BY <1>0 DEF AcceptSession
<1>2. /\ phase = "accept" /\ backlog # <<>> /\ RoomForSession
      /\ sessions' = Emplace(h, ClientFd)
      /\ client' = [client EXCEPT ![h] = "accepted"]
      /\ backlog' = Tail(backlog)
      /\ open' = open \cup {ClientFd, BackendFd}
      /\ UNCHANGED <<phase, idle>>
  BY <1>0 DEF AcceptSession
<1>3. ClientFd \in Fds \ open /\ BackendFd \in Fds \ open
  BY <1>2, RoomIsTwo
<1>4. /\ ~IsOpenSession(h)
      /\ session'[h] = [life |-> life, fd |-> ClientFd, out |-> BackendFd, backend |-> next]
      /\ \A d \in Clients \ {h} : session'[d] = session[d]
      /\ session' \in [Clients -> Session] /\ next' \in 0 .. NumBackends - 1
      /\ listening' \in BOOLEAN /\ edge' \in BOOLEAN
      /\ TurnsInv'
  BY <1>1, <1>2, <1>3, <1>0, NewSession DEF Life
<1>5. (IsOpenSession(h))' /\ session'[h].fd = ClientFd
  BY <1>4 DEF IsOpenSession
<1>6. sessions' \in [Fds -> Clients \cup {NoClient}] /\ MapIsExact'
  BY <1>2, <1>3, <1>4, <1>5, EnterKeepsMap
<1>7. /\ client' \in [Clients -> Status] /\ backlog' \in Seq(Clients)
      /\ QueueInv' /\ SessionInv'
  BY <1>2, <1>3, <1>4, <1>5, <1>0, ServedPreserves DEF QueueInv
<1>8. DescriptorsAreOwned'
  <2> DEFINE new == {ClientFd, BackendFd}
             rest == open \ {idle}
  <2>1. Owned(h) = {} /\ \A d \in Clients \ {h} : Owned(d)' = Owned(d)
    BY <1>4 DEF Owned, IsOpenSession
  <2>2. Owned(h)' = new
    BY <1>3, <1>4, <1>5, NoFdIsNone DEF Owned
  <2>3. idle \in open
    BY Ownership
  <2>4. /\ rest = open \ ({} \cup {idle}) /\ open' = rest \cup new \cup {idle'}
        /\ rest \cap new = {} /\ idle' \notin rest \cup new
    BY <1>2, <1>3, <2>3
  <2> HIDE DEF new, rest
  <2> QED BY <1>4, <2>1, <2>2, <2>4, OwnershipMoves
<1>9. TypeOK'
  BY <1>2, <1>3, <1>4, <1>6, <1>7 DEF Inv, TypeOK, Status
<1> QED BY <1>4, <1>6, <1>7, <1>8, <1>9 DEF Inv

\* connect() fails at once: nothing is left of the session but its turn.
LEMMA AcceptRefusedPreserves ==
  ASSUME Inv, AcceptRefused
  PROVE  Inv'
<1>0. PICK h \in Clients : h = Head(backlog)
  BY PopQueue DEF AcceptRefused, Inv, TypeOK, QueueInv, Status
<1>1. /\ phase = "accept" /\ backlog # <<>> /\ RoomForSession
      /\ OnNewConnection("closed", BackendFd)
      /\ sessions' = [Emplace(h, ClientFd) EXCEPT ![ClientFd] = NoClient]
      /\ client' = [client EXCEPT ![h] = "closed"]
      /\ backlog' = Tail(backlog)
      /\ UNCHANGED <<phase, open, idle>>
  BY <1>0 DEF AcceptRefused
<1>2. ClientFd \in Fds \ open /\ BackendFd \in Fds \ open
  BY <1>1, RoomIsTwo
<1>3. /\ ~IsOpenSession(h)
      /\ session'[h] = [life |-> "closed", fd |-> ClientFd, out |-> BackendFd, backend |-> next]
      /\ \A d \in Clients \ {h} : session'[d] = session[d]
      /\ session' \in [Clients -> Session] /\ next' \in 0 .. NumBackends - 1
      /\ listening' \in BOOLEAN /\ edge' \in BOOLEAN
      /\ TurnsInv'
  BY <1>1, <1>2, <1>0, NewSession DEF Life
<1>4. /\ ~(IsOpenSession(h))'
      /\ \A d \in Clients \ {h} : (IsOpenSession(d))' = IsOpenSession(d) /\ Owned(d)' = Owned(d)
  <2>1. ~(IsOpenSession(h))'
    BY <1>3 DEF IsOpenSession
  <2>2. \A d \in Clients \ {h} : (IsOpenSession(d))' = IsOpenSession(d)
    BY <1>3 DEF IsOpenSession
  <2>3. \A d \in Clients \ {h} : Owned(d)' = Owned(d)
    BY <1>3, <2>2 DEF Owned
  <2> QED BY <2>1, <2>2, <2>3
<1>5. sessions' = sessions
  <2>1. sessions[ClientFd] = NoClient /\ sessions \in [Fds -> Clients \cup {NoClient}]
    BY <1>2, FreeIsNoKey DEF Inv, TypeOK
  <2> QED BY <1>1, <1>2, <2>1 DEF Emplace
<1>6. MapIsExact'
  BY <1>3, <1>4, <1>5 DEF Inv, MapIsExact
<1>7. /\ client' \in [Clients -> Status] /\ backlog' \in Seq(Clients)
      /\ QueueInv' /\ SessionInv'
  BY <1>1, <1>3, <1>4, <1>0, ServedPreserves DEF QueueInv
<1>8. DescriptorsAreOwned'
  <2>1. \A d \in Clients : Owned(d)' = Owned(d)
    BY <1>3, <1>4 DEF Owned
  <2> QED BY <1>1, <2>1 DEF Inv, DescriptorsAreOwned
<1>9. TypeOK'
  BY <1>1, <1>3, <1>5, <1>7 DEF Inv, TypeOK, Status
<1> QED BY <1>3, <1>6, <1>7, <1>8, <1>9 DEF Inv

\* EMFILE from accept(): the reserve serves to drop the first client.
LEMMA AcceptExhaustedPreserves ==
  ASSUME Inv, AcceptExhausted
  PROVE  Inv'
<1>1. /\ HandleDescriptorExhaustion(open, backlog)
      /\ client' = Refuse(client, backlog) /\ phase' = "poll"
      /\ UNCHANGED <<edge, listening, session, sessions, next>>
  BY DEF AcceptExhausted
<1>2. idle \in open /\ open \in SUBSET Fds
  BY Ownership
<1>3. /\ idle' \in Fds /\ idle' \notin open \ {idle}
      /\ open' = (open \ {idle}) \cup {idle'}
      /\ backlog' = IF backlog = <<>> THEN backlog ELSE Tail(backlog)
  BY <1>1, <1>2, ReserveReturns
<1>4. /\ client' \in [Clients -> Status] /\ backlog' \in Seq(Clients)
      /\ QueueInv' /\ SessionInv'
  <2>1. CASE backlog = <<>>
    BY <1>1, <1>3, <2>1 DEF Refuse, Inv, TypeOK, Status, QueueInv, SessionInv, IsOpenSession
  <2>2. CASE backlog # <<>>
    <3>1. Tail(backlog) # backlog
      BY <2>2, PopQueue DEF Inv, TypeOK, QueueInv, Status
    <3>2. client' = [client EXCEPT ![Head(backlog)] = "refused"] /\ backlog' = Tail(backlog)
      BY <1>1, <1>3, <2>2, <3>1 DEF Refuse
    <3> QED BY <1>1, <2>2, <3>2, DropPreserves
  <2> QED BY <2>1, <2>2
<1>5. MapIsExact' /\ TurnsInv'
  BY <1>1, SessionsKept
<1>6. DescriptorsAreOwned'
  <2> DEFINE rest == open \ {idle}
  <2>1. \A d \in Clients \ {NoClient} : Owned(d)' = Owned(d)
    BY <1>1 DEF Owned, IsOpenSession
  <2>2. /\ rest = open \ ({} \cup {idle}) /\ open' = rest \cup {} \cup {idle'}
        /\ rest \cap {} = {} /\ idle' \notin rest \cup {}
    BY <1>3
  <2>3. NoClient \notin Clients
    BY BalancerAssumption
  <2> HIDE DEF rest
  <2> QED BY <2>1, <2>2, <2>3, OwnershipMoves
<1>7. TypeOK'
  BY <1>1, <1>2, <1>3, <1>4 DEF Inv, TypeOK, Status
<1> QED BY <1>4, <1>5, <1>6, <1>7 DEF Inv

\* The last descriptor goes to a client whose backend then gets none: its
\* session owns that one descriptor, and the reserve drops the next client.
LEMMA AcceptStalledPreserves ==
  ASSUME Inv, AcceptStalled
  PROVE  Inv'
<1>0. PICK h \in Clients : h = Head(backlog)
  BY PopQueue DEF AcceptStalled, Inv, TypeOK, QueueInv, Status
<1> DEFINE queue == Tail(backlog)
           status == [client EXCEPT ![h] = "accepted"]
           opened == open \cup {ClientFd}
<1>1. /\ phase = "accept" /\ backlog # <<>> /\ Free(open) # {}
      /\ OnNewConnection("stalled", NoFd)
      /\ sessions' = Emplace(h, ClientFd)
      /\ HandleDescriptorExhaustion(opened, queue)
      /\ client' = Refuse(status, queue)
      /\ phase' = "poll"
  BY <1>0 DEF AcceptStalled
<1>2. ClientFd \in Fds \ open
  <2>1. Free(open) \in SUBSET Fds
    BY DEF Free
  <2> QED BY <1>1, <2>1, LowestIsFree DEF ClientFd, Free
<1>3. /\ client[h] = "waiting" /\ ~IsOpenSession(h)
      /\ session'[h] = [life |-> "stalled", fd |-> ClientFd, out |-> NoFd, backend |-> next]
      /\ \A d \in Clients \ {h} : session'[d] = session[d]
      /\ session' \in [Clients -> Session] /\ next' \in 0 .. NumBackends - 1
      /\ listening' \in BOOLEAN /\ edge' \in BOOLEAN
      /\ TurnsInv'
  BY <1>1, <1>2, <1>0, NewSession DEF Life
<1>4. (IsOpenSession(h))' /\ session'[h].fd = ClientFd
  BY <1>3 DEF IsOpenSession
<1>5. sessions' \in [Fds -> Clients \cup {NoClient}] /\ MapIsExact'
  BY <1>1, <1>2, <1>3, <1>4, EnterKeepsMap
<1>6. idle \in open /\ open \in SUBSET Fds
  BY Ownership
<1>7. /\ idle' \in Fds /\ idle' \notin opened \ {idle}
      /\ open' = (opened \ {idle}) \cup {idle'}
      /\ backlog' = IF queue = <<>> THEN queue ELSE Tail(queue)
  <2>1. opened \in SUBSET Fds /\ idle \in opened
    BY <1>2, <1>6
  <2> HIDE DEF opened, queue
  <2> QED BY <1>1, <2>1, ReserveReturns
<1>8. /\ client' \in [Clients -> Status] /\ backlog' \in Seq(Clients)
      /\ QueueInv' /\ SessionInv'
  <2>1. /\ status \in [Clients -> Status] /\ queue \in Seq(Clients) /\ WaitsIn(status, queue)
        /\ client' = status => SessionInv'
    BY <1>1, <1>2, <1>3, <1>4, <1>0, ServedPreserves
  <2>2. CASE queue = <<>>
    BY <1>1, <1>7, <2>1, <2>2 DEF Refuse, QueueInv
  <2>3. CASE queue # <<>>
    <3>1. /\ Head(queue) \in Clients /\ status[Head(queue)] = "waiting"
          /\ Tail(queue) \in Seq(Clients) /\ Tail(queue) # queue
          /\ WaitsIn([status EXCEPT ![Head(queue)] = "refused"], Tail(queue))
      BY <2>1, <2>3, PopQueue DEF Status
    <3>2. client' = [status EXCEPT ![Head(queue)] = "refused"] /\ backlog' = Tail(queue)
      BY <1>1, <1>7, <2>3, <3>1 DEF Refuse
    <3>3. client' \in [Clients -> Status]
      BY <2>1, <3>1, <3>2 DEF Status
    <3>4. SessionInv'
      <4>1. SUFFICES ASSUME NEW d \in Clients
                     PROVE  /\ client'[d] \in {"away", "waiting", "refused", "aborted"}
                                 => session'[d].life = "none"
                            /\ (IsOpenSession(d))' => session'[d].fd \in Fds
        BY DEF SessionInv
      <4>2. Head(queue) # h /\ client[Head(queue)] = "waiting"
        <5>1. client \in [Clients -> Status]
          BY DEF Inv, TypeOK, Status
        <5>2. status[h] = "accepted" /\ \A d1 \in Clients \ {h} : status[d1] = client[d1]
          BY <1>3, <5>1
        <5> QED BY <3>1, <5>2
      <4>3. CASE d = h
        <5>1. client'[h] = "accepted"
          BY <1>3, <2>1, <3>1, <3>2, <4>2
        <5> QED BY <1>2, <1>4, <4>3, <5>1
      <4>4. CASE d = Head(queue)
        BY <1>3, <3>1, <4>2, <4>4 DEF Inv, SessionInv, IsOpenSession
      <4>5. CASE d # h /\ d # Head(queue)
        <5>1. client'[d] = client[d]
          BY <1>3, <2>1, <3>1, <3>2, <4>5
        <5> QED BY <1>3, <4>5, <5>1 DEF Inv, SessionInv, IsOpenSession
      <4> QED BY <4>3, <4>4, <4>5
    <3> QED BY <3>1, <3>2, <3>3, <3>4 DEF QueueInv
  <2> QED BY <2>2, <2>3
<1>9. DescriptorsAreOwned'
  <2> DEFINE new == {ClientFd}
             rest == open \ {idle}
  <2>1. Owned(h) = {} /\ \A d \in Clients \ {h} : Owned(d)' = Owned(d)
    BY <1>3 DEF Owned, IsOpenSession
  <2>2. Owned(h)' = new
    BY <1>2, <1>3, <1>4, NoFdIsNone DEF Owned
  <2>3. /\ rest = open \ ({} \cup {idle}) /\ open' = rest \cup new \cup {idle'}
        /\ rest \cap new = {} /\ idle' \notin rest \cup new
    BY <1>2, <1>6, <1>7
  <2> HIDE DEF new, rest
  <2> QED BY <1>3, <2>1, <2>2, <2>3, OwnershipMoves
<1>10. TypeOK'
  BY <1>1, <1>2, <1>3, <1>5, <1>6, <1>7, <1>8 DEF Inv, TypeOK, Status
<1> QED BY <1>3, <1>5, <1>8, <1>9, <1>10 DEF Inv

\* The steps of the loop and of its environment that change no session.
LEMMA PlainPreserves ==
  ASSUME Inv, BeginAccept \/ AcceptNone \/ Signal \/ StopDone \/ UNCHANGED vars
  PROVE  Inv'
<1>1. /\ UNCHANGED <<client, backlog, session, sessions, next, open, idle>>
      /\ phase' \in {"poll", "accept", "stopping", "exited"}
      /\ edge' \in BOOLEAN /\ listening' \in BOOLEAN
  BY DEF BeginAccept, AcceptNone, Signal, StopDone, vars, Inv, TypeOK
<1>2. TypeOK' /\ QueueInv' /\ SessionInv'
  BY <1>1 DEF Inv, TypeOK, QueueInv, SessionInv, IsOpenSession
<1>3. MapIsExact' /\ TurnsInv' /\ DescriptorsAreOwned'
  BY <1>1, SessionsKept
<1> QED BY <1>2, <1>3 DEF Inv

\* An error of the connection itself: the client is gone, nothing else happens.
LEMMA AcceptAbortedPreserves ==
  ASSUME Inv, AcceptAborted
  PROVE  Inv'
<1>1. /\ backlog # <<>>
      /\ client' = [client EXCEPT ![Head(backlog)] = "aborted"] /\ backlog' = Tail(backlog)
      /\ phase' = "poll"
      /\ UNCHANGED <<edge, listening, session, sessions, next, open, idle>>
  BY DEF AcceptAborted
<1>2. /\ client' \in [Clients -> Status] /\ backlog' \in Seq(Clients)
      /\ QueueInv' /\ SessionInv'
  BY <1>1, DropPreserves
<1>3. MapIsExact' /\ TurnsInv' /\ DescriptorsAreOwned'
  BY <1>1, SessionsKept
<1>4. TypeOK'
  BY <1>1, <1>2 DEF Inv, TypeOK, Status
<1> QED BY <1>2, <1>3, <1>4 DEF Inv

\* A client's handshake ends: it waits behind the others.
LEMMA ArrivePreserves ==
  ASSUME Inv, NEW c \in Clients, Arrive(c)
  PROVE  Inv'
<1>1. /\ client[c] = "away" /\ client' = [client EXCEPT ![c] = "waiting"]
      /\ backlog' = Append(backlog, c) /\ edge' = TRUE
      /\ UNCHANGED <<listening, phase, session, sessions, next, open, idle>>
  BY DEF Arrive
<1>2. client \in [Clients -> Status] /\ client' \in [Clients -> Status]
  BY <1>1 DEF Inv, TypeOK, Status
<1>3. /\ backlog \in Seq(Clients) /\ backlog' \in Seq(Clients)
      /\ Len(backlog) \in Nat /\ Len(backlog') = Len(backlog) + 1
      /\ \A i \in 1 .. Len(backlog) : backlog'[i] = backlog[i]
      /\ backlog'[Len(backlog) + 1] = c
  BY <1>1, AppendProperties, LenProperties DEF Inv, TypeOK
<1>4. QueueInv'
  <2>1. ASSUME NEW i \in 1 .. Len(backlog)
        PROVE  backlog[i] \in Clients /\ client[backlog[i]] = "waiting" /\ backlog[i] # c
    <3>1. backlog[i] \in Clients
      BY <1>3, ElementOfSeq
    <3> QED BY <1>1, <3>1 DEF Inv, QueueInv, WaitsIn
  <2>2. ASSUME NEW i \in 1 .. Len(backlog') PROVE client'[backlog'[i]] = "waiting"
    <3>1. CASE i = Len(backlog) + 1
      BY <1>1, <1>2, <1>3, <3>1
    <3>2. CASE i # Len(backlog) + 1
      <4>1. i \in 1 .. Len(backlog)
        BY <1>3, <3>2
      <4> QED BY <1>1, <1>2, <1>3, <2>1, <4>1
    <3> QED BY <3>1, <3>2
  <2>3. ASSUME NEW i \in 1 .. Len(backlog'), NEW j \in 1 .. Len(backlog'),
               backlog'[i] = backlog'[j]
        PROVE  i = j
    <3>1. /\ i \in 1 .. Len(backlog) \/ i = Len(backlog) + 1
          /\ j \in 1 .. Len(backlog) \/ j = Len(backlog) + 1
      BY <1>3
    <3>2. i \in 1 .. Len(backlog) /\ j \in 1 .. Len(backlog) => backlog[i] = backlog[j]
      BY <1>3, <2>3
    <3>3. i \in 1 .. Len(backlog) /\ j \in 1 .. Len(backlog) => i = j
      BY <3>2 DEF Inv, QueueInv, WaitsIn
    <3>4. i \in 1 .. Len(backlog) => backlog'[i] # c
      BY <1>3, <2>1
    <3>5. j \in 1 .. Len(backlog) => backlog'[j] # c
      BY <1>3, <2>1
    <3> QED BY <1>3, <2>3, <3>1, <3>3, <3>4, <3>5
  <2> QED BY <2>2, <2>3 DEF QueueInv, WaitsIn
<1>5. SessionInv'
  BY <1>1, <1>2 DEF Inv, SessionInv, IsOpenSession
<1>6. MapIsExact' /\ TurnsInv' /\ DescriptorsAreOwned'
  BY <1>1, SessionsKept
<1>7. TypeOK'
  BY <1>1, <1>2, <1>3 DEF Inv, TypeOK, Status
<1> QED BY <1>4, <1>5, <1>6, <1>7 DEF Inv

-----------------------------------------------------------------------------
(* The theorems                                                            *)

\* The acceptor with its reserve, and no session.
LEMMA InvInit == Init => Inv
<1> SUFFICES ASSUME Init PROVE Inv
  OBVIOUS
<1>1. /\ <<>> \in Seq(Clients) /\ Len(<<>>) = 0
      /\ 1 \in Fds /\ 0 \in 0 .. NumBackends - 1
  BY EmptySeq, BalancerAssumption DEF Fds
<1>2. TypeOK
  BY <1>1 DEF Init, TypeOK, Session, Life
<1>3. QueueInv
  BY <1>1 DEF Init, QueueInv, WaitsIn
<1>4. /\ SessionInv
      /\ \A c \in Clients : session[c].life = "none" /\ ~IsOpenSession(c) /\ Owned(c) = {}
  BY DEF Init, SessionInv, IsOpenSession, Owned
<1>5. MapIsExact
  BY <1>4, BalancerAssumption DEF Init, MapIsExact
<1>6. DescriptorsAreOwned
  BY <1>4 DEF Init, DescriptorsAreOwned
<1>7. TurnsInv
  <2>1. \A b \in 0 .. NumBackends - 1 : Taken(b) = {} /\ ~(b < 0)
    BY <1>4 DEF Taken
  <2>2. Round(0)
    BY <2>1, FS_EmptySet DEF Init, Round
  <2> QED BY <2>2 DEF TurnsInv
<1> QED BY <1>2, <1>3, <1>4, <1>5, <1>6, <1>7 DEF Inv

\* Every step preserves the invariant.
LEMMA InvNext == Inv /\ [Next]_vars => Inv'
<1> SUFFICES ASSUME Inv, [Next]_vars PROVE Inv'
  OBVIOUS
<1>1. CASE Accept
  BY <1>1, PlainPreserves, AcceptAbortedPreserves, AcceptExhaustedPreserves,
     AcceptSessionPreserves, AcceptRefusedPreserves, AcceptStalledPreserves DEF Accept
<1>2. ASSUME NEW c \in Clients, ConnectFails(c) \/ SessionEnds(c) PROVE Inv'
  <2>1. /\ IsOpenSession(c) /\ Close(c)
        /\ UNCHANGED <<backlog, edge, listening, phase, next, idle>>
    BY <1>2 DEF ConnectFails, SessionEnds, InLoop, IsOpenSession
  <2> QED BY <2>1, ClosePreserves
<1>3. CASE StopSession
  <2>1. PICK fd \in Fds :
          /\ sessions[fd] # NoClient
          /\ IF IsOpenSession(sessions[fd])
             THEN Close(sessions[fd])
             ELSE UNCHANGED <<session, client, open, sessions>>
    BY <1>3 DEF StopSession
  <2>2. UNCHANGED <<backlog, edge, listening, phase, next, idle>>
    BY <1>3 DEF StopSession
  <2>3. PICK c \in Clients : c = sessions[fd]
    BY <2>1 DEF Inv, TypeOK
  <2>4. IsOpenSession(c)
    BY <2>3 DEF Inv, MapIsExact
  <2>5. Close(c)
    BY <2>1, <2>3, <2>4
  <2> QED BY <2>2, <2>4, <2>5, ClosePreserves
<1> QED BY <1>1, <1>2, <1>3, ConnectedPreserves, ArrivePreserves, PlainPreserves
        DEF Next, Stop

\* The inductive invariant holds in every reachable state.
LEMMA Invariance == Spec => []Inv
  BY InvInit, InvNext, PTL DEF Spec

\* No session is lost, kept or erased for another, no descriptor leaks or has
\* two owners, and the reserve survives every exhaustion.
THEOREM NothingLeaks == Spec => []BalancerInv
<1>1. Inv => BalancerInv
  BY DEF Inv, BalancerInv
<1> QED BY <1>1, Invariance, PTL

\* No backend is ever ahead of another by more than one connection.
THEOREM TurnsAreFair == Spec => []BackendsTakeTurns
<1>1. Inv => BackendsTakeTurns
  <2> SUFFICES ASSUME Inv PROVE BackendsTakeTurns
    OBVIOUS
  <2>1. PICK q \in Nat : Round(q)
    BY DEF Inv, TurnsInv
  <2>2. \A b \in 0 .. NumBackends - 1 : Turns(b) \in {q, q + 1}
    BY <2>1 DEF Round, Turns, Taken
  <2> QED BY <2>2 DEF BackendsTakeTurns
<1> QED BY <1>1, Invariance, PTL

\* A client is refused only when a session would not get its two descriptors.
THEOREM RefusedForWantOfRoom == Spec => RefusedOnlyWhenFull
<1> DEFINE Refusal == \A c \in Clients :
                        client'[c] = "refused" /\ client[c] # "refused" => ~RoomForSession
<1>1. Inv /\ [Next]_vars => [Refusal]_vars
  <2> SUFFICES ASSUME Inv, Next, NEW c \in Clients,
                      client'[c] = "refused", client[c] # "refused", RoomForSession
               PROVE  FALSE
    OBVIOUS
  <2>1. client \in [Clients -> Status]
    BY DEF Inv, TypeOK, Status
  <2>2. Free(open) # {}
    BY RoomIsTwo
  <2>3. CASE client' = client
    BY <2>3
  <2>4. ASSUME NEW h \in Clients, NEW v \in Status \ {"refused"}, client' = [client EXCEPT ![h] = v]
        PROVE  FALSE
    BY <2>1, <2>4
  <2>5. Head(backlog) \in Clients \/ backlog = <<>>
    BY <2>1, PopQueue DEF Inv, TypeOK, QueueInv
  <2>6. CASE Accept
    BY <2>2, <2>3, <2>4, <2>5, <2>6 DEF Accept, BeginAccept, AcceptNone, AcceptAborted,
         AcceptExhausted, AcceptSession, AcceptRefused, AcceptStalled, Status
  <2>7. ASSUME NEW d \in Clients, Connected(d) \/ ConnectFails(d) \/ SessionEnds(d) \/ Arrive(d)
        PROVE  FALSE
    BY <2>3, <2>4, <2>7 DEF Connected, ConnectFails, SessionEnds, Arrive, Close, Status
  <2>8. CASE Signal \/ StopDone
    BY <2>3, <2>8 DEF Signal, StopDone
  <2>9. CASE StopSession
    <3>1. PICK fd \in Fds :
            /\ sessions[fd] # NoClient
            /\ Close(sessions[fd]) \/ client' = client
      BY <2>9 DEF StopSession
    <3>2. sessions[fd] \in Clients
      BY <3>1 DEF Inv, TypeOK
    <3> QED BY <2>3, <2>4, <3>1, <3>2 DEF Close, Status
  <2> QED BY <2>6, <2>7, <2>8, <2>9 DEF Next, Stop
<1> HIDE DEF Refusal
<1>2. Spec => [][Refusal]_vars
  BY <1>1, Invariance, PTL DEF Spec
<1> QED BY <1>2 DEF Refusal, RefusedOnlyWhenFull
=============================================================================
