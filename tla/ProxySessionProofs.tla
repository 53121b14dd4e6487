------------------------- MODULE ProxySessionProofs ------------------------
(***************************************************************************)
(* What a session keeps true, and what it does with the bytes and the ends *)
(* of the two streams: for every capacity of the socket buffers, every     *)
(* batch size and every number of bytes.                                   *)
(***************************************************************************)
EXTENDS ProxySession, TcpConnectionProofs

ConnectorStates == {"Idle", "Connecting", "Succeeded", "Failed", "Cancelled"}

\* TypeOK, split by who changes the variables: the session's callbacks ...
BuffersOK(rq, sq) ==
  /\ rq \in [Sides -> Seq(Nat)]
  /\ sq \in [Sides -> Seq(Nat)]
  /\ \A s \in Sides : Len(rq[s]) <= RcvCap /\ Len(sq[s]) <= SndCap

SessionType ==
  /\ conn \in [Sides -> Connection]
  /\ connector \in ConnectorStates
  /\ closed \in BOOLEAN
  /\ owned \in BOOLEAN
  /\ retained \in SUBSET (Sides \cup {"session"})
  /\ timer \in {"none", "armed", "cancelled"}
  /\ wire \in [Sides -> {"none", "open", "fin", "rst"}]
  /\ BuffersOK(rcv, snd)

\* ... or the loop, the kernel and the peers.
LoopType ==
  /\ phase \in {"poll", "dispatch", "exited"}
  /\ ready \in [Channels -> SUBSET Event]
  /\ current \in Channels \cup {"none"}
  /\ dial \in {"none", "pending", "ok", "failed"}
  /\ timedOut \in BOOLEAN
  /\ fin \in [Sides -> BOOLEAN]
  /\ err \in [Sides -> BOOLEAN]
  /\ sent \in [Sides -> Seq(Nat)]
  /\ got \in [Sides -> Seq(Nat)]
  /\ eof \in [Sides -> BOOLEAN]

\* TypeOK is the type of the session's objects and that of everything else.
LEMMA TypeSplit == TypeOK <=> SessionType /\ LoopType
  BY DEF TypeOK, SessionType, LoopType, BuffersOK, ConnectorStates

Inv == SessionType /\ LoopType /\ SessionInv

\* A pair of connections that may be kept or closed.
Pair(cn) ==
  /\ cn \in [Sides -> Connection]
  /\ \A s \in Sides : WellFormed(cn[s]) /\ Len(cn[s].output) <= BatchSize
  /\ cn["client"].state # "None"
  /\ cn["backend"].state # "Connecting"

\* What the inductive invariant says of the two connections.
LEMMA InvPair == Inv => Pair(conn) /\ \A s \in Sides : Sound(conn[s])
  BY DEF Inv, SessionType, SessionInv, Coupling, Lifecycle, Pair, Sound

\* Close() leaves a closed session, whatever state it found.
LEMMA ClosePreserves ==
  ASSUME SessionType, NEW cn, Pair(cn), NEW k \in ConnectorStates,
         NEW rq, NEW sq, BuffersOK(rq, sq),
         CloseSession(cn, k, rq, sq)
  PROVE  SessionType' /\ SessionInv'
<1>1. \A s \in Sides : Sound(cn[s])
  BY DEF Pair, Sound
<1>2. conn' = [s \in Sides |-> ForceClose(cn[s])]
  BY DEF CloseSession
<1>3. \A s \in Sides :
        /\ Sound(conn'[s]) /\ ~IsOpen(conn'[s]) /\ ~conn'[s].reading
        /\ conn'[s].output = cn[s].output
        /\ conn'[s].state = IF cn[s].state = "None" THEN "None" ELSE "Disconnected"
  BY <1>1, <1>2, ForceCloseSound
<1>4. conn' \in [Sides -> Connection]
  BY <1>2, <1>3 DEF Sound
<1>5. closed' = TRUE /\ owned' = FALSE
      /\ connector' \in {"Succeeded", "Failed", "Cancelled"}
  BY DEF CloseSession, ConnectorStates
<1>6. SessionType'
  <2>1. retained' \in SUBSET (Sides \cup {"session"})
    BY DEF SessionType, CloseSession, Retain
  <2>2. timer' \in {"none", "armed", "cancelled"}
    BY DEF SessionType, CloseSession
  <2>3. wire' \in [Sides -> {"none", "open", "fin", "rst"}]
    BY DEF SessionType, CloseSession
  <2>4. BuffersOK(rcv', snd')
    <3>1. rcv' = rq /\ snd' \in [Sides -> Seq(Nat)]
      BY DEF CloseSession, BuffersOK
    <3>2. \A s \in Sides : snd'[s] = sq[s] \/ snd'[s] = <<>>
      BY DEF CloseSession
    <3>3. Len(<<>>) <= SndCap
      BY ConstantsAssumption
    <3> QED BY <3>1, <3>2, <3>3 DEF BuffersOK
  <2> QED BY <1>4, <1>5, <2>1, <2>2, <2>3, <2>4 DEF SessionType, ConnectorStates
<1>7. \A s \in Sides : WellFormed(conn'[s])
  BY <1>3 DEF Sound
<1>8. Lifecycle'
  BY <1>3, <1>5 DEF Lifecycle, Pair, Sides
<1>9. Coupling'
  BY <1>3, <1>5 DEF Coupling, Pair
<1> QED BY <1>6, <1>7, <1>8, <1>9 DEF SessionInv

\* What couples the two directions while both ends are connected.
Coupled(cn) ==
  \A s \in Sides :
    /\ cn[s].reading => cn[Other(s)].output = <<>>
    /\ cn[Other(s)].shutdownRequested = cn[s].receivedEof
    /\ ~cn[s].reading => cn[s].receivedEof \/ cn[Other(s)].output # <<>>

\* Coupled, end by end.
LEMMA CoupledEnds ==
  ASSUME NEW cn, NEW s \in Sides, NEW a, NEW b,
         cn[s] = a, cn[Other(s)] = b,
         a.reading => b.output = <<>>, b.reading => a.output = <<>>,
         b.shutdownRequested = a.receivedEof, a.shutdownRequested = b.receivedEof,
         a.reading \/ a.receivedEof \/ b.output # <<>>,
         b.reading \/ b.receivedEof \/ a.output # <<>>
  PROVE  Coupled(cn)
<1>1. Other(Other(s)) = s /\ \A t \in Sides : t = s \/ t = Other(s)
  BY DEF Sides, Other
<1> QED BY <1>1 DEF Coupled

\* A callback that keeps an open, connected session and its coupling.
LEMMA KeepPreserves ==
  ASSUME SessionType, SessionInv, ~closed, connector = "Succeeded",
         NEW cn, Pair(cn), Coupled(cn),
         \A s \in Sides : cn[s].state = "Connected",
         NEW rq, NEW sq, BuffersOK(rq, sq),
         KeepSession(cn, rq, sq)
  PROVE  SessionType' /\ SessionInv'
<1>1. /\ conn' = cn /\ rcv' = rq /\ snd' = sq
      /\ UNCHANGED <<connector, closed, owned, retained, timer>>
  BY DEF KeepSession
<1>2. wire' \in [Sides -> {"none", "open", "fin", "rst"}]
  BY DEF KeepSession, WireAfter, SessionType
<1>3. SessionType'
  BY <1>1, <1>2 DEF SessionType, Pair
<1>4. Lifecycle'
  BY <1>1 DEF SessionInv, Lifecycle, Sides, IsOpen
<1>5. Coupling'
  BY <1>1 DEF Coupling, Coupled, Pair
<1> QED BY <1>1, <1>3, <1>4, <1>5 DEF SessionInv, Pair

\* A callback that may have been the last one of the session.
LEMMA FinishPreserves ==
  ASSUME SessionType, SessionInv, ~closed, connector = "Succeeded",
         NEW cn, Pair(cn), Coupled(cn),
         \A s \in Sides : cn[s].state = "Connected",
         NEW rq, NEW sq, BuffersOK(rq, sq),
         CheckFinished(cn, rq, sq)
  PROVE  SessionType' /\ SessionInv'
<1>1. CASE KeepSession(cn, rq, sq)
  BY <1>1, KeepPreserves
<1>2. CASE CloseSession(cn, connector, rq, sq)
  BY <1>2, ClosePreserves DEF ConnectorStates
<1> QED BY <1>1, <1>2 DEF CheckFinished

\* Callbacks that find nothing to do.
LEMMA UntouchedPreserves ==
  ASSUME SessionType, SessionInv, Untouched
  PROVE  SessionType' /\ SessionInv'
  BY DEF SessionType, SessionInv, Lifecycle, Coupling, Untouched, session

\* The dispatch of an event only consumes it.
LEMMA DispatchType ==
  ASSUME LoopType, NEW ch \in Channels, NEW ev \in Event, Dispatch(ch, ev)
  PROVE  LoopType'
  BY DEF LoopType, Dispatch, peers

\* An end with something to read or write belongs to a connected session.
LEMMA AtWork ==
  ASSUME Inv, NEW s \in Sides, conn[s].state = "Connected",
         conn[s].reading \/ conn[s].output # <<>>
  PROVE  /\ ~closed /\ connector = "Succeeded"
         /\ \A t \in Sides : conn[t].state = "Connected" /\ Sound(conn[t])
         /\ Coupled(conn)
<1>1. ~closed
  BY DEF Inv, SessionInv, Lifecycle, IsOpen
<1>2. connector = "Succeeded"
  BY <1>1 DEF Inv, SessionInv, Lifecycle, Sides
<1>3. \A t \in Sides : conn[t].state = "Connected"
  BY <1>1, <1>2 DEF Inv, SessionInv, Lifecycle, Sides, IsOpen
<1>4. Coupled(conn)
  BY <1>1, <1>2 DEF Inv, SessionInv, Coupling, Coupled
<1> QED BY <1>1, <1>2, <1>3, <1>4, InvPair

\* send() takes no more than it is given and the kernel has room for.
LEMMA AcceptedRange ==
  ASSUME BuffersOK(rcv, snd), NEW s \in Sides, NEW n \in Nat,
         NEW taken \in Accepted(s, n)
  PROVE  taken \in 0 .. n /\ Len(snd[s]) + taken <= SndCap
<1>1. Len(snd[s]) \in Nat /\ Len(snd[s]) <= SndCap /\ SndCap \in Nat
  BY LenProperties, ConstantsAssumption DEF BuffersOK
<1> QED BY <1>1 DEF Accepted, Free, Lesser

\* A slice of a sequence.
LEMMA SliceProperties ==
  ASSUME NEW q \in Seq(Nat), NEW m \in Nat, NEW n \in 0 .. Len(q), 1 <= m, m <= n + 1
  PROVE  SubSeq(q, m, n) \in Seq(Nat) /\ Len(SubSeq(q, m, n)) = n - m + 1
<1>1. Len(q) \in Nat
  BY LenProperties
<1>2. \A i \in m .. n : q[i] \in Nat
  BY <1>1, ElementOfSeq
<1> QED BY <1>1, <1>2, SubSeqProperties

-----------------------------------------------------------------------------
(* One lemma per callback                                                  *)

\* The connector's success gives the session its backend.
LEMMA ConnectedPreserves ==
  ASSUME SessionType, NEW cn, Pair(cn), ~closed, owned,
         cn["client"].state = "Connected", cn["client"].output = <<>>,
         ~cn["client"].receivedEof, ~cn["client"].shutdownRequested,
         BackendConnected(cn), UNCHANGED <<rcv, snd>>,
         wire' \in [Sides -> {"none", "open", "fin", "rst"}]
  PROVE  SessionType' /\ SessionInv'
<1> DEFINE c == StartRead(cn["client"])
           b == Establish(Blank("Connecting"), TRUE)
<1>1. conn' = [cn EXCEPT !["client"] = c, !["backend"] = b]
  BY DEF BackendConnected
<1>2. /\ connector' = "Succeeded" /\ closed' = closed /\ owned' = owned
      /\ retained' = retained /\ timer' \in {"none", "armed", "cancelled"}
  BY DEF BackendConnected, SessionType
<1>3. Sound(cn["client"])
  BY DEF Pair, Sound, Sides
<1>4. /\ Sound(c) /\ c.state = "Connected" /\ c.output = <<>>
      /\ ~c.receivedEof /\ ~c.shutdownRequested /\ c.reading
  BY <1>3, StartReadSound
<1>5. /\ Sound(b) /\ b.state = "Connected" /\ b.output = <<>>
      /\ ~b.receivedEof /\ ~b.shutdownRequested /\ b.reading
  BY EstablishSound
<1> HIDE DEF c, b
<1>6. /\ conn' \in [Sides -> Connection]
      /\ conn'["client"] = c /\ conn'["backend"] = b
  BY <1>1, <1>4, <1>5 DEF Pair, Sound, Sides
<1>7. SessionType'
  BY <1>2, <1>6 DEF SessionType, ConnectorStates
<1>8. \A s \in Sides : WellFormed(conn'[s])
  BY <1>4, <1>5, <1>6 DEF Sound, Sides
<1>9. Lifecycle'
  BY <1>2, <1>4, <1>5, <1>6 DEF Lifecycle, Sides, IsOpen, SessionType
<1>10. Coupling'
  <2>1. Len(<<>>) <= BatchSize
    BY ConstantsAssumption
  <2>2. /\ c.receivedEof = FALSE /\ c.shutdownRequested = FALSE
        /\ b.receivedEof = FALSE /\ b.shutdownRequested = FALSE
    BY <1>4, <1>5 DEF Sound, Connection
  <2> QED BY <1>2, <1>4, <1>5, <1>6, <2>1, <2>2 DEF Coupling, Sides, Other
<1> QED BY <1>7, <1>8, <1>9, <1>10 DEF SessionInv

\* Any callback that ends in FailConnect or Abort.
LEMMA AbortPreserves ==
  ASSUME Inv, Abort \/ FailConnect
  PROVE  SessionType' /\ SessionInv'
<1>1. Pair(conn) /\ BuffersOK(rcv, snd) /\ connector \in ConnectorStates
  BY InvPair DEF Inv, SessionType
<1>2. CASE Abort
  BY <1>1, <1>2, ClosePreserves DEF Abort, Inv
<1>3. CASE FailConnect
  BY <1>1, <1>3, ClosePreserves DEF FailConnect, Inv, ConnectorStates
<1> QED BY <1>2, <1>3

\* The client's state when Start() begins to connect.
LEMMA StartedPair ==
  ASSUME Inv, conn["client"].state = "Connecting"
  PROVE  /\ ~closed /\ owned /\ connector = "Idle"
         /\ Pair(Started)
         /\ Started["backend"] = conn["backend"] /\ conn["backend"].state = "None"
         /\ LET c == Started["client"]
            IN  c.state = "Connected" /\ c.output = <<>> /\ ~c.reading
                /\ ~c.receivedEof /\ ~c.shutdownRequested
<1>1. ~closed /\ owned /\ connector = "Idle" /\ conn["backend"].state = "None"
  BY DEF Inv, SessionInv, Lifecycle, IsOpen, Sides
<1>2. Pair(conn) /\ conn["client"] = Blank("Connecting")
  BY InvPair DEF Inv, SessionInv, WellFormed, Sides
<1> DEFINE c == Establish(Blank("Connecting"), FALSE)
<1>3. /\ Sound(c) /\ c.state = "Connected" /\ c.output = <<>> /\ ~c.reading
      /\ ~c.receivedEof /\ ~c.shutdownRequested
  BY EstablishSound
<1>4. Started = [conn EXCEPT !["client"] = c]
  BY <1>2 DEF Started
<1> HIDE DEF c
<1>5. /\ Started \in [Sides -> Connection] /\ Started["client"] = c
      /\ Started["backend"] = conn["backend"]
  BY <1>2, <1>3, <1>4 DEF Pair, Sound, Sides
<1>6. Pair(Started)
  <2>1. Len(<<>>) <= BatchSize
    BY ConstantsAssumption
  <2> QED BY <1>2, <1>3, <1>5, <2>1 DEF Pair, Sound, Sides
<1> QED BY <1>1, <1>3, <1>5, <1>6

\* Whatever connect() answers, or if socket() throws, Start keeps the
\* invariant of the session's objects.
LEMMA StartPreserves ==
  ASSUME Inv, Start
  PROVE  Inv'
<1>1. conn["client"].state = "Connecting" /\ LoopType
      /\ UNCHANGED <<phase, ready, current, timedOut, fin, err, peers>>
  BY DEF Start, StartConnected, StartPending, StartRefused, StartThrows, StartCall, Inv
<1>2. dial' \in {"none", "pending", "ok", "failed"}
  BY DEF Start, StartConnected, StartPending, StartRefused, StartThrows, Inv, LoopType
<1>3. LoopType'
  BY <1>1, <1>2 DEF LoopType, peers
<1>4. SessionType /\ BuffersOK(rcv, snd)
  BY DEF Inv, SessionType
<1>5. /\ ~closed /\ owned /\ connector = "Idle" /\ Pair(Started)
      /\ Started["backend"] = conn["backend"] /\ conn["backend"].state = "None"
      /\ Started["client"].state = "Connected" /\ Started["client"].output = <<>>
      /\ ~Started["client"].reading
      /\ ~Started["client"].receivedEof /\ ~Started["client"].shutdownRequested
  BY <1>1, StartedPair
<1>6. CASE StartConnected
  <2>1. wire' \in [Sides -> {"none", "open", "fin", "rst"}]
    BY <1>4, <1>6 DEF StartConnected, SessionType
  <2> QED BY <1>3, <1>4, <1>5, <1>6, <2>1, ConnectedPreserves DEF StartConnected, Inv
<1>7. CASE StartRefused
  BY <1>3, <1>4, <1>5, <1>7, ClosePreserves DEF StartRefused, ConnectorStates, Inv
<1>8. CASE StartPending \/ StartThrows
  <2>1. /\ conn' = Started /\ connector' \in {"Idle", "Connecting"}
        /\ timer' \in {"none", "armed", "cancelled"}
        /\ UNCHANGED <<closed, owned, retained, wire, rcv, snd>>
    BY <1>4, <1>5, <1>8 DEF StartPending, StartThrows, SessionType
  <2>2. SessionType'
    BY <1>4, <1>5, <2>1 DEF SessionType, Pair, ConnectorStates
  <2>3. Lifecycle'
    BY <1>5, <2>1 DEF Lifecycle, Sides, IsOpen
  <2>4. \A t \in Sides : ~conn'[t].reading
    <3>1. ~conn["backend"].reading
      BY <1>5, InvPair DEF Sound, WellFormed, Blank, Sides
    <3> QED BY <1>5, <2>1, <3>1 DEF Sides
  <2>5. Coupling'
    BY <1>5, <2>1, <2>4 DEF Coupling, Pair
  <2> QED BY <1>3, <1>5, <2>1, <2>2, <2>3, <2>5 DEF Inv, SessionInv, Pair
<1> QED BY <1>6, <1>7, <1>8 DEF Start

\* A message goes to the other end, and the source pauses if a rest waits.
LEMMA ReadMessagePreserves ==
  ASSUME Inv, NEW s \in Sides, ReadMessage(s)
  PROVE  SessionType' /\ SessionInv'
<1> DEFINE o    == Other(s)
           n    == Lesser(BatchSize, Len(rcv[s]))
           data == SubSeq(rcv[s], 1, n)
           rest == [rcv EXCEPT ![s] = SubSeq(@, n + 1, Len(@))]
<1>1. o \in Sides /\ o # s /\ Other(o) = s
  BY DEF Sides, Other
<1>2. conn[s].state = "Connected" /\ conn[s].reading /\ rcv[s] # <<>>
  BY DEF ReadMessage, CanRead
<1>3. /\ ~closed /\ connector = "Succeeded" /\ Coupled(conn)
      /\ \A t \in Sides : conn[t].state = "Connected" /\ Sound(conn[t])
  BY <1>2, AtWork
<1>4. SessionType /\ SessionInv /\ BuffersOK(rcv, snd) /\ Pair(conn)
  BY InvPair DEF Inv, SessionType
<1>5. conn[o].output = <<>> /\ ~Drops(conn[o])
  <2>1. ~conn[s].receivedEof
    BY <1>2, <1>3 DEF Sound, WellFormed
  <2> QED BY <1>1, <1>2, <1>3, <2>1 DEF Coupled, Drops
<1>6. /\ rcv[s] \in Seq(Nat) /\ Len(rcv[s]) \in Nat \ {0} /\ n \in 1 .. Len(rcv[s])
      /\ n <= BatchSize
  BY <1>2, <1>4, EmptySeq, ConstantsAssumption DEF BuffersOK, Lesser
<1>7. data \in Seq(Nat) /\ Len(data) = n
  BY <1>6, SliceProperties
<1>8. BuffersOK(rest, snd)
  <2> HIDE DEF n
  <2>1. SubSeq(rcv[s], n + 1, Len(rcv[s])) \in Seq(Nat)
        /\ Len(SubSeq(rcv[s], n + 1, Len(rcv[s]))) = Len(rcv[s]) - n
    BY <1>6, SliceProperties
  <2> QED BY <1>4, <1>6, <2>1, ConstantsAssumption DEF BuffersOK
<1> HIDE DEF n, data, rest
<1>9. \/ CloseSession(conn, connector, rest, snd)
      \/ \E taken \in Accepted(o, n) :
           LET target == Send(conn[o], data, taken)
           IN  KeepSession([conn EXCEPT ![o] = target, ![s] = PauseSource(@, target)], rest,
                           [snd EXCEPT ![o] = @ \o SubSeq(data, 1, taken)])
  BY <1>5 DEF ReadMessage, n, data, rest
<1>10. CASE CloseSession(conn, connector, rest, snd)
  BY <1>4, <1>8, <1>10, ClosePreserves DEF SessionType
<1>11. ASSUME NEW taken \in Accepted(o, n),
              KeepSession([conn EXCEPT ![o] = Send(conn[o], data, taken),
                                       ![s] = PauseSource(@, Send(conn[o], data, taken))],
                          rest, [snd EXCEPT ![o] = @ \o SubSeq(data, 1, taken)])
       PROVE  SessionType' /\ SessionInv'
  <2> DEFINE target == Send(conn[o], data, taken)
             source == PauseSource(conn[s], target)
             cn     == [conn EXCEPT ![o] = target, ![s] = source]
             sq     == [snd EXCEPT ![o] = @ \o SubSeq(data, 1, taken)]
             left   == SubSeq(data, taken + 1, Len(data))
  <2>1. taken \in 0 .. n /\ Len(snd[o]) + taken <= SndCap
    BY <1>1, <1>4, <1>6, AcceptedRange
  <2>2. left \in Seq(Nat) /\ Len(left) = n - taken
    BY <1>6, <1>7, <2>1, SliceProperties
  <2>3. BuffersOK(rest, sq)
    <3>1. SubSeq(data, 1, taken) \in Seq(Nat) /\ Len(SubSeq(data, 1, taken)) = taken
      BY <1>6, <1>7, <2>1, SliceProperties, SMTT(30)
    <3>2. snd[o] \in Seq(Nat) /\ Len(snd[o]) \in Nat
      BY <1>1, <1>4, LenProperties DEF BuffersOK
    <3>3. snd[o] \o SubSeq(data, 1, taken) \in Seq(Nat)
          /\ Len(snd[o] \o SubSeq(data, 1, taken)) = Len(snd[o]) + taken
      BY <3>1, <3>2, ConcatProperties
    <3> QED BY <1>1, <1>4, <1>8, <2>1, <3>3 DEF BuffersOK
  <2>4. /\ Sound(target) /\ target.state = "Connected"
        /\ target.reading = conn[o].reading
        /\ target.receivedEof = conn[o].receivedEof
        /\ target.shutdownRequested = conn[o].shutdownRequested
        /\ target.output = left
    <3>1. Sound(conn[o]) /\ data \in Seq(Nat) /\ taken \in 0 .. Len(data)
      BY <1>1, <1>3, <1>6, <1>7, <2>1
    <3>2. /\ Sound(target) /\ target.state = conn[o].state
          /\ target.reading = conn[o].reading
          /\ target.receivedEof = conn[o].receivedEof
          /\ target.shutdownRequested = conn[o].shutdownRequested
          /\ target.output = IF Drops(conn[o]) THEN conn[o].output ELSE conn[o].output \o left
      BY <3>1, SendSound
    <3>3. target.output = conn[o].output \o left
      BY <1>5, <3>2
    <3>4. target.output = left
      BY <1>5, <2>2, <3>3, ConcatEmptySeq
    <3> QED BY <1>1, <1>3, <3>2, <3>4
  <2> HIDE DEF target, left
  <2>5. /\ Sound(source) /\ source.state = "Connected"
        /\ source.output = conn[s].output
        /\ source.receivedEof = conn[s].receivedEof
        /\ source.shutdownRequested = conn[s].shutdownRequested
        /\ source.reading => target.output = <<>>
        /\ ~source.reading => target.output # <<>>
    BY <1>2, <1>3, StopReadSound DEF PauseSource
  <2> HIDE DEF source
  <2>6. /\ cn \in [Sides -> Connection] /\ cn[o] = target /\ cn[s] = source
        /\ \A t \in Sides : t = s \/ t = o
    BY <1>1, <1>4, <2>4, <2>5 DEF Pair, Sound, Sides
  <2>7. Pair(cn)
    <3>1. Len(left) <= BatchSize /\ Len(conn[s].output) <= BatchSize
      BY <1>4, <1>6, <2>1, <2>2, ConstantsAssumption DEF Pair
    <3> QED BY <2>4, <2>5, <2>6, <3>1 DEF Pair, Sound, Sides
  <2>8. Coupled(cn)
    BY <1>1, <1>3, <2>4, <2>5, <2>6 DEF Coupled
  <2>9. \A t \in Sides : cn[t].state = "Connected"
    BY <2>4, <2>5, <2>6
  <2>10. KeepSession(cn, rest, sq)
    BY <1>11 DEF target, source
  <2> HIDE DEF cn, sq
  <2> QED BY <1>3, <1>4, <2>3, <2>7, <2>8, <2>9, <2>10, KeepPreserves
<1> QED BY <1>9, <1>10, <1>11

\* An end of stream is forwarded, or ends the session.
LEMMA ReadEofPreserves ==
  ASSUME Inv, NEW s \in Sides, ReadEof(s)
  PROVE  SessionType' /\ SessionInv'
<1> DEFINE o      == Other(s)
           source == StopRead([conn[s] EXCEPT !.receivedEof = TRUE])
           target == ShutdownWrite(conn[o])
           cn     == [conn EXCEPT ![s] = source, ![o] = target]
<1>1. o \in Sides /\ o # s /\ Other(o) = s
  BY DEF Sides, Other
<1>2. conn[s].state = "Connected" /\ conn[s].reading
  BY DEF ReadEof, CanRead
<1>3. /\ ~closed /\ connector = "Succeeded" /\ Coupled(conn)
      /\ \A t \in Sides : conn[t].state = "Connected" /\ Sound(conn[t])
  BY <1>2, AtWork
<1>4. SessionType /\ SessionInv /\ BuffersOK(rcv, snd) /\ Pair(conn)
  BY InvPair DEF Inv, SessionType
<1>5. /\ Sound(source) /\ source.state = "Connected" /\ ~source.reading
      /\ source.receivedEof = TRUE /\ source.output = conn[s].output
      /\ source.shutdownRequested = conn[s].shutdownRequested
  <2>1. /\ Sound(source) /\ source.state = "Connected" /\ ~source.reading
        /\ source.receivedEof /\ source.output = conn[s].output
        /\ source.shutdownRequested = conn[s].shutdownRequested
    BY <1>2, <1>3, EofSound
  <2> QED BY <2>1 DEF Sound, Connection
<1>6. /\ Sound(target) /\ target.state = "Connected"
      /\ target.reading = conn[o].reading /\ target.output = conn[o].output
      /\ target.receivedEof = conn[o].receivedEof
      /\ target.shutdownRequested = TRUE
  BY <1>1, <1>3, ShutdownWriteSound
<1>7. CheckFinished(cn, rcv, snd)
  BY DEF ReadEof
<1> HIDE DEF source, target
<1>8. /\ cn \in [Sides -> Connection] /\ cn[o] = target /\ cn[s] = source
      /\ \A t \in Sides : t = s \/ t = o
  BY <1>1, <1>4, <1>5, <1>6 DEF Pair, Sound, Sides
<1> HIDE DEF cn
<1>9. Pair(cn)
  BY <1>4, <1>5, <1>6, <1>8 DEF Pair, Sound, Sides
<1>10. Coupled(cn)
  <2>1. target.reading => source.output = <<>>
    BY <1>1, <1>3, <1>5, <1>6 DEF Coupled
  <2>2. source.shutdownRequested = target.receivedEof
    BY <1>1, <1>3, <1>5, <1>6 DEF Coupled
  <2>3. target.reading \/ target.receivedEof \/ source.output # <<>>
    BY <1>1, <1>3, <1>5, <1>6 DEF Coupled
  <2> QED BY <1>5, <1>6, <1>8, <2>1, <2>2, <2>3, CoupledEnds
<1>11. \A t \in Sides : cn[t].state = "Connected"
  BY <1>5, <1>6, <1>8
<1> QED BY <1>3, <1>4, <1>7, <1>9, <1>10, <1>11, FinishPreserves

\* Output goes to the kernel; when it is drained the other end is resumed.
LEMMA WriteOutputPreserves ==
  ASSUME Inv, NEW s \in Sides, WriteOutput(s)
  PROVE  SessionType' /\ SessionInv'
<1> DEFINE o == Other(s)
<1>1. o \in Sides /\ o # s /\ Other(o) = s
  BY DEF Sides, Other
<1>2. conn[s].state = "Connected" /\ conn[s].output # <<>>
  BY DEF WriteOutput, CanWrite
<1>3. /\ ~closed /\ connector = "Succeeded" /\ Coupled(conn)
      /\ \A t \in Sides : conn[t].state = "Connected" /\ Sound(conn[t])
  BY <1>2, AtWork
<1>4. SessionType /\ SessionInv /\ BuffersOK(rcv, snd) /\ Pair(conn)
  BY InvPair DEF Inv, SessionType
<1> DEFINE out == conn[s].output
<1>5. out \in Seq(Nat) /\ Len(out) \in Nat \ {0} /\ Len(out) <= BatchSize
  BY <1>2, <1>4, EmptySeq DEF Pair, Connection
<1>6. PICK taken \in Accepted(s, Len(out)) :
        LET target == Drained(conn[s], taken)
            sq     == [snd EXCEPT ![s] = @ \o SubSeq(out, 1, taken)]
        IN  IF target.output # <<>>
            THEN KeepSession([conn EXCEPT ![s] = target], rcv, sq)
            ELSE CheckFinished(Resume([conn EXCEPT ![s] = target], s), rcv, sq)
  BY DEF WriteOutput
<1> DEFINE target == Drained(conn[s], taken)
           sq     == [snd EXCEPT ![s] = @ \o SubSeq(out, 1, taken)]
           cn     == [conn EXCEPT ![s] = target]
<1>7. taken \in 0 .. Len(out) /\ Len(snd[s]) + taken <= SndCap
  BY <1>4, <1>5, AcceptedRange
<1>8. BuffersOK(rcv, sq)
  <2> HIDE DEF out
  <2>1. SubSeq(out, 1, taken) \in Seq(Nat) /\ Len(SubSeq(out, 1, taken)) = taken
    BY <1>5, <1>7, SliceProperties
  <2>2. snd[s] \in Seq(Nat) /\ Len(snd[s]) \in Nat
    BY <1>4, LenProperties DEF BuffersOK
  <2>3. snd[s] \o SubSeq(out, 1, taken) \in Seq(Nat)
        /\ Len(snd[s] \o SubSeq(out, 1, taken)) = Len(snd[s]) + taken
    BY <2>1, <2>2, ConcatProperties
  <2> QED BY <1>4, <1>7, <2>3 DEF BuffersOK
<1>9. /\ Sound(target) /\ target.state = "Connected"
      /\ target.reading = conn[s].reading
      /\ target.receivedEof = conn[s].receivedEof
      /\ target.shutdownRequested = conn[s].shutdownRequested
      /\ target.output \in Seq(Nat) /\ Len(target.output) = Len(out) - taken
  BY <1>2, <1>3, <1>7, DrainedSound
<1>10. Len(target.output) <= BatchSize
  <2>1. Len(target.output) <= Len(out)
    <3> HIDE DEF target, out
    <3> QED BY <1>5, <1>7, <1>9
  <2> HIDE DEF target, out
  <2> QED BY <1>5, <1>7, <1>9, <2>1, ConstantsAssumption
<1>11. conn[o].reading = FALSE
  BY <1>1, <1>2, <1>3 DEF Coupled, Sound, Connection
<1>12. CASE target.output # <<>>
  <2>1. KeepSession(cn, rcv, sq)
    BY <1>6, <1>12
  <2> HIDE DEF target, sq, out
  <2>2. /\ cn \in [Sides -> Connection] /\ cn[s] = target /\ cn[o] = conn[o]
        /\ \A t \in Sides : t = s \/ t = o
    BY <1>1, <1>4, <1>9 DEF Pair, Sound, Sides
  <2> HIDE DEF cn
  <2>3. Pair(cn)
    BY <1>4, <1>9, <1>10, <2>2 DEF Pair, Sound, Sides
  <2>4. Coupled(cn)
    BY <1>1, <1>2, <1>3, <1>9, <1>11, <1>12, <2>2 DEF Coupled
  <2>5. \A t \in Sides : cn[t].state = "Connected"
    BY <1>3, <1>9, <2>2
  <2> QED BY <1>3, <1>4, <1>8, <2>1, <2>3, <2>4, <2>5, KeepPreserves
<1>13. CASE target.output = <<>>
  <2> DEFINE other == StartRead(conn[o])
             rn    == Resume(cn, s)
  <2>1. CheckFinished(rn, rcv, sq)
    BY <1>6, <1>13
  <2> HIDE DEF target, sq, out
  <2>2. /\ Sound(other) /\ other.state = "Connected" /\ other.output = conn[o].output
        /\ other.receivedEof = conn[o].receivedEof
        /\ other.shutdownRequested = conn[o].shutdownRequested
        /\ other.reading = ~conn[o].receivedEof
    BY <1>1, <1>3, StartReadSound
  <2>3. rn = [conn EXCEPT ![s] = target, ![o] = other]
    BY <1>1, <1>4 DEF Resume, Pair
  <2> HIDE DEF rn, other, cn
  <2>4. /\ rn \in [Sides -> Connection] /\ rn[s] = target /\ rn[o] = other
        /\ \A t \in Sides : t = s \/ t = o
    BY <1>1, <1>4, <1>9, <2>2, <2>3 DEF Pair, Sound, Sides
  <2>5. Pair(rn)
    BY <1>1, <1>4, <1>9, <1>10, <2>2, <2>4 DEF Pair, Sound, Sides
  <2>6. Coupled(rn)
    <3>1. target.reading => other.output = <<>>
      BY <1>1, <1>3, <1>9, <2>2 DEF Coupled
    <3>2. other.shutdownRequested = target.receivedEof
          /\ target.shutdownRequested = other.receivedEof
      BY <1>1, <1>3, <1>9, <2>2 DEF Coupled
    <3>3. target.reading \/ target.receivedEof \/ other.output # <<>>
      BY <1>1, <1>3, <1>9, <2>2 DEF Coupled
    <3>4. other.reading \/ other.receivedEof
      BY <1>1, <1>3, <2>2 DEF Sound, Connection
    <3> QED BY <1>13, <2>4, <3>1, <3>2, <3>3, <3>4, CoupledEnds
  <2>7. \A t \in Sides : rn[t].state = "Connected"
    BY <1>9, <2>2, <2>4
  <2> QED BY <1>3, <1>4, <1>8, <2>1, <2>5, <2>6, <2>7, FinishPreserves
<1> QED BY <1>12, <1>13

\* Every callback of a connection keeps the invariant.
LEMMA CallbackPreserves ==
  ASSUME Inv, NEW s \in Sides, Callback(s)
  PROVE  Inv'
<1>1. LoopType'
  <2>1. \E ev \in Event : Dispatch(s, ev)
    BY DEF Callback, HandleClose, ReadSkipped, ReadMessage, ReadEof, ReadError,
           WriteSkipped, WriteOutput, WriteError, Event
  <2> QED BY <2>1, DispatchType DEF Inv, Channels
<1>2. CASE Abort
  BY <1>1, <1>2, AbortPreserves DEF Inv
<1>3. CASE Untouched
  BY <1>1, <1>3, UntouchedPreserves DEF Inv
<1>4. CASE ReadMessage(s)
  BY <1>1, <1>4, ReadMessagePreserves DEF Inv
<1>5. CASE ReadEof(s)
  BY <1>1, <1>5, ReadEofPreserves DEF Inv
<1>6. CASE WriteOutput(s)
  BY <1>1, <1>6, WriteOutputPreserves DEF Inv
<1> QED BY <1>2, <1>3, <1>4, <1>5, <1>6
       DEF Callback, HandleClose, ReadSkipped, ReadError, WriteSkipped, WriteError

\* So does every callback of the connector and of its timer.
LEMMA ConnectorPreserves ==
  ASSUME Inv, ConnectorError \/ ConnectorWrite \/ ConnectorTimeout
  PROVE  Inv'
<1>1. LoopType'
  <2>1. \E ch \in Channels, ev \in Event : Dispatch(ch, ev)
    BY DEF ConnectorError, ConnectorWrite, ConnectorTimeout, Event, Channels
  <2> QED BY <2>1, DispatchType DEF Inv
<1>2. CASE FailConnect
  BY <1>1, <1>2, AbortPreserves DEF Inv
<1>3. CASE UNCHANGED <<session, retained, timer, wire, rcv, snd>>
  BY <1>1, <1>3, UntouchedPreserves DEF Inv, Untouched
<1>4. CASE connector = "Connecting" /\ BackendConnected(conn) /\ UNCHANGED <<wire, rcv, snd>>
  <2>1. /\ ~closed /\ owned
        /\ conn["client"].state = "Connected" /\ conn["client"].output = <<>>
        /\ ~conn["client"].receivedEof /\ ~conn["client"].shutdownRequested
    BY <1>4 DEF Inv, SessionInv, Lifecycle, Sides, IsOpen
  <2>2. SessionType /\ Pair(conn)
    BY InvPair DEF Inv
  <2>3. wire' \in [Sides -> {"none", "open", "fin", "rst"}]
    BY <1>4, <2>2 DEF SessionType
  <2> QED BY <1>1, <1>4, <2>1, <2>2, <2>3, ConnectedPreserves DEF Inv
<1>5. CASE connector = "Connecting" /\ ConnectorWrite
  BY <1>2, <1>4, <1>5 DEF ConnectorWrite
<1>6. CASE connector # "Connecting" /\ ConnectorWrite
  BY <1>3, <1>6 DEF ConnectorWrite
<1> QED BY <1>2, <1>3, <1>5, <1>6 DEF ConnectorError, ConnectorTimeout

\* The loop's own steps: a batch begins, a batch ends, the program ends.
LEMMA LoopPreserves ==
  ASSUME Inv, Poll \/ RunPendingFunctors \/ Stop
  PROVE  Inv'
<1>1. CASE Poll
  <2>1. ready' \in [Channels -> SUBSET Event]
    BY <1>1 DEF Poll, ReadyEvents, ReadyConnection, ReadyConnector, Event, Channels
  <2> QED BY <1>1, <2>1 DEF Poll, Inv, SessionType, LoopType, SessionInv, Lifecycle,
            Coupling, session, kernel, peers
<1>2. CASE RunPendingFunctors
  BY <1>2 DEF RunPendingFunctors, Inv, SessionType, LoopType, SessionInv, Lifecycle,
            Coupling, session, kernel, peers
<1>3. CASE Stop
  <2>1. LoopType'
    BY <1>3 DEF Stop, Inv, LoopType, peers
  <2>2. CASE closed
    BY <1>3, <2>1, <2>2, UntouchedPreserves DEF Stop, Inv, Untouched
  <2>3. CASE ~closed
    BY <1>3, <2>1, <2>3, AbortPreserves DEF Stop, Abort, Inv
  <2> QED BY <2>2, <2>3
<1> QED BY <1>1, <1>2, <1>3

\* The network and the peers touch the kernel's buffers only.
LEMMA EnvironmentPreserves ==
  ASSUME Inv, Environment
  PROVE  Inv'
<1>1. UNCHANGED <<session, loop>>
  BY DEF Environment, Connect, ThreeSecondsPass, PeerSend, PeerFin, PeerReset, PeerRead,
         PeerReadEof
<1>2. SessionInv'
  BY <1>1 DEF Inv, SessionInv, Lifecycle, Coupling, session
<1>3. SUFFICES /\ wire' \in [Sides -> {"none", "open", "fin", "rst"}]
               /\ BuffersOK(rcv', snd')
               /\ dial' \in {"none", "pending", "ok", "failed"}
               /\ timedOut' \in BOOLEAN
               /\ fin' \in [Sides -> BOOLEAN]
               /\ err' \in [Sides -> BOOLEAN]
               /\ sent' \in [Sides -> Seq(Nat)]
               /\ got' \in [Sides -> Seq(Nat)]
               /\ eof' \in [Sides -> BOOLEAN]
  BY <1>1, <1>2 DEF Inv, SessionType, LoopType, session, loop
<1> USE DEF Inv, SessionType, LoopType
<1>4. CASE Connect("ok") \/ Connect("failed")
  BY <1>4 DEF Connect, peers
<1>5. CASE ThreeSecondsPass
  BY <1>5 DEF ThreeSecondsPass, peers
<1>6. ASSUME NEW s \in Sides, PeerSend(s)
      PROVE  BuffersOK(rcv', snd') /\ sent' \in [Sides -> Seq(Nat)]
  <2>1. /\ rcv[s] \in Seq(Nat) /\ Len(rcv[s]) \in Nat
        /\ sent[s] \in Seq(Nat) /\ Len(sent[s]) \in Nat
    BY LenProperties DEF BuffersOK
  <2>2. /\ Append(rcv[s], Len(sent[s]) + 1) \in Seq(Nat)
        /\ Len(Append(rcv[s], Len(sent[s]) + 1)) = Len(rcv[s]) + 1
        /\ Append(sent[s], Len(sent[s]) + 1) \in Seq(Nat)
    BY <2>1, AppendProperties
  <2>3. sent' \in [Sides -> Seq(Nat)]
    BY <1>6, <2>2 DEF PeerSend
  <2>4. rcv' = [rcv EXCEPT ![s] = Append(rcv[s], Len(sent[s]) + 1)] /\ snd' = snd
        /\ Len(rcv[s]) < RcvCap
    BY <1>6 DEF PeerSend
  <2>5. Len(rcv[s]) + 1 <= RcvCap
    BY <2>1, <2>4, ConstantsAssumption
  <2> QED BY <2>2, <2>3, <2>4, <2>5 DEF BuffersOK
<1>7. ASSUME NEW s \in Sides, PeerReset(s)
      PROVE  BuffersOK(rcv', snd') /\ err' \in [Sides -> BOOLEAN]
  <2>1. <<>> \in Seq(Nat) /\ Len(<<>>) <= SndCap
    BY ConstantsAssumption
  <2> QED BY <1>7, <2>1 DEF PeerReset, BuffersOK
<1>8. ASSUME NEW s \in Sides, PeerRead(s)
      PROVE  BuffersOK(rcv', snd') /\ got' \in [Sides -> Seq(Nat)]
  <2>1. snd[s] \in Seq(Nat) /\ snd[s] # <<>> /\ got[s] \in Seq(Nat)
    BY <1>8 DEF PeerRead, BuffersOK
  <2>2. /\ Head(snd[s]) \in Nat /\ Tail(snd[s]) \in Seq(Nat)
        /\ Len(Tail(snd[s])) = Len(snd[s]) - 1 /\ Len(snd[s]) \in Nat
    BY <2>1, HeadTailProperties, LenProperties
  <2>3. got' \in [Sides -> Seq(Nat)]
    BY <1>8, <2>1, <2>2, AppendProperties DEF PeerRead
  <2>4. Len(Tail(snd[s])) <= SndCap
    BY <2>2, ConstantsAssumption DEF BuffersOK
  <2> QED BY <1>8, <2>2, <2>3, <2>4 DEF PeerRead, BuffersOK
<1>9. ASSUME NEW s \in Sides, PeerFin(s) \/ PeerReadEof(s)
      PROVE  /\ UNCHANGED <<wire, rcv, snd, dial, timedOut, err, sent, got>>
             /\ fin' \in [Sides -> BOOLEAN] /\ eof' \in [Sides -> BOOLEAN]
  <2>1. CASE PeerFin(s)
    BY <2>1 DEF PeerFin, peers, kernel
  <2>2. CASE PeerReadEof(s)
    BY <2>2 DEF PeerReadEof, peers, kernel
  <2> QED BY <1>9, <2>1, <2>2
<1>10. CASE \E s \in Sides : PeerSend(s)
  BY <1>6, <1>10 DEF PeerSend
<1>11. CASE \E s \in Sides : PeerReset(s)
  BY <1>7, <1>11 DEF PeerReset, peers
<1>12. CASE \E s \in Sides : PeerRead(s)
  BY <1>8, <1>12 DEF PeerRead
<1>13. CASE \E s \in Sides : PeerFin(s) \/ PeerReadEof(s)
  BY <1>9, <1>13
<1> QED BY <1>4, <1>5, <1>10, <1>11, <1>12, <1>13 DEF Environment

-----------------------------------------------------------------------------
(* The theorems                                                            *)

\* A session about to start satisfies the invariant.
LEMMA InvInit == Init => Inv
<1> SUFFICES ASSUME Init PROVE Inv
  OBVIOUS
<1>1. \A s \in Sides : Sound(conn[s]) /\ conn[s].output = <<>> /\ ~conn[s].reading
  BY BlankSound DEF Init, Sides, Blank
<1>2. /\ conn["client"] = Blank("Connecting") /\ conn["backend"] = Blank("None")
      /\ conn \in [Sides -> Connection]
  BY <1>1 DEF Init, Sides, Sound
<1>3. Len(<<>>) <= BatchSize /\ Len(<<>>) <= RcvCap /\ Len(<<>>) <= SndCap
  BY ConstantsAssumption
<1>4. SessionType /\ LoopType
  <2>1. BuffersOK(rcv, snd)
    BY <1>3 DEF Init, BuffersOK
  <2>2. SessionType
    BY <1>2, <2>1 DEF Init, SessionType, ConnectorStates
  <2>3. ready \in [Channels -> SUBSET Event] /\ fin \in [Sides -> BOOLEAN]
        /\ err \in [Sides -> BOOLEAN] /\ eof \in [Sides -> BOOLEAN]
    BY DEF Init
  <2>4. sent \in [Sides -> Seq(Nat)] /\ got \in [Sides -> Seq(Nat)]
    BY DEF Init
  <2>5. LoopType
    BY <2>3, <2>4 DEF Init, LoopType
  <2> QED BY <2>2, <2>5
<1>5. Lifecycle
  BY <1>2 DEF Init, Lifecycle, Blank, IsOpen, Sides
<1>6. Coupling
  BY <1>1, <1>3 DEF Init, Coupling
<1> QED BY <1>1, <1>4, <1>5, <1>6 DEF Inv, SessionInv, Sound

\* Every step keeps it.
LEMMA InvNext == Inv /\ [Next]_vars => Inv'
<1> SUFFICES ASSUME Inv, [Next]_vars PROVE Inv'
  OBVIOUS
<1>1. CASE Start
  BY <1>1, StartPreserves
<1>2. CASE Poll \/ RunPendingFunctors \/ Stop
  BY <1>2, LoopPreserves
<1>3. CASE ConnectorError \/ ConnectorWrite \/ ConnectorTimeout
  BY <1>3, ConnectorPreserves
<1>4. CASE \E s \in Sides : Callback(s)
  BY <1>4, CallbackPreserves
<1>5. CASE Environment
  BY <1>5, EnvironmentPreserves
<1>6. CASE UNCHANGED vars
  BY <1>6 DEF Inv, SessionType, LoopType, SessionInv, Lifecycle, Coupling, vars, session,
              loop, kernel, peers
<1> QED BY <1>1, <1>2, <1>3, <1>4, <1>5, <1>6 DEF Next, LoopStep

\* The inductive invariant holds throughout every behaviour.
THEOREM Invariance == Spec => []Inv
  BY InvInit, InvNext, PTL DEF Spec

\* Type correctness, and no socket buffer beyond its capacity.
THEOREM TypeCorrect == Spec => []TypeOK
<1>1. Inv => TypeOK
  BY TypeSplit DEF Inv
<1> QED BY <1>1, Invariance, PTL

\* Epoll's interest, the flags of both ends and the session's state agree.
THEOREM SessionSound == Spec => []SessionInv
<1>1. Inv => SessionInv
  BY DEF Inv
<1> QED BY <1>1, Invariance, PTL

\* However large the buffers and however slow a peer, no more than one read
\* batch waits in user space (OnClientMessage's back-pressure).
THEOREM OutputIsBounded == Spec => []BoundedOutput
<1>1. Inv => BoundedOutput
  BY DEF Inv, SessionInv, Coupling, BoundedOutput
<1> QED BY <1>1, Invariance, PTL

\* A source that StopRead has paused is never forgotten by epoll.
THEOREM PausedSourceIsResumable == Spec => []PausedIsResumable
<1>1. Inv => PausedIsResumable
  <2> SUFFICES ASSUME Inv, NEW s \in Sides, conn[s].state = "Connected",
                      connector = "Succeeded", ~conn[s].reading, ~conn[s].receivedEof
               PROVE  LET o == conn[Other(s)]
                      IN  o.output # <<>> /\ "OUT" \in o.events /\ o.added
    BY DEF PausedIsResumable
  <2>1. ~closed
    BY DEF Inv, SessionInv, Lifecycle, IsOpen
  <2>2. Other(s) \in Sides /\ \A t \in Sides : conn[t].state = "Connected"
    BY <2>1 DEF Inv, SessionInv, Lifecycle, Sides, Other, IsOpen
  <2>3. conn[Other(s)].output # <<>>
    BY <2>1 DEF Inv, SessionInv, Coupling
  <2> QED BY <2>2, <2>3 DEF Inv, SessionInv, WellFormed
<1> QED BY <1>1, Invariance, PTL

\* A half-closed end is being read, so EPOLLHUP never cuts it off.
THEOREM HalfClosedEndIsReading == Spec => []HalfClosedIsReading
<1>1. Inv => HalfClosedIsReading
  <2> SUFFICES ASSUME Inv, NEW s \in Sides, conn[s].added, conn[s].writeShutdown
               PROVE  "IN" \in conn[s].events
    BY DEF HalfClosedIsReading
  <2>1. WellFormed(conn[s]) /\ conn[s].state \in ConnState
    BY InvPair DEF Sound, Connection
  <2>2. conn[s].state = "Connected"
    BY <2>1 DEF WellFormed, Blank, ConnState
  <2>3. conn[s].events # {} /\ "OUT" \notin conn[s].events /\ conn[s].events \subseteq Interest
    BY <2>1, <2>2, InvPair DEF WellFormed, Sound, Connection
  <2> QED BY <2>3 DEF Interest
<1> QED BY <1>1, Invariance, PTL

\* The three parts of the back-pressure, for every capacity and batch size.
THEOREM FlowIsControlled == Spec => []FlowControl
<1>1. BoundedOutput /\ PausedIsResumable /\ HalfClosedIsReading => FlowControl
  BY DEF FlowControl
<1> QED BY <1>1, OutputIsBounded, PausedSourceIsResumable, HalfClosedEndIsReading, PTL

\* No destructor of the session meets a channel that epoll still knows.
THEOREM DestroyedUnregistered == Spec => []DestroyedIsUnregistered
<1>1. Inv => DestroyedIsUnregistered
  <2> SUFFICES ASSUME Inv PROVE DestroyedIsUnregistered
    OBVIOUS
  <2>1. ~SessionAlive => closed
    BY DEF Inv, SessionInv, Lifecycle, SessionAlive, SessionType
  <2>2. ~ConnectorAlive => connector # "Connecting"
    BY <2>1 DEF Inv, SessionInv, Lifecycle, ConnectorAlive
  <2>3. \A s \in Sides : ~ConnectionAlive(s) => ~conn[s].added
    <3> SUFFICES ASSUME NEW s \in Sides, ~ConnectionAlive(s) PROVE ~conn[s].added
      OBVIOUS
    <3>1. closed /\ ~IsOpen(conn[s])
      BY <2>1 DEF ConnectionAlive, Inv, SessionInv, Lifecycle
    <3>2. conn[s].state \in {"None", "Disconnected"} /\ WellFormed(conn[s])
      BY <3>1, InvPair DEF Sound, Connection, ConnState, IsOpen
    <3>3. conn[s].state = "None" => ~conn[s].added
      BY <3>2 DEF WellFormed, Blank
    <3> QED BY <3>2, <3>3 DEF WellFormed
  <2> QED BY <2>1, <2>2, <2>3 DEF DestroyedIsUnregistered
<1> QED BY <1>1, Invariance, PTL

\* Whatever callbacks are left over in the batch, a closed session stays as
\* Close() left it.
THEOREM ClosedStaysInert == Spec => ClosedIsInert
<1>1. Inv /\ [Next]_vars => [closed => UNCHANGED session]_vars
  <2> SUFFICES ASSUME Inv, Next, closed PROVE UNCHANGED session
    BY DEF vars
  <2>1. /\ \A s \in Sides : conn[s].state \notin {"Connecting", "Connected"}
        /\ connector \notin {"Idle", "Connecting"}
    BY DEF Inv, SessionInv, Lifecycle, IsOpen
  <2>2. ~Start
    BY <2>1 DEF Start, StartConnected, StartPending, StartRefused, StartThrows, StartCall, Sides
  <2>3. \A s \in Sides : Callback(s) => Untouched
    BY <2>1 DEF Callback, HandleClose, ReadSkipped, ReadMessage, ReadEof, ReadError, IsOpen,
           WriteSkipped, WriteOutput, WriteError, CanRead, CanWrite
  <2>4. ConnectorError \/ ConnectorWrite \/ ConnectorTimeout => UNCHANGED session
    BY <2>1 DEF ConnectorError, ConnectorWrite, ConnectorTimeout
  <2>5. Poll \/ RunPendingFunctors \/ Stop => UNCHANGED session
    BY DEF Poll, RunPendingFunctors, Stop
  <2>6. Environment => UNCHANGED session
    BY DEF Environment, Connect, ThreeSecondsPass, PeerSend, PeerFin, PeerReset, PeerRead,
           PeerReadEof
  <2> QED BY <2>2, <2>3, <2>4, <2>5, <2>6 DEF Next, LoopStep, Untouched
<1> QED BY <1>1, Invariance, PTL DEF Spec, ClosedIsInert

-----------------------------------------------------------------------------
(* Events, their causes and their owners                                   *)

\* Events wait in a batch only, and only while the session is held.
BatchInv ==
  /\ conn["client"].state = "Connecting" => phase = "dispatch"
  /\ conn["client"].state = "Connecting" \/ phase # "dispatch" =>
       \A ch \in Channels : ready[ch] = {}
  /\ \A ch \in Channels : ready[ch] # {} => SessionAlive
  /\ ready["connector"] # {} => connector # "Succeeded"

\* What the kernel, the timer and the program's phase say of the session.
KernelInv ==
  /\ ~closed => phase # "exited" 
  /\ closed => timer # "armed"
  /\ wire["client"] # "none"
  /\ dial = "ok" => wire["backend"] # "none"
  /\ connector = "Succeeded" => dial = "ok"

\* A reset peer gets nothing more; a FIN is sent, and an end of stream read,
\* only where the connection says so.
EndInv ==
  /\ \A s \in Sides : err[s] => snd[s] = <<>>
  /\ ~closed =>
       \A s \in Sides :
         /\ wire[s] = "fin" => conn[s].writeShutdown
         /\ conn[s].receivedEof => fin[s] /\ rcv[s] = <<>>

\* An event of the batch has the cause that its callback will act upon.
EventInv ==
  /\ \A s \in Sides : ~closed /\ "CLOSE" \in ready[s] => err[s]
  /\ connector = "Connecting" =>
       /\ "CLOSE" \in ready["connector"] => dial = "failed" \/ err["backend"]
       /\ "OUT" \in ready["connector"] => dial \in {"ok", "failed"}
  /\ "IN" \in ready["timer"] => timedOut

CauseInv == BatchInv /\ KernelInv /\ EndInv /\ EventInv

-----------------------------------------------------------------------------
(* Queues                                                                  *)

\* What the session and the kernel hold of the bytes peer s has sent.
Queue(s) == Stream(<<>>, snd[Other(s)], conn[Other(s)].output, rcv[s])

\* The parts of a queue are sequences.
LEMMA QueueType ==
  ASSUME Inv, NEW s \in Sides
  PROVE  /\ Other(s) \in Sides /\ Other(s) # s /\ Other(Other(s)) = s
         /\ got[s] \in Seq(Nat) /\ snd[s] \in Seq(Nat) /\ rcv[s] \in Seq(Nat)
         /\ sent[s] \in Seq(Nat)
         /\ conn[s].output \in Seq(Nat)
         /\ Queue(s) \in Seq(Nat)
<1>1. Other(s) \in Sides /\ Other(s) # s /\ Other(Other(s)) = s
  BY DEF Sides, Other
<1>2. \A t \in Sides :
        /\ got[t] \in Seq(Nat) /\ snd[t] \in Seq(Nat) /\ rcv[t] \in Seq(Nat)
        /\ sent[t] \in Seq(Nat) /\ conn[t].output \in Seq(Nat)
  BY DEF Inv, SessionType, LoopType, BuffersOK, Connection
<1>3. <<>> \in Seq(Nat)
  BY EmptySeq
<1>4. Queue(s) \in Seq(Nat)
  BY <1>1, <1>2, <1>3, CatProperties DEF Queue, Stream
<1> QED BY <1>1, <1>2, <1>4

\* A stream is what was read of it, and the queue behind it.
LEMMA StreamIsQueue ==
  ASSUME NEW S, NEW g \in Seq(S), NEW w \in Seq(S), NEW out \in Seq(S), NEW r \in Seq(S)
  PROVE  /\ Stream(<<>>, w, out, r) = Cat(Cat(w, out), r)
         /\ Stream(g, w, out, r) = Cat(g, Stream(<<>>, w, out, r))
<1>1. Cat(<<>>, w) = w
  BY ConcatEmptySeq DEF Cat
<1>2. Cat(Cat(Cat(g, w), out), r) = Cat(g, Cat(Cat(w, out), r))
  <2>1. Cat(g, w) \in Seq(S) /\ Cat(w, out) \in Seq(S)
    BY CatProperties
  <2>2. Cat(Cat(g, w), out) = Cat(g, Cat(w, out))
    BY CatProperties
  <2> QED BY <2>1, <2>2, CatProperties
<1> QED BY <1>1, <1>2 DEF Stream

\* StreamIntact, in terms of queues.
Whole ==
  \A s \in Sides : ~closed /\ ~err[Other(s)] => sent[s] = Cat(got[Other(s)], Queue(s))

\* The two say the same.
LEMMA IntactQueue ==
  ASSUME Inv
  PROVE  StreamIntact <=> Whole
<1>1. \A s \in Sides :
        Stream(got[Other(s)], snd[Other(s)], conn[Other(s)].output, rcv[s])
          = Cat(got[Other(s)], Queue(s))
  <2> SUFFICES ASSUME NEW s \in Sides
               PROVE  Stream(got[Other(s)], snd[Other(s)], conn[Other(s)].output, rcv[s])
                        = Cat(got[Other(s)], Queue(s))
    OBVIOUS
  <2> DEFINE o == Other(s)
  <2>1. o \in Sides /\ rcv[s] \in Seq(Nat)
    BY QueueType
  <2>2. got[o] \in Seq(Nat) /\ snd[o] \in Seq(Nat) /\ conn[o].output \in Seq(Nat)
    BY <2>1, QueueType
  <2>3. ASSUME NEW out \in Seq(Nat)
        PROVE  Stream(got[o], snd[o], out, rcv[s])
                 = Cat(got[o], Stream(<<>>, snd[o], out, rcv[s]))
    BY <2>1, <2>2, StreamIsQueue
  <2> QED BY <2>2, <2>3 DEF Queue
<1>2. StreamIntact <=>
        \A s \in Sides : ~closed /\ ~err[Other(s)] =>
          sent[s] = Stream(got[Other(s)], snd[Other(s)], conn[Other(s)].output, rcv[s])
  BY DEF StreamIntact, Delivered, Stream, Cat
<1> QED BY <1>1, <1>2 DEF Whole

\* The same of the state after a step.
LEMMA IntactNext == Inv' => (StreamIntact' <=> Whole')
<1>1. Inv => (StreamIntact <=> Whole)
  BY IntactQueue
<1> QED BY <1>1, PTL

-----------------------------------------------------------------------------
(* What a step of the proxy does to the queues                             *)

\* Nothing ...
Quiet == UNCHANGED <<session, wire, rcv, snd>>

\* ... it moves bytes along them and leaves the session open ...
Kept ==
  /\ ~closed /\ ~closed'
  /\ \A s \in Sides :
       /\ Queue(s)' = Queue(s)
       /\ err[s] => snd'[s] = snd[s]
       /\ wire'[s] = "fin" => wire[s] = "fin" \/ conn'[s].writeShutdown
       /\ conn[s].writeShutdown => conn'[s].writeShutdown
       /\ conn'[s].receivedEof => fin[s] /\ rcv'[s] = <<>>

\* ... it closes the session after the end of both streams ...
Ended ==
  /\ ~closed /\ closed'
  /\ connector' = "Succeeded"
  /\ \A s \in Sides :
       /\ fin[s] /\ wire'[s] = "fin" /\ conn'[s].output = <<>> /\ rcv'[s] = <<>>
       /\ Queue(s)' = Queue(s)
       /\ err[s] => snd'[s] = snd[s]

\* ... or it cuts the session short, for a cause.
Cut ==
  /\ ~closed /\ closed'
  /\ Fault'
  /\ \A s \in Sides : snd'[s] \in {snd[s], <<>>}

\* What a callback may leave behind: connections cn over the buffers rq and sq.
Moved(cn, rq, sq) ==
  /\ cn \in [Sides -> Connection]
  /\ \A s \in Sides :
       /\ Stream(<<>>, sq[Other(s)], cn[Other(s)].output, rq[s]) = Queue(s)
       /\ err[s] => sq[s] = snd[s]
       /\ conn[s].writeShutdown => cn[s].writeShutdown
       /\ cn[s].receivedEof => fin[s] /\ rq[s] = <<>>

\* A callback that leaves the session open keeps the queues.
LEMMA KeepIsKept ==
  ASSUME Inv, ~closed, NEW cn, NEW rq, NEW sq, Moved(cn, rq, sq), KeepSession(cn, rq, sq)
  PROVE  Kept
<1>1. conn' = cn /\ rcv' = rq /\ snd' = sq /\ closed' = closed
  BY DEF KeepSession
<1>2. \A s \in Sides : wire'[s] = "fin" => wire[s] = "fin" \/ conn'[s].writeShutdown
  BY <1>1 DEF KeepSession, WireAfter
<1>3. \A s \in Sides : Queue(s)' = Queue(s)
  BY <1>1 DEF Moved, Queue
<1> QED BY <1>1, <1>2, <1>3 DEF Kept, Moved

\* A callback that may have been the last one either keeps or ends them.
LEMMA FinishIsEnded ==
  ASSUME Inv, CauseInv, ~closed, connector = "Succeeded",
         NEW cn, NEW rq, NEW sq, Moved(cn, rq, sq), CheckFinished(cn, rq, sq)
  PROVE  Kept \/ Ended
<1>1. CASE KeepSession(cn, rq, sq)
  BY <1>1, KeepIsKept
<1>2. CASE Finished(cn) /\ CloseSession(cn, connector, rq, sq)
  <2>1. \A s \in Sides : fin[s] /\ rq[s] = <<>> /\ cn[s].output = <<>>
    BY <1>2 DEF Finished, Moved
  <2>2. \A s \in Sides : wire[s] # "none"
    BY DEF CauseInv, KernelInv, Sides
  <2>3. closed' /\ connector' = "Succeeded" /\ rcv' = rq
    BY <1>2 DEF CloseSession
  <2>4. \A s \in Sides : wire'[s] = "fin" /\ snd'[s] = sq[s]
    BY <1>2, <2>1, <2>2 DEF CloseSession
  <2>5. \A s \in Sides : conn'[s].output = <<>>
    <3>1. conn' = [s \in Sides |-> ForceClose(cn[s])]
      BY <1>2 DEF CloseSession
    <3> QED BY <2>1, <3>1 DEF ForceClose, Remove, Moved, Connection
  <2>6. \A s \in Sides : Other(s) \in Sides
    BY QueueType
  <2>7. \A s \in Sides : Queue(s)' = Queue(s)
    <3> SUFFICES ASSUME NEW s \in Sides PROVE Queue(s)' = Queue(s)
      OBVIOUS
    <3>1. Queue(s)' = Stream(<<>>, snd'[Other(s)], conn'[Other(s)].output, rcv'[s])
      BY DEF Queue
    <3>2. Stream(<<>>, sq[Other(s)], cn[Other(s)].output, rq[s]) = Queue(s)
      BY DEF Moved
    <3> QED BY <2>1, <2>3, <2>4, <2>5, <2>6, <3>1, <3>2
  <2> QED BY <2>1, <2>3, <2>4, <2>5, <2>7 DEF Ended, Moved
<1> QED BY <1>1, <1>2 DEF CheckFinished

\* A callback that closes the session on an error cuts the queues.
LEMMA CloseIsCut ==
  ASSUME Inv, ~closed, Fault', NEW cn, NEW k, NEW rq, CloseSession(cn, k, rq, snd)
  PROVE  Cut
  BY DEF Cut, CloseSession

\* ReadMessage hands a batch over, in one part or two, or finds a reset peer.
LEMMA ReadMessageMoves ==
  ASSUME Inv, CauseInv, NEW s \in Sides, ReadMessage(s)
  PROVE  Kept \/ Cut
<1> DEFINE o    == Other(s)
           n    == Lesser(BatchSize, Len(rcv[s]))
           data == SubSeq(rcv[s], 1, n)
           rest == SubSeq(rcv[s], n + 1, Len(rcv[s]))
<1>1. o \in Sides /\ o # s /\ Other(o) = s /\ \A t \in Sides : t = s \/ t = o
  BY DEF Sides, Other
<1>2. conn[s].state = "Connected" /\ conn[s].reading /\ rcv[s] # <<>>
  BY DEF ReadMessage, CanRead
<1>3. /\ ~closed /\ Coupled(conn)
      /\ \A t \in Sides : conn[t].state = "Connected" /\ Sound(conn[t])
  BY <1>2, AtWork
<1>4. conn[o].output = <<>> /\ ~Drops(conn[o]) /\ ~conn[s].receivedEof
  <2>1. ~conn[s].receivedEof
    BY <1>2, <1>3 DEF Sound, WellFormed
  <2> QED BY <1>1, <1>2, <1>3, <2>1 DEF Coupled, Drops
<1>5. UNCHANGED <<err, phase>>
  BY DEF ReadMessage, Dispatch
<1>6. /\ rcv[s] \in Seq(Nat) /\ Len(rcv[s]) \in Nat \ {0} /\ n \in 1 .. Len(rcv[s])
  BY <1>2, EmptySeq, ConstantsAssumption, QueueType DEF Lesser
<1> HIDE DEF n
<1>7. data \in Seq(Nat) /\ Len(data) = n /\ rest \in Seq(Nat) /\ Cat(data, rest) = rcv[s]
  <2>1. Cat(data, rest) = rcv[s]
    BY <1>6, SplitSeq
  <2>2. /\ n \in 0 .. Len(rcv[s]) /\ n + 1 \in Nat /\ n + 1 <= Len(rcv[s]) + 1
        /\ Len(rcv[s]) \in 0 .. Len(rcv[s])
    BY <1>6
  <2>3. data \in Seq(Nat) /\ Len(data) = n
    BY <1>6, <2>2, SliceProperties
  <2>4. rest \in Seq(Nat)
    BY <1>6, <2>2, SliceProperties
  <2> QED BY <2>1, <2>3, <2>4
<1>8. \/ err[o] /\ CloseSession(conn, connector, [rcv EXCEPT ![s] = rest], snd)
      \/ ~err[o] /\ \E taken \in Accepted(o, n) :
           LET target == Send(conn[o], data, taken)
           IN  KeepSession([conn EXCEPT ![o] = target, ![s] = PauseSource(@, target)],
                           [rcv EXCEPT ![s] = rest],
                           [snd EXCEPT ![o] = @ \o SubSeq(data, 1, taken)])
  BY <1>4 DEF ReadMessage, n
<1>9. CASE err[o] /\ CloseSession(conn, connector, [rcv EXCEPT ![s] = rest], snd)
  <2>1. Fault'
    BY <1>1, <1>5, <1>9 DEF Fault
  <2> QED BY <1>3, <1>9, <2>1, CloseIsCut
<1>10. ASSUME ~err[o], NEW taken \in Accepted(o, n),
              KeepSession([conn EXCEPT ![o] = Send(conn[o], data, taken),
                                       ![s] = PauseSource(@, Send(conn[o], data, taken))],
                          [rcv EXCEPT ![s] = rest],
                          [snd EXCEPT ![o] = @ \o SubSeq(data, 1, taken)])
       PROVE  Kept
  <2> DEFINE target == Send(conn[o], data, taken)
             source == PauseSource(conn[s], target)
             cn     == [conn EXCEPT ![o] = target, ![s] = source]
             rq     == [rcv EXCEPT ![s] = rest]
             sq     == [snd EXCEPT ![o] = @ \o SubSeq(data, 1, taken)]
  <2>1. taken \in 0 .. n
    BY <1>1, <1>6, AcceptedRange DEF Inv, SessionType
  <2>2. /\ target.output = SubSeq(data, taken + 1, Len(data)) /\ target \in Connection
        /\ target.writeShutdown = conn[o].writeShutdown
        /\ target.receivedEof = conn[o].receivedEof
    <3> HIDE DEF data
    <3>1. /\ target.output = conn[o].output \o SubSeq(data, taken + 1, Len(data))
          /\ target.writeShutdown = conn[o].writeShutdown
          /\ target.receivedEof = conn[o].receivedEof /\ target \in Connection
      BY <1>1, <1>3, <1>4, <1>7, <2>1, SendSound DEF Sound
    <3>2. SubSeq(data, taken + 1, Len(data)) \in Seq(Nat)
      BY <1>6, <1>7, <2>1, SubSeqIsSeq
    <3> QED BY <1>4, <3>1, <3>2, ConcatEmptySeq
  <2>3. /\ source.output = conn[s].output /\ source \in Connection
        /\ source.writeShutdown = conn[s].writeShutdown
        /\ source.receivedEof = conn[s].receivedEof
    BY <1>3, StopReadSound DEF PauseSource, Sound
  <2>4. /\ cn \in [Sides -> Connection] /\ cn[o] = target /\ cn[s] = source
        /\ rq[s] = rest /\ rq[o] = rcv[o]
        /\ sq[o] = Cat(snd[o], SubSeq(data, 1, taken)) /\ sq[s] = snd[s]
    BY <1>1, <2>2, <2>3 DEF Inv, SessionType, BuffersOK, Cat
  <2>5. KeepSession(cn, rq, sq)
    BY <1>10
  <2> HIDE DEF target, source, cn, rq, sq
  <2>6. Stream(<<>>, sq[s], cn[s].output, rq[o]) = Queue(o)
    BY <1>1, <2>3, <2>4 DEF Queue
  <2>7. Stream(<<>>, sq[o], cn[o].output, rq[s]) = Queue(s)
    <3>1. Queue(s) = Stream(<<>>, snd[o], <<>>, Cat(data, rest))
      BY <1>4, <1>7 DEF Queue
    <3>2. /\ <<>> \in Seq(Nat) /\ snd[o] \in Seq(Nat) /\ taken \in 0 .. Len(data)
          /\ data \in Seq(Nat) /\ rest \in Seq(Nat)
      BY <1>1, <1>7, <2>1, QueueType, EmptySeq
    <3>3. Stream(<<>>, sq[o], cn[o].output, rq[s])
            = Stream(<<>>, Cat(snd[o], SubSeq(data, 1, taken)),
                     SubSeq(data, taken + 1, Len(data)), rest)
      BY <2>2, <2>4
    <3> HIDE DEF data, rest, o
    <3>4. \A g \in Seq(Nat) :
            Stream(g, Cat(snd[o], SubSeq(data, 1, taken)),
                   SubSeq(data, taken + 1, Len(data)), rest)
              = Stream(g, snd[o], <<>>, Cat(data, rest))
      BY <3>2, HandOverKeepsStream
    <3> QED BY <3>1, <3>2, <3>3, <3>4
  <2>8. \A t \in Sides : cn[t].receivedEof => fin[t] /\ rq[t] = <<>>
    BY <1>1, <1>3, <1>4, <2>2, <2>3, <2>4 DEF CauseInv, EndInv
  <2>9. Moved(cn, rq, sq)
    <3>1. ASSUME NEW t \in Sides
          PROVE  /\ Stream(<<>>, sq[Other(t)], cn[Other(t)].output, rq[t]) = Queue(t)
                 /\ err[t] => sq[t] = snd[t]
                 /\ conn[t].writeShutdown => cn[t].writeShutdown
      BY <1>1, <1>10, <2>2, <2>3, <2>4, <2>6, <2>7
    <3> QED BY <2>4, <2>8, <3>1 DEF Moved
  <2> QED BY <1>3, <2>5, <2>9, KeepIsKept
<1> QED BY <1>8, <1>9, <1>10

\* ReadEof moves no byte; it may be the end of the session.
LEMMA ReadEofMoves ==
  ASSUME Inv, CauseInv, NEW s \in Sides, ReadEof(s)
  PROVE  Kept \/ Ended
<1> DEFINE o      == Other(s)
           source == StopRead([conn[s] EXCEPT !.receivedEof = TRUE])
           target == ShutdownWrite(conn[o])
           cn     == [conn EXCEPT ![s] = source, ![o] = target]
<1>1. o \in Sides /\ o # s /\ \A t \in Sides : t = s \/ t = o
  BY DEF Sides, Other
<1>2. /\ ~closed /\ connector = "Succeeded"
      /\ \A t \in Sides : conn[t].state = "Connected" /\ Sound(conn[t])
  BY AtWork DEF ReadEof, CanRead
<1>3. /\ source.output = conn[s].output /\ source \in Connection
      /\ source.writeShutdown = conn[s].writeShutdown
  BY <1>2, EofSound DEF ReadEof, CanRead, Sound
<1>4. /\ target.output = conn[o].output /\ target \in Connection
      /\ conn[o].writeShutdown => target.writeShutdown
      /\ target.receivedEof = conn[o].receivedEof
  <2>1. conn[o].writeShutdown => target.writeShutdown
    BY <1>1, <1>2 DEF ShutdownWrite, FinishWrite, Sound, Connection
  <2> QED BY <1>1, <1>2, <2>1, ShutdownWriteSound DEF Sound
<1>5. CheckFinished(cn, rcv, snd) /\ fin[s] /\ rcv[s] = <<>>
  BY DEF ReadEof
<1> HIDE DEF source, target
<1>6. cn \in [Sides -> Connection] /\ cn[s] = source /\ cn[o] = target
  BY <1>1, <1>3, <1>4 DEF Inv, SessionType
<1> HIDE DEF cn
<1>7. \A t \in Sides : cn[t].output = conn[t].output
  BY <1>1, <1>3, <1>4, <1>6
<1>8. \A t \in Sides : cn[t].receivedEof => fin[t] /\ rcv[t] = <<>>
  BY <1>1, <1>2, <1>4, <1>5, <1>6 DEF CauseInv, EndInv
<1>9. \A t \in Sides : conn[t].writeShutdown => cn[t].writeShutdown
  BY <1>1, <1>3, <1>4, <1>6
<1>10. Moved(cn, rcv, snd)
  BY <1>6, <1>7, <1>8, <1>9, QueueType DEF Moved, Queue
<1> QED BY <1>2, <1>5, <1>10, FinishIsEnded

\* WriteOutput moves the head of output_ to the kernel; likewise.
LEMMA WriteOutputMoves ==
  ASSUME Inv, CauseInv, NEW s \in Sides, WriteOutput(s)
  PROVE  Kept \/ Ended
<1> DEFINE o   == Other(s)
           out == conn[s].output
<1>1. o \in Sides /\ o # s /\ Other(o) = s /\ \A t \in Sides : t = s \/ t = o
  BY DEF Sides, Other
<1>2. out # <<>> /\ conn[s].state = "Connected" /\ ~err[s]
  BY DEF WriteOutput, CanWrite
<1>3. /\ ~closed /\ connector = "Succeeded"
      /\ \A t \in Sides : conn[t].state = "Connected" /\ Sound(conn[t])
  BY <1>2, AtWork
<1>4. PICK taken \in Accepted(s, Len(out)) :
        LET target == Drained(conn[s], taken)
            sq     == [snd EXCEPT ![s] = @ \o SubSeq(out, 1, taken)]
        IN  IF target.output # <<>>
            THEN KeepSession([conn EXCEPT ![s] = target], rcv, sq)
            ELSE CheckFinished(Resume([conn EXCEPT ![s] = target], s), rcv, sq)
  BY DEF WriteOutput
<1> DEFINE target == Drained(conn[s], taken)
           sq     == [snd EXCEPT ![s] = @ \o SubSeq(out, 1, taken)]
           cn     == [conn EXCEPT ![s] = target]
           rn     == Resume(cn, s)
<1>5. KeepSession(cn, rcv, sq) \/ CheckFinished(rn, rcv, sq)
  BY <1>4
<1>6. out \in Seq(Nat) /\ Len(out) \in Nat
  BY QueueType, LenProperties
<1>7. taken \in 0 .. Len(out)
  BY <1>6, AcceptedRange DEF Inv, SessionType
<1>8. /\ target.output = SubSeq(out, taken + 1, Len(out)) /\ target \in Connection
      /\ target.receivedEof = conn[s].receivedEof /\ ~conn[s].writeShutdown
  <2>1. ~conn[s].writeShutdown
    BY <1>2, <1>3 DEF Sound, WellFormed
  <2> QED BY <1>2, <1>3, <1>7, <2>1, DrainedSound DEF Sound
<1>9. /\ StartRead(conn[o]).output = conn[o].output /\ StartRead(conn[o]) \in Connection
      /\ StartRead(conn[o]).receivedEof = conn[o].receivedEof
      /\ StartRead(conn[o]).writeShutdown = conn[o].writeShutdown
  BY <1>1, <1>3, StartReadSound DEF Sound
<1> HIDE DEF target
<1>10. /\ cn \in [Sides -> Connection] /\ cn[s] = target /\ cn[o] = conn[o]
       /\ rn \in [Sides -> Connection] /\ rn[s] = target /\ rn[o] = StartRead(conn[o])
  BY <1>1, <1>8, <1>9 DEF Resume, Inv, SessionType
<1> HIDE DEF cn, rn
<1>11. sq[s] = Cat(snd[s], SubSeq(out, 1, taken)) /\ sq[o] = snd[o]
  BY <1>1 DEF Inv, SessionType, BuffersOK, Cat
<1> HIDE DEF sq, out
<1>12. ASSUME NEW dn \in [Sides -> Connection], dn[s] = target,
              dn[o].output = conn[o].output, dn[o].receivedEof = conn[o].receivedEof,
              dn[o].writeShutdown = conn[o].writeShutdown
       PROVE  Moved(dn, rcv, sq)
  <2>1. Stream(<<>>, sq[o], dn[o].output, rcv[s]) = Queue(s)
    BY <1>11, <1>12 DEF Queue
  <2>2. Stream(<<>>, sq[s], dn[s].output, rcv[o]) = Queue(o)
    <3>1. Queue(o) = Stream(<<>>, snd[s], out, rcv[o])
      BY <1>1 DEF Queue, out
    <3>2. <<>> \in Seq(Nat) /\ snd[s] \in Seq(Nat) /\ rcv[o] \in Seq(Nat)
      BY <1>1, QueueType, EmptySeq
    <3>3. Stream(<<>>, sq[s], dn[s].output, rcv[o])
            = Stream(<<>>, Cat(snd[s], SubSeq(out, 1, taken)),
                     SubSeq(out, taken + 1, Len(out)), rcv[o])
      BY <1>8, <1>11, <1>12
    <3> HIDE DEF o
    <3>4. \A g \in Seq(Nat) :
            Stream(g, Cat(snd[s], SubSeq(out, 1, taken)),
                   SubSeq(out, taken + 1, Len(out)), rcv[o])
              = Stream(g, snd[s], out, rcv[o])
      BY <1>6, <1>7, <3>2, FlushKeepsStream
    <3> QED BY <3>1, <3>2, <3>3, <3>4
  <2>3. \A t \in Sides : dn[t].receivedEof => fin[t] /\ rcv[t] = <<>>
    BY <1>1, <1>3, <1>8, <1>12 DEF CauseInv, EndInv
  <2>4. ASSUME NEW t \in Sides
        PROVE  /\ Stream(<<>>, sq[Other(t)], dn[Other(t)].output, rcv[t]) = Queue(t)
               /\ err[t] => sq[t] = snd[t]
               /\ conn[t].writeShutdown => dn[t].writeShutdown
    BY <1>1, <1>2, <1>8, <1>11, <1>12, <2>1, <2>2
  <2> QED BY <2>3, <2>4 DEF Moved
<1>13. Moved(cn, rcv, sq) /\ Moved(rn, rcv, sq)
  BY <1>1, <1>9, <1>10, <1>12
<1> QED BY <1>3, <1>5, <1>13, KeepIsKept, FinishIsEnded

\* The backend's connection starts with no output, as the session had none.
LEMMA ConnectedMoves ==
  ASSUME Inv, CauseInv, ~closed, conn["backend"].state = "None",
         NEW cn \in [Sides -> Connection], BackendConnected(cn), Sound(cn["client"]),
         cn["client"].output = conn["client"].output,
         ~cn["client"].receivedEof, ~conn["client"].writeShutdown,
         UNCHANGED <<rcv, snd>>, \A s \in Sides : wire'[s] \in {wire[s], "open"}
  PROVE  Kept
<1> DEFINE c == StartRead(cn["client"])
           b == Establish(Blank("Connecting"), TRUE)
<1>1. conn' = [cn EXCEPT !["client"] = c, !["backend"] = b] /\ closed' = closed
  BY DEF BackendConnected
<1>2. c.output = conn["client"].output /\ ~c.receivedEof
  BY StartReadSound
<1>3. b.output = <<>> /\ ~b.receivedEof
  BY EstablishSound
<1>4. conn["backend"].output = <<>> /\ ~conn["backend"].writeShutdown
  BY InvPair DEF Sound, WellFormed, Blank, Sides
<1> HIDE DEF c, b
<1>5. \A s \in Sides : /\ conn'[s].output = conn[s].output /\ ~conn'[s].receivedEof
                       /\ ~conn[s].writeShutdown
  BY <1>1, <1>2, <1>3, <1>4 DEF Sides
<1>6. \A s \in Sides : Queue(s)' = Queue(s)
  BY <1>5, QueueType DEF Queue
<1>7. \A s \in Sides : wire'[s] = "fin" => wire[s] = "fin"
  OBVIOUS
<1> QED BY <1>1, <1>5, <1>6, <1>7 DEF Kept

\* Start, whatever becomes of connect().
LEMMA StartMoves ==
  ASSUME Inv, CauseInv, Start
  PROVE  Kept \/ Cut
<1>1. conn["client"].state = "Connecting"
  BY DEF Start, StartConnected, StartPending, StartRefused, StartThrows, StartCall
<1>2. /\ ~closed /\ Pair(Started) /\ conn["backend"].state = "None"
      /\ Started["backend"] = conn["backend"] /\ Started["client"].output = <<>>
      /\ ~Started["client"].receivedEof
  BY <1>1, StartedPair
<1>3. conn["client"].output = <<>> /\ ~conn["client"].writeShutdown
  BY <1>1, InvPair DEF Sound, WellFormed, Blank, Sides
<1>4. CASE StartConnected
  <2>1. /\ Started \in [Sides -> Connection] /\ Sound(Started["client"])
        /\ BackendConnected(Started) /\ UNCHANGED <<rcv, snd>>
        /\ \A s \in Sides : wire'[s] \in {wire[s], "open"}
    BY <1>2, <1>4 DEF StartConnected, Pair, Sound, Sides, Inv, SessionType
  <2> QED BY <1>2, <1>3, <2>1, ConnectedMoves
<1>5. CASE StartPending \/ StartThrows
  <2>1. /\ conn' = Started /\ UNCHANGED <<closed, wire, rcv, snd>>
    BY <1>5 DEF StartPending, StartThrows
  <2>2. ~conn["backend"].receivedEof /\ ~conn["backend"].writeShutdown
    BY <1>2, InvPair DEF Sound, WellFormed, Blank, Sides
  <2>3. \A s \in Sides : /\ conn'[s].output = conn[s].output
                         /\ ~conn'[s].receivedEof /\ ~conn[s].writeShutdown
    BY <1>2, <1>3, <2>1, <2>2 DEF Sides
  <2>4. \A s \in Sides : Queue(s)' = Queue(s)
    BY <2>1, <2>3, QueueType DEF Queue
  <2> QED BY <1>2, <2>1, <2>3, <2>4 DEF Kept
<1>6. CASE StartRefused
  <2>1. closed' /\ dial' = "failed" /\ connector' = "Failed"
    BY <1>6 DEF StartRefused, CloseSession
  <2>2. Fault'
    BY <2>1 DEF Fault
  <2> QED BY <1>2, <1>6, <2>2, CloseIsCut DEF StartRefused
<1> QED BY <1>4, <1>5, <1>6 DEF Start

\* The connector's callbacks: each failure has a cause.
LEMMA ConnectorMoves ==
  ASSUME Inv, CauseInv, ConnectorError \/ ConnectorWrite \/ ConnectorTimeout
  PROVE  Quiet \/ Kept \/ Cut
<1>1. UNCHANGED <<err, dial, timedOut, phase>>
  BY DEF ConnectorError, ConnectorWrite, ConnectorTimeout, Dispatch
<1>2. CASE UNCHANGED <<session, retained, timer, wire, rcv, snd>>
  BY <1>2 DEF Quiet
<1>3. CASE /\ FailConnect /\ connector = "Connecting"
           /\ (dial = "failed" \/ timedOut \/ err["backend"])
  <2>1. ~closed
    BY <1>3 DEF Inv, SessionInv, Lifecycle
  <2>2. closed' /\ connector' = "Failed"
    BY <1>3 DEF FailConnect, CloseSession
  <2>3. Fault'
    BY <1>1, <1>3, <2>2 DEF Fault, Sides
  <2> QED BY <1>3, <2>1, <2>3, CloseIsCut DEF FailConnect
<1>4. CASE connector = "Connecting" /\ BackendConnected(conn) /\ UNCHANGED <<wire, rcv, snd>>
  <2>1. /\ ~closed /\ conn["backend"].state = "None"
        /\ ~conn["client"].receivedEof /\ ~conn["client"].shutdownRequested
    BY <1>4 DEF Inv, SessionInv, Lifecycle
  <2>2. /\ conn \in [Sides -> Connection] /\ Sound(conn["client"])
        /\ ~conn["client"].writeShutdown
    BY <2>1, InvPair DEF Pair, Sides, Sound, WellFormed
  <2>3. \A s \in Sides : wire'[s] \in {wire[s], "open"}
    BY <1>4
  <2> QED BY <1>4, <2>1, <2>2, <2>3, ConnectedMoves
<1>5. CASE ConnectorError
  BY <1>2, <1>3, <1>5 DEF ConnectorError, Dispatch, CauseInv, EventInv
<1>6. CASE ConnectorWrite
  BY <1>2, <1>3, <1>4, <1>6 DEF ConnectorWrite, Dispatch, CauseInv, EventInv
<1>7. CASE ConnectorTimeout
  BY <1>2, <1>3, <1>7 DEF ConnectorTimeout, Dispatch, CauseInv, EventInv
<1> QED BY <1>5, <1>6, <1>7

\* Every step of the proxy is of one of the four kinds.
LEMMA LoopMoves ==
  ASSUME Inv, CauseInv, LoopStep \/ Stop
  PROVE  Quiet \/ Kept \/ Ended \/ Cut
<1>1. CASE \E s \in Sides : ReadMessage(s) \/ ReadEof(s) \/ WriteOutput(s)
  BY <1>1, ReadMessageMoves, ReadEofMoves, WriteOutputMoves
<1>2. CASE Start
  BY <1>2, StartMoves
<1>3. CASE ConnectorError \/ ConnectorWrite \/ ConnectorTimeout
  BY <1>3, ConnectorMoves
<1>4. CASE \E s \in Sides : ReadSkipped(s) \/ WriteSkipped(s) \/ Poll \/ RunPendingFunctors
  BY <1>4 DEF ReadSkipped, WriteSkipped, Untouched, Poll, RunPendingFunctors, kernel, Quiet
<1>5. ASSUME NEW s \in Sides, HandleClose(s) \/ ReadError(s) \/ WriteError(s)
      PROVE  Quiet \/ Cut
  <2>1. UNCHANGED err
    BY <1>5 DEF HandleClose, ReadError, WriteError, Dispatch
  <2>2. CASE Untouched
    BY <2>2 DEF Untouched, Quiet
  <2>3. CASE Abort /\ IsOpen(conn[s]) /\ err[s]
    <3>1. ~closed
      BY <2>3 DEF Inv, SessionInv, Lifecycle
    <3>2. Fault'
      BY <2>1, <2>3 DEF Fault
    <3> QED BY <2>3, <3>1, <3>2, CloseIsCut DEF Abort
  <2>4. CASE HandleClose(s)
    <3>1. IsOpen(conn[s]) => ~closed
      BY DEF Inv, SessionInv, Lifecycle
    <3> QED BY <2>2, <2>3, <2>4, <3>1 DEF HandleClose, Dispatch, CauseInv, EventInv
  <2>5. CASE ReadError(s) \/ WriteError(s)
    BY <2>3, <2>5 DEF ReadError, WriteError, CanRead, CanWrite, IsOpen
  <2> QED BY <1>5, <2>4, <2>5
<1>6. CASE Stop
  <2>1. CASE closed
    BY <1>6, <2>1 DEF Stop, Quiet
  <2>2. CASE ~closed
    <3>1. Fault'
      BY <1>6 DEF Stop, Fault
    <3> QED BY <1>6, <2>2, <3>1, CloseIsCut DEF Stop
  <2> QED BY <2>1, <2>2
<1> QED BY <1>1, <1>2, <1>3, <1>4, <1>5, <1>6 DEF LoopStep, Callback, Sides

-----------------------------------------------------------------------------
(* The causes are kept by every step                                       *)

\* The proxy's steps leave the peers and the network alone.
LEMMA ProxyKeepsPeers ==
  ASSUME LoopStep \/ Stop
  PROVE  UNCHANGED <<sent, got, eof, fin, err, timedOut>>
<1>1. CASE Start
  BY <1>1 DEF Start, StartConnected, StartPending, StartRefused, StartThrows, StartCall, peers
<1>2. CASE Poll \/ RunPendingFunctors \/ Stop
  BY <1>2 DEF Poll, RunPendingFunctors, Stop, kernel, peers
<1>3. CASE ConnectorError \/ ConnectorWrite \/ ConnectorTimeout
  BY <1>3 DEF ConnectorError, ConnectorWrite, ConnectorTimeout, Dispatch, peers
<1>4. CASE \E s \in Sides : Callback(s)
  BY <1>4 DEF Callback, HandleClose, ReadSkipped, ReadMessage, ReadEof, ReadError,
         WriteSkipped, WriteOutput, WriteError, Dispatch, peers
<1> QED BY <1>1, <1>2, <1>3, <1>4 DEF LoopStep

\* Its callbacks leave the connection attempt and the program's phase alone, too.
LEMMA CallbackDispatches ==
  ASSUME \/ \E s \in Sides : Callback(s)
         \/ ConnectorError \/ ConnectorWrite \/ ConnectorTimeout
  PROVE  \E ch \in Channels, ev \in Event : Dispatch(ch, ev)
<1>1. CASE \E s \in Sides : Callback(s)
  BY <1>1 DEF Callback, HandleClose, ReadSkipped, ReadMessage, ReadEof, ReadError,
         WriteSkipped, WriteOutput, WriteError, Event, Channels
<1> QED BY <1>1 DEF ConnectorError, ConnectorWrite, ConnectorTimeout, Event, Channels

\* A callback does nothing to the session's objects, works on open
\* connections, closes the session, or gives it its backend.
LEMMA CallbackKinds ==
  ASSUME Inv,
         \/ \E s \in Sides : Callback(s)
         \/ ConnectorError \/ ConnectorWrite \/ ConnectorTimeout
  PROVE  \/ Untouched
         \/ /\ connector = "Succeeded"
            /\ \E cn, rq, sq : KeepSession(cn, rq, sq)
         \/ \E cn, rq, sq : \E k \in {connector, "Failed"} : CloseSession(cn, k, rq, sq)
         \/ /\ BackendConnected(conn) /\ UNCHANGED <<wire, rcv, snd>>
            /\ dial = "ok" /\ ~closed /\ ready'["connector"] = {}
<1>1. CASE ConnectorError \/ ConnectorTimeout
  BY <1>1 DEF ConnectorError, ConnectorTimeout, FailConnect, Untouched
<1>2. CASE ConnectorWrite
  <2>1. CASE FailConnect \/ UNCHANGED <<session, retained, timer, wire, rcv, snd>>
    BY <2>1 DEF FailConnect, Untouched
  <2>2. CASE /\ BackendConnected(conn) /\ UNCHANGED <<wire, rcv, snd>>
             /\ connector = "Connecting" /\ dial = "ok"
    <3>1. ~closed
      BY <2>2 DEF Inv, SessionInv, Lifecycle
    <3>2. ready'["connector"] = {}
      BY <1>2 DEF ConnectorWrite, Dispatch, Inv, LoopType, Channels
    <3> QED BY <2>2, <3>1, <3>2
  <2> QED BY <1>2, <2>1, <2>2 DEF ConnectorWrite
<1>3. ASSUME NEW s \in Sides, Callback(s)
      PROVE  \/ Untouched
             \/ /\ connector = "Succeeded"
                /\ \E cn, rq, sq : KeepSession(cn, rq, sq)
             \/ \E cn, rq, sq : \E k \in {connector, "Failed"} : CloseSession(cn, k, rq, sq)
  <2>1. CASE \/ HandleClose(s) \/ ReadSkipped(s) \/ ReadError(s)
             \/ WriteSkipped(s) \/ WriteError(s)
    BY <2>1 DEF HandleClose, ReadSkipped, ReadError, WriteSkipped, WriteError, Abort
  <2>2. CASE ReadMessage(s)
    BY <2>2, AtWork DEF ReadMessage, CanRead
  <2>3. CASE ReadEof(s)
    BY <2>3, AtWork DEF ReadEof, CanRead, CheckFinished
  <2>4. CASE WriteOutput(s)
    BY <2>4, AtWork DEF WriteOutput, CanWrite, CheckFinished
  <2> QED BY <1>3, <2>1, <2>2, <2>3, <2>4 DEF Callback
<1> QED BY <1>1, <1>2, <1>3

\* KernelInv survives the end of the session.
LEMMA CloseKeepsKernel ==
  ASSUME KernelInv, SessionType, NEW cn, NEW rq, NEW sq, NEW k,
         k \in {connector, "Failed"}, CloseSession(cn, k, rq, sq), dial' = dial
  PROVE  KernelInv'
<1>1. closed' /\ timer' # "armed" /\ (connector' = "Succeeded" => connector = "Succeeded")
  BY DEF CloseSession
<1>2. \A s \in Sides : wire[s] # "none" => wire'[s] # "none"
  BY DEF CloseSession
<1> QED BY <1>1, <1>2 DEF KernelInv, Sides

\* ... and every other step of the proxy.
LEMMA LoopKeepsKernel ==
  ASSUME Inv, CauseInv, LoopStep \/ Stop
  PROVE  KernelInv'
<1>1. KernelInv /\ SessionType
  BY DEF Inv, CauseInv
<1>2. CASE Start
  <2>1. /\ conn["client"].state = "Connecting" /\ phase' = phase
    BY <1>2 DEF Start, StartConnected, StartPending, StartRefused, StartThrows, StartCall
  <2>2. ~closed /\ connector = "Idle"
    BY <2>1, StartedPair
  <2>3. CASE StartRefused
    <3>1. /\ closed' /\ timer' # "armed" /\ connector' = "Failed" /\ dial' = "failed"
      BY <2>3 DEF StartRefused, CloseSession
    <3>2. wire'["client"] # "none"
      BY <1>1, <2>3 DEF StartRefused, CloseSession, KernelInv, Sides
    <3> QED BY <3>1, <3>2 DEF KernelInv
  <2>4. CASE StartConnected
    BY <1>1, <2>1, <2>2, <2>4 DEF StartConnected, BackendConnected, KernelInv, SessionType, Sides
  <2>5. CASE StartPending \/ StartThrows
    BY <1>1, <2>1, <2>2, <2>5 DEF StartPending, StartThrows, KernelInv
  <2> QED BY <1>2, <2>3, <2>4, <2>5 DEF Start
<1>3. CASE Poll \/ RunPendingFunctors
  BY <1>1, <1>3 DEF Poll, RunPendingFunctors, KernelInv, session, kernel
<1>4. CASE Stop
  <2>1. CASE closed
    BY <1>1, <1>4, <2>1 DEF Stop, KernelInv, session
  <2>2. CASE ~closed
    BY <1>1, <1>4, <2>2, CloseKeepsKernel DEF Stop
  <2> QED BY <2>1, <2>2
<1>5. CASE \/ \E s \in Sides : Callback(s)
           \/ ConnectorError \/ ConnectorWrite \/ ConnectorTimeout
  <2>1. UNCHANGED <<phase, dial>>
    BY <1>5, CallbackDispatches DEF Dispatch
  <2>2. CASE Untouched
    BY <1>1, <2>1, <2>2 DEF Untouched, session, KernelInv
  <2>3. ASSUME NEW cn, NEW rq, NEW sq, KeepSession(cn, rq, sq)
        PROVE  KernelInv'
    BY <1>1, <2>1, <2>3 DEF KeepSession, WireAfter, KernelInv, Sides
  <2>4. ASSUME NEW cn, NEW rq, NEW sq, NEW k \in {connector, "Failed"},
               CloseSession(cn, k, rq, sq)
        PROVE  KernelInv'
    BY <1>1, <2>1, <2>4, CloseKeepsKernel
  <2>5. CASE BackendConnected(conn) /\ UNCHANGED <<wire, rcv, snd>> /\ dial = "ok" /\ ~closed
    BY <1>1, <2>1, <2>5 DEF BackendConnected, KernelInv
  <2> QED BY <1>5, <2>2, <2>3, <2>4, <2>5, CallbackKinds
<1> QED BY <1>2, <1>3, <1>4, <1>5 DEF LoopStep

\* The kinds of a step say all there is to say of the ends of the streams.
LEMMA LoopKeepsEnds ==
  ASSUME Inv, CauseInv, LoopStep \/ Stop
  PROVE  EndInv'
<1>1. EndInv /\ UNCHANGED <<fin, err>>
  BY ProxyKeepsPeers DEF CauseInv
<1>2. CASE Quiet
  BY <1>1, <1>2 DEF Quiet, session, EndInv
<1>3. CASE Kept
  BY <1>1, <1>3 DEF Kept, EndInv
<1>4. CASE Ended
  BY <1>1, <1>4 DEF Ended, EndInv
<1>5. CASE Cut
  BY <1>1, <1>5 DEF Cut, EndInv
<1> QED BY <1>2, <1>3, <1>4, <1>5, LoopMoves

\* epoll_wait reports only channels of a session that is held, and only what
\* their callbacks will find.
LEMMA PollReports ==
  ASSUME Inv, CauseInv, Poll
  PROVE  /\ \A s \in Sides : ready'[s] # {} => ~closed
         /\ ready'["connector"] # {} => connector = "Connecting"
         /\ ready'["timer"] # {} => timer = "armed" /\ timedOut
         /\ \A s \in Sides : "CLOSE" \in ready'[s] => err[s]
         /\ "CLOSE" \in ready'["connector"] => dial = "failed" \/ err["backend"]
         /\ "OUT" \in ready'["connector"] => dial \in {"ok", "failed"}
<1>1. /\ \A s \in Sides : ready'[s] = ReadyConnection(s)
      /\ ready'["connector"] = ReadyConnector
      /\ ready'["timer"] = IF timer = "armed" /\ timedOut THEN {"IN"} ELSE {}
  BY DEF Poll, ReadyEvents, Channels, Sides
<1>2. \A s \in Sides : ReadyConnection(s) # {} => conn[s].added
  BY DEF ReadyConnection
<1>3. ASSUME NEW s \in Sides, conn[s].added
      PROVE  ~closed /\ conn[s].state = "Connected"
  <2>1. conn[s].state = "Connected"
    <3>1. WellFormed(conn[s]) /\ conn[s].state \in ConnState
      BY InvPair DEF Sound, Connection
    <3>2. conn[s].state \notin {"None", "Connecting"}
      BY <1>3, <3>1 DEF WellFormed, Blank
    <3> QED BY <1>3, <3>1, <3>2 DEF WellFormed, ConnState
  <2> QED BY <2>1 DEF Inv, SessionInv, Lifecycle, IsOpen
<1>4. ASSUME NEW s \in Sides, "CLOSE" \in ReadyConnection(s)
      PROVE  err[s]
  <2>1. conn[s].added /\ (err[s] \/ (wire[s] = "fin" /\ "IN" \notin conn[s].events))
    BY <1>4 DEF ReadyConnection
  <2>2. ~closed /\ conn[s].state = "Connected"
    BY <1>3, <2>1
  <2>3. CASE conn[s].writeShutdown
    <3>1. WellFormed(conn[s]) /\ conn[s] \in Connection
      BY InvPair DEF Sound
    <3>2. conn[s].events # {} /\ "OUT" \notin conn[s].events
      BY <2>1, <2>2, <2>3, <3>1 DEF WellFormed
    <3>3. conn[s].events \subseteq Interest
      BY <3>1 DEF Connection
    <3>4. "IN" \in conn[s].events
      BY <3>2, <3>3 DEF Interest
    <3> QED BY <2>1, <3>4
  <2>4. CASE ~conn[s].writeShutdown
    BY <2>1, <2>2, <2>4 DEF CauseInv, EndInv
  <2> QED BY <2>3, <2>4
<1>5. /\ ReadyConnector # {} => connector = "Connecting"
      /\ "CLOSE" \in ReadyConnector => dial = "failed" \/ err["backend"]
      /\ "OUT" \in ReadyConnector => dial \in {"ok", "failed"}
  BY DEF ReadyConnector
<1>6. ready'["timer"] # {} => timer = "armed" /\ timedOut
  BY <1>1
<1> QED BY <1>1, <1>2, <1>3, <1>4, <1>5, <1>6

\* A batch belongs to a session that is held until the batch is over.
LEMMA LoopKeepsBatch ==
  ASSUME Inv, Inv', CauseInv, LoopStep \/ Stop
  PROVE  BatchInv'
<1>1. BatchInv /\ ready \in [Channels -> SUBSET Event] /\ owned = ~closed
  BY DEF Inv, LoopType, SessionInv, Lifecycle, CauseInv
<1>2. CASE Start
  <2>1. /\ conn["client"].state = "Connecting" /\ UNCHANGED <<phase, ready>>
    BY <1>2 DEF Start, StartConnected, StartPending, StartRefused, StartThrows, StartCall
  <2> QED BY <1>1, <2>1 DEF BatchInv, Channels
<1>3. CASE Poll
  <2>1. phase' = "dispatch" /\ UNCHANGED <<conn, connector, owned, retained>>
        /\ conn["client"].state # "Connecting"
    BY <1>1, <1>3 DEF Poll, session, BatchInv
  <2>2. ASSUME NEW ch \in Channels, ready'[ch] # {}
        PROVE  ~closed
    <3>1. ch \in Sides \/ ch = "connector" \/ ch = "timer"
      BY DEF Channels
    <3>2. connector = "Connecting" => ~closed
      BY DEF Inv, SessionInv, Lifecycle
    <3>3. timer = "armed" => ~closed
      BY DEF CauseInv, KernelInv
    <3> QED BY <1>3, <2>2, <3>1, <3>2, <3>3, PollReports
  <2>3. ready'["connector"] # {} => connector # "Succeeded"
    BY <1>3, PollReports
  <2> QED BY <1>1, <2>1, <2>2, <2>3 DEF BatchInv, SessionAlive
<1>4. CASE RunPendingFunctors
  BY <1>4 DEF RunPendingFunctors, session, BatchInv, Channels
<1>5. CASE Stop
  <2>1. /\ phase = "poll" /\ UNCHANGED ready
    BY <1>5 DEF Stop
  <2>2. \A ch \in Channels : ready'[ch] = {}
    BY <1>1, <2>1 DEF BatchInv
  <2>3. conn'["client"].state # "Connecting"
    <3>1. CASE closed
      BY <1>1, <1>5, <2>1, <3>1 DEF Stop, session, BatchInv
    <3>2. CASE ~closed
      BY <1>5, <3>2 DEF Stop, CloseSession, Inv, SessionInv, Lifecycle, IsOpen, Sides
    <3> QED BY <3>1, <3>2
  <2> QED BY <2>2, <2>3 DEF BatchInv, Channels
<1>6. CASE \/ \E s \in Sides : Callback(s)
           \/ ConnectorError \/ ConnectorWrite \/ ConnectorTimeout
  <2>1. PICK ch \in Channels, ev \in Event : Dispatch(ch, ev)
    BY <1>6, CallbackDispatches
  <2>2. /\ phase = "dispatch" /\ phase' = phase /\ ready[ch] # {}
        /\ \A c \in Channels : ready'[c] \subseteq ready[c]
    BY <1>1, <2>1 DEF Dispatch
  <2>3. conn["client"].state # "Connecting" /\ SessionAlive
    BY <1>1, <2>2 DEF BatchInv
  <2>4. SUFFICES /\ conn'["client"].state # "Connecting"
                 /\ SessionAlive'
                 /\ ready'["connector"] # {} => connector' # "Succeeded"
    BY <2>2 DEF BatchInv
  <2>5. "connector" \in Channels
    BY DEF Channels
  <2>6. CASE Untouched
    BY <1>1, <2>2, <2>3, <2>5, <2>6 DEF Untouched, session, SessionAlive, BatchInv
  <2>7. CASE connector = "Succeeded" /\ \E cn, rq, sq : KeepSession(cn, rq, sq)
    <3>1. UNCHANGED <<connector, closed, owned, retained>> /\ ~closed' => conn'["client"].state # "Connecting"
      BY <2>7 DEF KeepSession, Inv, SessionInv, Lifecycle
    <3>2. UNCHANGED <<connector, closed, owned, retained>>
      BY <2>7 DEF KeepSession
    <3>3. closed' => conn'["client"].state # "Connecting"
      BY DEF Inv, SessionInv, Lifecycle, IsOpen, Sides
    <3>4. ready'["connector"] = {}
      BY <1>1, <2>2, <2>5, <2>7 DEF BatchInv
    <3> QED BY <2>3, <3>1, <3>2, <3>3, <3>4 DEF SessionAlive
  <2>8. ASSUME NEW cn, NEW rq, NEW sq, NEW k, k \in {connector, "Failed"},
               CloseSession(cn, k, rq, sq)
        PROVE  /\ conn'["client"].state # "Connecting"
               /\ SessionAlive'
               /\ ready'["connector"] # {} => connector' # "Succeeded"
    <3>1. closed' /\ "session" \in retained' /\ (connector' = "Succeeded" => connector = "Succeeded")
      BY <2>8 DEF CloseSession, Retain
    <3>2. conn'["client"].state # "Connecting"
      BY <3>1 DEF Inv, SessionInv, Lifecycle, IsOpen, Sides
    <3> QED BY <1>1, <2>2, <2>5, <3>1, <3>2 DEF SessionAlive, BatchInv
  <2>9. CASE BackendConnected(conn) /\ ~closed /\ ready'["connector"] = {}
    <3>1. /\ owned' = owned /\ retained' = retained /\ closed' = closed
          /\ connector' = "Succeeded"
      BY <2>9 DEF BackendConnected
    <3>2. conn'["client"].state # "Connecting"
      BY <2>9, <3>1 DEF Inv, SessionInv, Lifecycle
    <3> QED BY <2>3, <2>9, <3>1, <3>2 DEF SessionAlive
  <2> QED BY <1>6, <2>6, <2>7, <2>8, <2>9, CallbackKinds
<1> QED BY <1>2, <1>3, <1>4, <1>5, <1>6 DEF LoopStep

\* Its events keep their causes.
LEMMA LoopKeepsEvents ==
  ASSUME Inv, Inv', CauseInv, LoopStep \/ Stop
  PROVE  EventInv'
<1>1. /\ BatchInv /\ EventInv /\ ready \in [Channels -> SUBSET Event]
      /\ UNCHANGED <<err, timedOut>>
  BY ProxyKeepsPeers DEF Inv, LoopType, CauseInv
<1>2. CASE Poll
  <2>1. UNCHANGED <<connector, closed, dial>>
    BY <1>2 DEF Poll, session, kernel
  <2>2. "IN" \in ready'["timer"] => timedOut
    BY <1>2, PollReports
  <2> QED BY <1>1, <1>2, <2>1, <2>2, PollReports DEF EventInv
<1>3. CASE Start \/ RunPendingFunctors \/ Stop
  <2>1. ready' = ready /\ \A ch \in Channels : ready[ch] = {}
    <3>1. CASE Start
      <4>1. conn["client"].state = "Connecting" /\ ready' = ready
        BY <3>1 DEF Start, StartConnected, StartPending, StartRefused, StartThrows, StartCall
      <4> QED BY <1>1, <4>1 DEF BatchInv
    <3>2. CASE RunPendingFunctors
      BY <3>2 DEF RunPendingFunctors
    <3>3. CASE Stop
      BY <1>1, <3>3 DEF Stop, BatchInv
    <3> QED BY <1>3, <3>1, <3>2, <3>3
  <2> QED BY <2>1 DEF EventInv, Channels
<1>4. CASE \/ \E s \in Sides : Callback(s)
           \/ ConnectorError \/ ConnectorWrite \/ ConnectorTimeout
  <2>1. PICK ch \in Channels, ev \in Event : Dispatch(ch, ev)
    BY <1>4, CallbackDispatches
  <2>2. dial' = dial /\ \A c \in Channels : ready'[c] \subseteq ready[c]
    BY <1>1, <2>1 DEF Dispatch
  <2>3. (~closed' => ~closed) /\ (connector' = "Connecting" => connector = "Connecting")
    <3>1. CASE Untouched
      BY <3>1 DEF Untouched, session
    <3>2. ASSUME NEW cn, NEW rq, NEW sq, KeepSession(cn, rq, sq)
          PROVE  UNCHANGED <<closed, connector>>
      BY <3>2 DEF KeepSession
    <3>3. ASSUME NEW cn, NEW rq, NEW sq, NEW k, CloseSession(cn, k, rq, sq)
          PROVE  closed' /\ connector' # "Connecting"
      BY <3>3 DEF CloseSession
    <3>4. CASE BackendConnected(conn)
      BY <3>4 DEF BackendConnected
    <3> QED BY <1>4, <3>1, <3>2, <3>3, <3>4, CallbackKinds
  <2>4. \A c \in Sides \cup {"connector", "timer"} : c \in Channels
    BY DEF Channels
  <2> QED BY <1>1, <2>2, <2>3, <2>4 DEF EventInv
<1> QED BY <1>2, <1>3, <1>4 DEF LoopStep

\* The network and the peers act on an open session only, and create no cause
\* they do not leave a trace of.
LEMMA EnvironmentKeepsCauses ==
  ASSUME Inv, CauseInv, Environment
  PROVE  CauseInv'
<1>1. UNCHANGED <<session, loop>>
  BY DEF Environment, Connect, ThreeSecondsPass, PeerSend, PeerFin, PeerReset, PeerRead,
         PeerReadEof
<1>2. BatchInv'
  BY <1>1 DEF CauseInv, BatchInv, session, loop, SessionAlive
<1> USE DEF CauseInv
<1>3. UNCHANGED <<conn, connector, closed, phase, ready, timer>>
  BY <1>1 DEF session, loop
<1>4. CASE Connect("ok") \/ Connect("failed")
  <2>1. /\ dial = "pending" /\ connector = "Connecting"
        /\ dial' \in {"ok", "failed"} /\ UNCHANGED <<timedOut, rcv, snd, fin, err>>
        /\ wire' \in {wire, [wire EXCEPT !["backend"] = "open"]}
        /\ dial' = "ok" => wire' = [wire EXCEPT !["backend"] = "open"]
    BY <1>4 DEF Connect
  <2>2. /\ wire'["client"] = wire["client"] /\ wire'["backend"] \in {wire["backend"], "open"}
        /\ dial' = "ok" => wire'["backend"] = "open"
    BY <2>1 DEF Inv, SessionType, Sides
  <2>3. KernelInv'
    BY <1>3, <2>1, <2>2 DEF KernelInv
  <2>4. EndInv'
    BY <1>3, <2>1, <2>2 DEF EndInv, Sides
  <2>5. EventInv'
    BY <1>3, <2>1 DEF EventInv
  <2> QED BY <1>2, <2>3, <2>4, <2>5
<1>5. CASE ThreeSecondsPass
  BY <1>2, <1>3, <1>5 DEF ThreeSecondsPass, KernelInv, EndInv, EventInv
<1>6. ASSUME NEW s \in Sides,
             PeerSend(s) \/ PeerFin(s) \/ PeerReset(s) \/ PeerRead(s) \/ PeerReadEof(s)
      PROVE  CauseInv'
  <2>1. UNCHANGED <<dial, timedOut, wire>> /\ \A t \in Sides : err[t] => err'[t]
    BY <1>6 DEF PeerSend, PeerFin, PeerReset, PeerRead, PeerReadEof, kernel, Inv, LoopType
  <2>2. KernelInv'
    BY <1>3, <2>1 DEF KernelInv
  <2>3. EventInv'
    BY <1>3, <2>1 DEF EventInv, Sides
  <2>4. EndInv'
    <3>1. CASE PeerSend(s)
      BY <1>3, <2>1, <3>1 DEF PeerSend, EndInv, Inv, SessionType, BuffersOK
    <3>2. CASE PeerFin(s)
      BY <1>3, <2>1, <3>2 DEF PeerFin, EndInv, Inv, LoopType
    <3>3. CASE PeerReset(s)
      BY <1>3, <2>1, <3>3 DEF PeerReset, EndInv, Inv, SessionType, LoopType, BuffersOK
    <3>4. CASE PeerRead(s)
      BY <1>3, <2>1, <3>4 DEF PeerRead, EndInv, Inv, SessionType, BuffersOK
    <3>5. CASE PeerReadEof(s)
      BY <1>3, <2>1, <3>5 DEF PeerReadEof, kernel, EndInv
    <3> QED BY <1>6, <3>1, <3>2, <3>3, <3>4, <3>5
  <2> QED BY <1>2, <2>2, <2>3, <2>4
<1> QED BY <1>4, <1>5, <1>6 DEF Environment

-----------------------------------------------------------------------------
(* What the network and the peers do to the queues                         *)

\* A queue is the bytes in the send buffer, in output_ and still unread.
LEMMA QueueIs ==
  \A w, out, r \in Seq(Nat) : Stream(<<>>, w, out, r) = Cat(Cat(w, out), r)
BY StreamIsQueue

\* What a peer sends goes to the end of its queue.
LEMMA PeerSendQueues ==
  ASSUME Inv, Inv', NEW s \in Sides, PeerSend(s)
  PROVE  /\ ~closed /\ ~fin[s]
         /\ sent' = [sent EXCEPT ![s] = Append(@, Len(@) + 1)]
         /\ Queue(s)' = Append(Queue(s), Len(sent[s]) + 1)
         /\ \A t \in Sides : t # s => Queue(t)' = Queue(t)
         /\ UNCHANGED <<conn, connector, closed, phase, dial, timedOut, wire, snd, fin, err, got, eof>>
<1>1. UNCHANGED <<conn, connector, closed, phase, dial, timedOut, wire, snd, fin, err, got, eof>>
  BY DEF PeerSend, session, loop
<1>2. ~closed /\ ~fin[s] /\ sent' = [sent EXCEPT ![s] = Append(@, Len(@) + 1)]
  BY DEF PeerSend, Live
<1> DEFINE o == Other(s)
           b == Len(sent[s]) + 1
<1>3. rcv'[s] = Append(rcv[s], b) /\ \A t \in Sides : t # s => rcv'[t] = rcv[t]
  BY DEF PeerSend, Inv, SessionType, BuffersOK
<1>4. \A t \in Sides : t # s => Queue(t)' = Queue(t)
  BY <1>1, <1>3 DEF Queue
<1>5. Queue(s)' = Append(Queue(s), b)
  <2>1. b \in Nat
    BY QueueType, LenProperties
  <2> HIDE DEF b
  <2>2. /\ Other(s) \in Sides /\ rcv[s] \in Seq(Nat) /\ Queue(s) \in Seq(Nat)
    BY QueueType
  <2>3. snd[o] \in Seq(Nat) /\ conn[o].output \in Seq(Nat)
    BY <2>2, QueueType
  <2> DEFINE front == Cat(snd[o], conn[o].output)
  <2>4. front \in Seq(Nat) /\ Queue(s) = Cat(front, rcv[s])
    <3>1. front \in Seq(Nat)
      BY <2>3, CatProperties
    <3>2. Queue(s) = Cat(front, rcv[s])
      BY <2>2, <2>3, QueueIs DEF Queue
    <3> QED BY <3>1, <3>2
  <2>5. Queue(s)' = Cat(front, rcv'[s])
    <3>1. rcv'[s] \in Seq(Nat)
      BY <1>3, <2>1, <2>2, AppendProperties
    <3> QED BY <1>1, <2>3, <3>1, QueueIs DEF Queue
  <2> HIDE DEF front
  <2>6. Cat(front, Append(rcv[s], b)) = Append(Cat(front, rcv[s]), b)
    BY <2>1, <2>2, <2>4, SMTT(30) DEF Cat
  <2> QED BY <1>3, <2>4, <2>5, <2>6
<1> QED BY <1>1, <1>2, <1>4, <1>5

\* What a peer reads comes from the head of the other one's queue.
LEMMA PeerReadQueues ==
  ASSUME Inv, Inv', CauseInv, NEW s \in Sides, PeerRead(s)
  PROVE  LET o == Other(s)
         IN  /\ ~err[s] /\ snd[s] # <<>>
             /\ got' = [got EXCEPT ![s] = Append(@, Head(snd[s]))]
             /\ snd' = [snd EXCEPT ![s] = Tail(@)]
             /\ Queue(o) # <<>> /\ Head(Queue(o)) = Head(snd[s])
             /\ Queue(o)' = Tail(Queue(o)) /\ Queue(s)' = Queue(s)
             /\ UNCHANGED <<conn, connector, closed, phase, dial, timedOut, wire, rcv, fin, err,
                            sent, eof>>
<1> DEFINE o == Other(s)
<1>1. UNCHANGED <<conn, connector, closed, phase, dial, timedOut, wire, rcv, fin, err, sent, eof>>
  BY DEF PeerRead, session, loop
<1>2. /\ snd[s] # <<>>
      /\ got' = [got EXCEPT ![s] = Append(@, Head(snd[s]))]
      /\ snd' = [snd EXCEPT ![s] = Tail(@)]
  BY DEF PeerRead
<1>3. ~err[s]
  BY <1>2 DEF CauseInv, EndInv
<1>4. o \in Sides /\ o # s /\ Other(o) = s
  BY QueueType
<1>5. snd'[s] = Tail(snd[s]) /\ snd'[o] = snd[o]
  BY <1>2, <1>4 DEF Inv, SessionType, BuffersOK
<1>6. Queue(s)' = Queue(s)
  BY <1>1, <1>5 DEF Queue
<1>7. Queue(o) # <<>> /\ Head(Queue(o)) = Head(snd[s]) /\ Queue(o)' = Tail(Queue(o))
  <2> HIDE DEF o
  <2>1. snd[s] \in Seq(Nat) /\ conn[s].output \in Seq(Nat) /\ rcv[o] \in Seq(Nat)
    BY <1>4, QueueType
  <2>2. \A w \in Seq(Nat) : w # <<>> =>
          \A out, r \in Seq(Nat) :
            LET q == Cat(Cat(w, out), r)
            IN  q # <<>> /\ Head(q) = Head(w) /\ Tail(q) = Cat(Cat(Tail(w), out), r)
    BY PeerReadTakesHead
  <2>3. Queue(o) = Cat(Cat(snd[s], conn[s].output), rcv[o])
    BY <1>4, <2>1, QueueIs DEF Queue
  <2>4. Queue(o)' = Cat(Cat(snd'[s], conn'[s].output), rcv'[o])
    <3>1. snd'[s] \in Seq(Nat)
      BY <1>2, <1>5, <2>1, HeadTailProperties
    <3> QED BY <1>1, <1>4, <2>1, <3>1, QueueIs DEF Queue
  <2>5. \A out, r \in Seq(Nat) :
          LET q == Cat(Cat(snd[s], out), r)
          IN  q # <<>> /\ Head(q) = Head(snd[s]) /\ Tail(q) = Cat(Cat(Tail(snd[s]), out), r)
    <3>1. snd[s] \in Seq(Nat) /\ snd[s] # <<>>
      BY <1>2, <2>1
    <3> QED BY ONLY <2>2, <3>1
  <2>6. /\ Queue(o) # <<>> /\ Head(Queue(o)) = Head(snd[s])
        /\ Tail(Queue(o)) = Cat(Cat(Tail(snd[s]), conn[s].output), rcv[o])
    BY <2>1, <2>3, <2>5
  <2>7. Queue(o)' = Cat(Cat(Tail(snd[s]), conn[s].output), rcv[o])
    BY <1>1, <1>5, <2>4
  <2> QED BY <2>6, <2>7
<1> QED BY <1>1, <1>2, <1>3, <1>6, <1>7

-----------------------------------------------------------------------------
(* The streams of the session                                              *)

\* A closed session is out of the reach of connect() and of the timer.
LEMMA ClosedLoop ==
  ASSUME Inv, CauseInv, closed, LoopStep \/ Stop
  PROVE  /\ Quiet /\ UNCHANGED <<closed, connector, dial>>
         /\ phase = "exited" => phase' = "exited"
<1>1. Quiet
  BY LoopMoves DEF Kept, Ended, Cut
<1>2. conn["client"].state # "Connecting"
  BY DEF Inv, SessionInv, Lifecycle, IsOpen, Sides
<1>3. CASE Start
  BY <1>2, <1>3 DEF Start, StartConnected, StartPending, StartRefused, StartThrows, StartCall
<1>4. CASE Poll \/ RunPendingFunctors \/ Stop
  BY <1>1, <1>4 DEF Poll, RunPendingFunctors, Stop, kernel, Quiet, session
<1>5. CASE \/ \E s \in Sides : Callback(s)
           \/ ConnectorError \/ ConnectorWrite \/ ConnectorTimeout
  BY <1>1, <1>5, CallbackDispatches DEF Dispatch, Quiet, session
<1> QED BY <1>1, <1>3, <1>4, <1>5 DEF LoopStep

\* Fault, in the words of an open and of a closed session.
LEMMA FaultIs ==
  ASSUME CauseInv
  PROVE  ~closed => (Fault <=> \E s \in Sides : err[s])
  BY DEF CauseInv, KernelInv, Fault

\* An ended session has handed over every byte.
LEMMA EndedIsClean ==
  ASSUME Inv, Inv', CauseInv, StreamIntact, Ended, UNCHANGED <<sent, got, fin, err>>, ~Fault'
  PROVE  \A s \in Sides : fin'[s] /\ Delivered(s)' = sent'[s] /\ wire'[s] = "fin"
<1> SUFFICES ASSUME NEW s \in Sides
             PROVE  fin'[s] /\ Delivered(s)' = sent'[s] /\ wire'[s] = "fin"
  OBVIOUS
<1> DEFINE o == Other(s)
<1>1. o \in Sides /\ got[o] \in Seq(Nat) /\ snd[o] \in Seq(Nat)
  BY QueueType
<1>2. ~closed /\ ~err[o] /\ ~err'[o]
  BY <1>1 DEF Ended, Fault
<1>3. sent[s] = Cat(got[o], Queue(s))
  BY <1>2, IntactQueue DEF Whole
<1>4. Queue(s)' = Queue(s) /\ conn'[o].output = <<>> /\ rcv'[s] = <<>>
  BY <1>1 DEF Ended
<1>5. Queue(s)' = Stream(<<>>, snd'[o], <<>>, <<>>)
  BY <1>1, <1>4 DEF Queue
<1>6. Stream(<<>>, snd'[o], <<>>, <<>>) = snd'[o]
  <2>1. \A w \in Seq(Nat) : Stream(<<>>, w, <<>>, <<>>) = w
    <3>1. <<>> \in Seq(Nat)
      BY EmptySeq
    <3>2. \A w \in Seq(Nat) : Cat(<<>>, w) = w /\ Cat(w, <<>>) = w
      BY ConcatEmptySeq DEF Cat
    <3> QED BY <3>2 DEF Stream
  <2> QED BY <1>1, <2>1 DEF Inv, SessionType, BuffersOK
<1>7. sent'[s] = Delivered(s)'
  BY <1>3, <1>4, <1>5, <1>6 DEF Delivered, Cat
<1> QED BY <1>7 DEF Ended

\* The proxy's steps keep both promises.
LEMMA LoopKeepsStreams ==
  ASSUME Inv, Inv', CauseInv, StreamIntact, CleanClose, LoopStep \/ Stop
  PROVE  StreamIntact' /\ CleanClose'
<1>1. UNCHANGED <<sent, got, eof, fin, err, timedOut>>
  BY ProxyKeepsPeers
<1>2. \A s \in Sides : Other(s) \in Sides
  BY QueueType
<1>3. closed' \/ (~closed /\ \A s \in Sides : Queue(s)' = Queue(s))
  <2>1. CASE Quiet
    BY <1>2, <2>1 DEF Quiet, session, Queue
  <2> QED BY <2>1, LoopMoves DEF Kept, Ended, Cut
<1>4. StreamIntact'
  <2>1. ASSUME NEW s \in Sides, ~closed', ~err'[Other(s)]
        PROVE  sent'[s] = Cat(got'[Other(s)], Queue(s)')
    BY <1>1, <1>3, <2>1, IntactQueue DEF Whole
  <2> QED BY <2>1, IntactNext DEF Whole
<1>5. CleanClose'
  <2> SUFFICES ASSUME closed', ~Fault'
               PROVE  \A s \in Sides : fin'[s] /\ Delivered(s)' = sent'[s] /\ wire'[s] = "fin"
    BY DEF CleanClose
  <2>1. CASE closed
    <3>1. Quiet /\ UNCHANGED <<connector, dial>> /\ (phase = "exited" => phase' = "exited")
      BY <2>1, ClosedLoop
    <3>2. ~Fault
      BY <1>1, <2>1, <3>1 DEF Fault
    <3>3. \A s \in Sides : fin[s] /\ Delivered(s) = sent[s] /\ wire[s] = "fin"
      BY <2>1, <3>2 DEF CleanClose
    <3> QED BY <1>1, <3>1, <3>3 DEF Quiet, Delivered
  <2>2. CASE ~closed
    <3>1. Ended
      BY <2>2, LoopMoves DEF Quiet, session, Kept, Cut
    <3> QED BY <1>1, <3>1, EndedIsClean
  <2> QED BY <2>1, <2>2
<1> QED BY <1>4, <1>5

\* So do those of the network and the peers.
LEMMA EnvironmentKeepsStreams ==
  ASSUME Inv, Inv', CauseInv, StreamIntact, CleanClose, Environment
  PROVE  StreamIntact' /\ CleanClose'
<1>1. UNCHANGED <<conn, connector, closed, phase>>
  BY DEF Environment, Connect, ThreeSecondsPass, PeerSend, PeerFin, PeerReset, PeerRead,
         PeerReadEof, session, loop
<1>2. \A s \in Sides : /\ Other(s) \in Sides /\ Other(s) # s /\ Other(Other(s)) = s
                       /\ got[s] \in Seq(Nat) /\ sent[s] \in Seq(Nat) /\ Queue(s) \in Seq(Nat)
  BY QueueType
<1>3. SUFFICES /\ closed =>
                    \/ Fault'
                    \/ Fault
                    \/ \A s \in Sides : fin'[s] /\ Delivered(s)' = sent'[s] /\ wire'[s] = "fin"
               /\ Fault => Fault'
               /\ ~closed => \A s \in Sides : ~err'[Other(s)] =>
                                sent'[s] = Cat(got'[Other(s)], Queue(s)')
  BY <1>1, IntactNext DEF CleanClose, Whole
<1>4. CASE Connect("ok") \/ Connect("failed")
  <2>1. connector = "Connecting" /\ ~closed
    BY <1>4 DEF Connect, Inv, SessionInv, Lifecycle
  <2>2. UNCHANGED <<rcv, snd, err, sent, got>> /\ dial = "pending"
    BY <1>4 DEF Connect, peers
  <2>3. \A s \in Sides : Queue(s)' = Queue(s)
    BY <1>1, <2>2 DEF Queue
  <2> QED BY <1>1, <2>1, <2>2, <2>3, IntactQueue DEF Whole, Fault
<1>5. CASE ThreeSecondsPass
  <2>1. ~closed /\ UNCHANGED <<rcv, snd, err, sent, got>>
    BY <1>5 DEF ThreeSecondsPass, CauseInv, KernelInv, peers
  <2>2. \A s \in Sides : Queue(s)' = Queue(s)
    BY <1>1, <2>1 DEF Queue
  <2> QED BY <1>1, <2>1, <2>2, IntactQueue DEF Whole, Fault
<1>6. CASE \E s \in Sides : PeerSend(s)
  <2>1. PICK s \in Sides : PeerSend(s)
    BY <1>6
  <2>2. /\ ~closed
        /\ sent' = [sent EXCEPT ![s] = Append(@, Len(@) + 1)]
        /\ Queue(s)' = Append(Queue(s), Len(sent[s]) + 1)
        /\ \A t \in Sides : t # s => Queue(t)' = Queue(t)
        /\ UNCHANGED <<dial, timedOut, err, got>>
    BY <2>1, PeerSendQueues
  <2>3. sent'[s] = Append(sent[s], Len(sent[s]) + 1) /\ \A t \in Sides : t # s => sent'[t] = sent[t]
    BY <2>2 DEF Inv, LoopType
  <2>4. ~err[Other(s)] => sent'[s] = Cat(got[Other(s)], Queue(s)')
    <3>1. ~err[Other(s)] => sent[s] = Cat(got[Other(s)], Queue(s))
      BY <2>2, IntactQueue DEF Whole
    <3>2. Len(sent[s]) + 1 \in Nat
      BY <1>2, LenProperties
    <3>3. \A g, q \in Seq(Nat), b \in Nat : Cat(g, Append(q, b)) = Append(Cat(g, q), b)
      BY DEF Cat
    <3>4. Other(s) \in Sides /\ got[Other(s)] \in Seq(Nat) /\ Queue(s) \in Seq(Nat)
      BY <1>2
    <3>5. \A b \in Nat : Cat(got[Other(s)], Append(Queue(s), b))
                           = Append(Cat(got[Other(s)], Queue(s)), b)
      BY <3>3, <3>4
    <3>6. Cat(got[Other(s)], Append(Queue(s), Len(sent[s]) + 1))
            = Append(Cat(got[Other(s)], Queue(s)), Len(sent[s]) + 1)
      BY <3>2, <3>5
    <3> QED BY <2>2, <2>3, <3>1, <3>6
  <2>5. \A t \in Sides : t # s /\ ~err[Other(t)] => sent'[t] = Cat(got[Other(t)], Queue(t)')
    BY <2>2, <2>3, IntactQueue DEF Whole
  <2> QED BY <1>1, <2>2, <2>4, <2>5 DEF Fault
<1>7. CASE \E s \in Sides : PeerRead(s)
  <2>1. PICK s \in Sides : PeerRead(s)
    BY <1>7
  <2> DEFINE o == Other(s)
  <2>2. /\ ~err[s] /\ snd[s] # <<>>
        /\ got' = [got EXCEPT ![s] = Append(@, Head(snd[s]))]
        /\ snd' = [snd EXCEPT ![s] = Tail(@)]
        /\ Queue(o) # <<>> /\ Head(Queue(o)) = Head(snd[s])
        /\ Queue(o)' = Tail(Queue(o)) /\ Queue(s)' = Queue(s)
        /\ UNCHANGED <<dial, timedOut, wire, fin, err, sent>>
    BY <2>1, PeerReadQueues
  <2>3. /\ got'[s] = Append(got[s], Head(snd[s])) /\ snd'[s] = Tail(snd[s])
        /\ got'[o] = got[o] /\ snd'[o] = snd[o] /\ snd[s] \in Seq(Nat)
    BY <1>2, <2>2 DEF Inv, LoopType, SessionType, BuffersOK
  <2>4. \A q \in Seq(Nat) : q # <<>> => Cat(Append(got[s], Head(q)), Tail(q)) = Cat(got[s], q)
    <3>1. got[s] \in Seq(Nat)
      BY <1>2
    <3> QED BY <3>1, SMTT(30) DEF Cat
  <2>5. ~closed /\ ~err[Other(o)] => sent[o] = Cat(got'[Other(o)], Queue(o)')
    <3>1. Cat(got'[s], Queue(o)') = Cat(got[s], Queue(o))
      BY <1>2, <2>2, <2>3, <2>4
    <3> QED BY <1>2, <3>1, IntactQueue DEF Whole
  <2>6. ~closed /\ ~err[Other(s)] => sent[s] = Cat(got'[Other(s)], Queue(s)')
    BY <2>2, <2>3, IntactQueue DEF Whole
  <2>7. \A t \in Sides : t = s \/ t = o
    BY DEF Sides, Other
  <2>8. \A t \in Sides : Delivered(t)' = Delivered(t)
    <3>1. got'[s] \o snd'[s] = got[s] \o snd[s]
      BY <2>2, <2>3, <2>4 DEF Cat
    <3> QED BY <1>2, <2>3, <2>7, <3>1 DEF Delivered
  <2>9. Fault' <=> Fault
    BY <1>1, <2>2 DEF Fault
  <2> QED BY <2>2, <2>5, <2>6, <2>7, <2>8, <2>9 DEF CleanClose
<1>8. CASE \E s \in Sides : PeerReset(s)
  <2>1. PICK s \in Sides : PeerReset(s)
    BY <1>8
  <2>2. /\ err' = [err EXCEPT ![s] = TRUE] /\ snd' = [snd EXCEPT ![s] = <<>>]
        /\ ~closed /\ UNCHANGED <<rcv, got, sent>>
    BY <2>1 DEF PeerReset, peers, Live
  <2>3. err'[s] = TRUE /\ \A t \in Sides : t # s => err'[t] = err[t] /\ snd'[t] = snd[t]
    BY <2>2 DEF Inv, LoopType, SessionType, BuffersOK
  <2>4. ASSUME NEW t \in Sides, ~err'[Other(t)]
        PROVE  sent'[t] = Cat(got'[Other(t)], Queue(t)')
    <3>1. Other(t) # s
      BY <2>3, <2>4
    <3>2. Queue(t)' = Queue(t) /\ ~err[Other(t)]
      BY <1>1, <1>2, <2>2, <2>3, <2>4, <3>1 DEF Queue
    <3> QED BY <2>2, <3>2, IntactQueue DEF Whole
  <2> QED BY <2>2, <2>3, <2>4 DEF Fault
<1>9. CASE \E s \in Sides : PeerFin(s) \/ PeerReadEof(s)
  <2>1. UNCHANGED <<rcv, snd, err, sent, got, wire, dial, timedOut>>
    BY <1>9 DEF PeerFin, PeerReadEof, kernel, peers
  <2>2. closed => fin' = fin
    BY <1>9 DEF PeerFin, PeerReadEof, Live, kernel
  <2>3. \A s \in Sides : Queue(s)' = Queue(s) /\ Delivered(s)' = Delivered(s)
    BY <1>1, <2>1 DEF Queue, Delivered
  <2>4. Fault' <=> Fault
    BY <1>1, <2>1 DEF Fault
  <2> QED BY <2>1, <2>2, <2>3, <2>4, IntactQueue DEF Whole, CleanClose
<1> QED BY <1>4, <1>5, <1>6, <1>7, <1>8, <1>9 DEF Environment

\* Everything that is proved of a session, as one invariant.
SessionStreams == Inv /\ CauseInv /\ StreamIntact /\ CleanClose

\* It holds when the session is about to start ...
LEMMA StreamsInit == Init => SessionStreams
<1> SUFFICES ASSUME Init PROVE SessionStreams
  OBVIOUS
<1>1. Inv
  BY InvInit
<1>2. CauseInv
  BY DEF Init, CauseInv, BatchInv, KernelInv, EndInv, EventInv, Blank, Sides, Channels
<1>3. StreamIntact
  <2>1. \A s \in Sides : /\ Other(s) \in Sides
                         /\ sent[s] = <<>> /\ got[s] = <<>> /\ snd[s] = <<>> /\ rcv[s] = <<>>
                         /\ conn[s].output = <<>>
    BY DEF Init, Sides, Other, Blank
  <2>2. Cat(<<>>, <<>>) = <<>>
    <3>1. \A S : <<>> \in Seq(S)
      OBVIOUS
    <3> QED BY <3>1, CatProperties
  <2>3. \A s \in Sides : sent[s] = Cat(got[Other(s)], Queue(s))
    BY <2>1, <2>2 DEF Queue, Stream
  <2> QED BY <1>1, <2>3, IntactQueue DEF Whole
<1>4. CleanClose
  BY DEF Init, CleanClose
<1> QED BY <1>1, <1>2, <1>3, <1>4 DEF SessionStreams

\* ... and is kept by every step.
LEMMA StreamsNext == SessionStreams /\ [Next]_vars => SessionStreams'
<1> SUFFICES ASSUME SessionStreams, [Next]_vars PROVE SessionStreams'
  OBVIOUS
<1> USE DEF SessionStreams
<1>1. Inv'
  BY InvNext
<1>2. CASE LoopStep \/ Stop
  BY <1>1, <1>2, LoopKeepsBatch, LoopKeepsKernel, LoopKeepsEnds, LoopKeepsEvents,
     LoopKeepsStreams DEF CauseInv
<1>3. CASE Environment
  BY <1>1, <1>3, EnvironmentKeepsCauses, EnvironmentKeepsStreams
<1>4. CASE UNCHANGED vars
  <2>1. CauseInv'
    BY <1>4 DEF vars, session, loop, kernel, peers, CauseInv, BatchInv, KernelInv, EndInv,
           EventInv, SessionAlive
  <2>2. StreamIntact' /\ CleanClose'
    BY <1>4 DEF vars, session, loop, kernel, peers, StreamIntact, CleanClose, Delivered, Fault
  <2> QED BY <1>1, <2>1, <2>2
<1> QED BY <1>2, <1>3, <1>4 DEF Next

\* Everything that is proved of a session holds throughout every behaviour.
THEOREM StreamsHold == Spec => []SessionStreams
BY StreamsInit, StreamsNext, PTL DEF Spec

\* Every byte a peer has sent is, in order and once, with the other peer, in
\* its socket's send buffer, in output_, or still unread: across partial
\* writes, pauses, half-closes and every order of callbacks, as long as the
\* session is open and the receiving peer has not reset it.
THEOREM NoByteIsLost == Spec => []StreamIntact
BY StreamsHold, PTL DEF SessionStreams

\* A session that closes without a fault has forwarded both streams whole, with
\* their ends: CheckFinished, an EPOLLHUP or a close with bytes unread never
\* truncates one.
THEOREM ClosesCleanly == Spec => []CleanClose
BY StreamsHold, PTL DEF SessionStreams

\* The owner of every channel with an event in the batch lives until the event
\* has been dispatched, whatever the callbacks before it have closed.
THEOREM NoChannelDangles == Spec => []BatchIsAlive
<1>1. SessionStreams => BatchIsAlive
  <2> SUFFICES ASSUME BatchInv PROVE BatchIsAlive
    BY DEF SessionStreams, CauseInv
  <2> QED BY DEF BatchInv, BatchIsAlive, ConnectionAlive, ConnectorAlive, Channels
<1> QED BY <1>1, StreamsHold, PTL

-----------------------------------------------------------------------------
(* The session implements the relay                                        *)

\* InTransit, in terms of queues, and what the relay has lost.
ImageOf(s) ==
  IF err[Other(s)] THEN <<>> ELSE IF closed THEN snd[Other(s)] ELSE Queue(s)

LostOf(s) == err[Other(s)] \/ (closed /\ Fault)

\* The two say the same ...
ImageAsMapped == \A s \in Sides : InTransit(s) = ImageOf(s)

LEMMA ImageIs ==
  ASSUME Inv
  PROVE  ImageAsMapped
<1>1. ASSUME NEW s \in Sides
      PROVE  Queue(s) = snd[Other(s)] \o conn[Other(s)].output \o rcv[s]
  <2>1. Other(s) \in Sides /\ rcv[s] \in Seq(Nat)
    BY QueueType
  <2>2. snd[Other(s)] \in Seq(Nat) /\ conn[Other(s)].output \in Seq(Nat)
    BY <2>1, QueueType
  <2> QED BY <2>1, <2>2, QueueIs DEF Queue, Cat
<1> QED BY <1>1 DEF ImageAsMapped, InTransit, ImageOf

\* ... after a step, too.
LEMMA ImageNext == Inv' => ImageAsMapped'
<1>1. Inv => ImageAsMapped
  BY ImageIs
<1> QED BY <1>1, PTL

\* A step that moves nothing on the relay's level.
LEMMA Stutters ==
  ASSUME Inv, Inv', UNCHANGED <<sent, got, fin, eof>>, Fault' <=> Fault,
         \A s \in Sides : ImageOf(s)' = ImageOf(s) /\ (LostOf(s)' <=> LostOf(s))
  PROVE  UNCHANGED Promise!vars
<1>1. \A s \in Sides : InTransit(s)' = InTransit(s)
  BY ImageIs, ImageNext DEF ImageAsMapped
<1>2. \A s \in Sides : LostOf(s)' = LostOf(s)
  BY DEF LostOf
<1>3. Fault' = Fault
  BY DEF Fault
<1> QED BY <1>1, <1>2, <1>3 DEF Promise!vars, LostOf

\* A fault that cuts the tail of the streams.
LEMMA Breaks ==
  ASSUME Inv, Inv', UNCHANGED <<sent, got, fin, eof>>, Fault',
         \A s \in Sides :
           \/ ImageOf(s)' = ImageOf(s) /\ (LostOf(s)' <=> LostOf(s))
           \/ LostOf(s)' /\ Promise!StartsWith(ImageOf(s), ImageOf(s)')
  PROVE  Promise!Break
<1>1. \A s \in Sides : InTransit(s) = ImageOf(s) /\ InTransit(s)' = ImageOf(s)'
  BY ImageIs, ImageNext DEF ImageAsMapped
<1>2. \A s \in Sides : (LostOf(s)' <=> LostOf(s)) => LostOf(s)' = LostOf(s)
  BY DEF LostOf
<1>3. \A s \in Sides :
        \/ InTransit(s)' = InTransit(s) /\ LostOf(s)' = LostOf(s)
        \/ LostOf(s)' /\ Promise!StartsWith(InTransit(s), InTransit(s)')
  BY <1>1, <1>2
<1>4. Fault' = TRUE
  BY DEF Fault
<1> QED BY <1>3, <1>4 DEF Promise!Break, Promise!Ends, Sides, LostOf

\* Prefixes of a queue: the whole of it, its head part, and nothing.
LEMMA Prefixes ==
  ASSUME NEW S, NEW w \in Seq(S), NEW out \in Seq(S), NEW r \in Seq(S)
  PROVE  LET q == Cat(Cat(w, out), r)
         IN  q \in Seq(S) /\ Promise!StartsWith(q, w) /\ Promise!StartsWith(q, <<>>)
                /\ Promise!StartsWith(w, w) /\ Promise!StartsWith(w, <<>>)
<1> DEFINE front == Cat(w, out)
           q     == Cat(front, r)
<1>1. \A a, b \in Seq(S) : /\ Cat(a, b) \in Seq(S) /\ Len(a) <= Len(Cat(a, b))
                           /\ a = SubSeq(Cat(a, b), 1, Len(a))
  BY DEF Cat
<1>2. \A a \in Seq(S) : Promise!StartsWith(a, <<>>) /\ Promise!StartsWith(a, a)
  BY DEF Promise!StartsWith
<1>3. \A a, b, c \in Seq(S) : Cat(Cat(a, b), c) = Cat(a, Cat(b, c))
  BY CatProperties
<1>4. \A a, b, c \in Seq(S) : Promise!StartsWith(Cat(Cat(a, b), c), a)
  <2>1. \A a, b \in Seq(S) : Promise!StartsWith(Cat(a, b), a)
    BY <1>1 DEF Promise!StartsWith
  <2>2. \A b, c \in Seq(S) : Cat(b, c) \in Seq(S)
    BY <1>1
  <2> QED BY <1>3, <2>1, <2>2
<1>5. front \in Seq(S) /\ q \in Seq(S)
  BY <1>1
<1> QED BY <1>2, <1>4, <1>5

\* The parts of what the relay sees of an open session.
LEMMA ImageType ==
  ASSUME Inv, NEW s \in Sides
  PROVE  /\ ImageOf(s) \in Seq(Nat)
         /\ Promise!StartsWith(ImageOf(s), ImageOf(s)) /\ Promise!StartsWith(ImageOf(s), <<>>)
         /\ Promise!StartsWith(Queue(s), snd[Other(s)])
<1>1. /\ Other(s) \in Sides /\ rcv[s] \in Seq(Nat) /\ Queue(s) \in Seq(Nat)
  BY QueueType
<1>2. snd[Other(s)] \in Seq(Nat) /\ conn[Other(s)].output \in Seq(Nat)
  BY <1>1, QueueType
<1>3. \A w, out, r \in Seq(Nat) :
        Promise!StartsWith(Cat(Cat(w, out), r), w) /\ Promise!StartsWith(w, w)
          /\ Promise!StartsWith(w, <<>>)
  BY Prefixes
<1>4. Queue(s) = Cat(Cat(snd[Other(s)], conn[Other(s)].output), rcv[s])
  BY <1>1, <1>2, QueueIs DEF Queue
<1>5. ImageOf(s) \in Seq(Nat)
  <2>1. <<>> \in Seq(Nat)
    BY EmptySeq
  <2> QED BY <1>1, <1>2, <2>1 DEF ImageOf
<1>6. \A out, r \in Seq(Nat) :
        Promise!StartsWith(Cat(Cat(snd[Other(s)], out), r), snd[Other(s)])
  BY <1>2, <1>3
<1>7. Promise!StartsWith(Queue(s), snd[Other(s)])
  BY <1>1, <1>2, <1>4, <1>6
<1> QED BY <1>3, <1>5, <1>7

\* A step of the proxy changes nothing for the relay or, in a fault, cuts the
\* tail of a stream.
LEMMA LoopImages ==
  ASSUME Inv, Inv', CauseInv, CauseInv', LoopStep \/ Stop
  PROVE  /\ UNCHANGED <<sent, got, fin, eof, err>>
         /\ closed => closed'
         /\ Fault => Fault'
         /\ ~closed' => (Fault' => Fault)
         /\ \A s \in Sides :
              /\ Promise!StartsWith(ImageOf(s), ImageOf(s)')
              /\ ImageOf(s)' = ImageOf(s) \/ (closed' /\ Fault')
<1>1. UNCHANGED <<sent, got, eof, fin, err, timedOut>>
  BY ProxyKeepsPeers
<1>2. closed => /\ Quiet /\ UNCHANGED <<closed, connector, dial>>
                /\ phase = "exited" => phase' = "exited"
  BY ClosedLoop
<1>3. ~closed => (Fault <=> \E s \in Sides : err[s])
  BY FaultIs
<1>4. ~closed' => (Fault' <=> \E s \in Sides : err'[s])
  BY DEF CauseInv, KernelInv, Fault
<1>5. (\E s \in Sides : err[s]) => Fault'
  BY <1>1 DEF Fault
<1>6. closed => (Fault => Fault')
  BY <1>1, <1>2 DEF Fault
<1>7. ASSUME NEW s \in Sides
      PROVE  /\ Promise!StartsWith(ImageOf(s), ImageOf(s)')
             /\ ImageOf(s)' = ImageOf(s) \/ (closed' /\ Fault')
  <2> DEFINE o == Other(s)
  <2>1. /\ o \in Sides
        /\ Promise!StartsWith(ImageOf(s), ImageOf(s)) /\ Promise!StartsWith(ImageOf(s), <<>>)
        /\ Promise!StartsWith(Queue(s), snd[o])
    BY QueueType, ImageType
  <2>2. CASE err[o]
    BY <1>1, <2>1, <2>2 DEF ImageOf
  <2>3. CASE ~err[o] /\ Quiet
    <3>1. ImageOf(s)' = ImageOf(s)
      BY <1>1, <2>3 DEF Quiet, session, ImageOf, Queue
    <3> QED BY <2>1, <3>1
  <2>4. CASE ~err[o] /\ Kept
    <3>1. ImageOf(s)' = ImageOf(s)
      BY <1>1, <2>4 DEF Kept, ImageOf
    <3> QED BY <2>1, <3>1
  <2>5. CASE ~err[o] /\ Ended
    <3>1. Queue(s)' = Stream(<<>>, snd'[o], <<>>, <<>>) /\ Queue(s)' = Queue(s)
      BY <2>1, <2>5 DEF Ended, Queue
    <3>2. \A w \in Seq(Nat) : Stream(<<>>, w, <<>>, <<>>) = w
      <4>1. \A w \in Seq(Nat) : Cat(<<>>, w) = w /\ Cat(w, <<>>) = w
        BY ConcatEmptySeq DEF Cat
      <4> QED BY <4>1 DEF Stream
    <3>3. snd'[o] \in Seq(Nat)
      BY <2>1 DEF Inv, SessionType, BuffersOK
    <3>4. ImageOf(s)' = snd'[o] /\ ImageOf(s) = Queue(s)
      BY <1>1, <2>5 DEF Ended, ImageOf
    <3> QED BY <2>1, <3>1, <3>2, <3>3, <3>4
  <2>6. CASE ~err[o] /\ Cut
    <3>1. ImageOf(s)' = snd'[o] /\ ImageOf(s) = Queue(s) /\ closed' /\ Fault'
      BY <1>1, <2>6 DEF Cut, ImageOf
    <3>2. snd'[o] = snd[o] \/ snd'[o] = <<>>
      BY <2>1, <2>6 DEF Cut
    <3> QED BY <2>1, <3>1, <3>2
  <2> QED BY <2>2, <2>3, <2>4, <2>5, <2>6, LoopMoves
<1> QED BY <1>1, <1>2, <1>3, <1>4, <1>5, <1>6, <1>7

\* So it is a stutter or a break of the relay.
LEMMA LoopIsRelay ==
  ASSUME Inv, Inv', CauseInv, CauseInv', LoopStep \/ Stop
  PROVE  Promise!Break \/ UNCHANGED Promise!vars
<1>1. CASE closed' /\ Fault'
  BY <1>1, LoopImages, Breaks DEF LostOf
<1>2. CASE ~(closed' /\ Fault')
  <2>1. Fault' <=> Fault
    BY <1>2, LoopImages
  <2>2. ASSUME NEW s \in Sides
        PROVE  ImageOf(s)' = ImageOf(s) /\ (LostOf(s)' <=> LostOf(s))
    BY <1>2, <2>1, LoopImages DEF LostOf
  <2> QED BY <2>1, <2>2, LoopImages, Stutters
<1> QED BY <1>1, <1>2

\* The steps of the network and the peers, on the relay's level.
LEMMA EnvironmentIsRelay ==
  ASSUME Inv, Inv', CauseInv, CauseInv', CleanClose, Environment
  PROVE  Promise!Next \/ UNCHANGED Promise!vars
<1> USE DEF Promise!Ends
<1>1. \A s \in Sides : /\ Other(s) \in Sides /\ Other(s) # s /\ Other(Other(s)) = s
                       /\ Promise!Opposite(s) = Other(s)
                       /\ \A t \in Sides : t = s \/ t = Other(s)
  BY DEF Sides, Other, Promise!Opposite
<1>2. \A s \in Sides : InTransit(s) = ImageOf(s) /\ InTransit(s)' = ImageOf(s)'
  BY ImageIs, ImageNext DEF ImageAsMapped
<1>3. Sides = Promise!Ends
  BY DEF Sides
<1>4. CASE Connect("ok") \/ Connect("failed") \/ ThreeSecondsPass
  <2>1. ~closed
    BY <1>4 DEF Connect, ThreeSecondsPass, Inv, SessionInv, Lifecycle, CauseInv, KernelInv
  <2>2. UNCHANGED <<conn, closed, rcv, snd, err, sent, got, fin, eof, phase>>
    BY <1>4 DEF Connect, ThreeSecondsPass, peers, session, loop
  <2>3. Fault' <=> Fault
    BY <2>1, <2>2 DEF CauseInv, KernelInv, Fault
  <2>4. \A s \in Sides : ImageOf(s)' = ImageOf(s) /\ (LostOf(s)' <=> LostOf(s))
    BY <2>1, <2>2 DEF ImageOf, Queue, LostOf
  <2> QED BY <2>2, <2>3, <2>4, Stutters
<1>5. CASE \E s \in Sides : PeerReset(s)
  <2>1. PICK s \in Sides : PeerReset(s)
    BY <1>5
  <2>2. /\ err' = [err EXCEPT ![s] = TRUE] /\ snd' = [snd EXCEPT ![s] = <<>>]
        /\ ~closed /\ UNCHANGED <<conn, closed, rcv, got, sent, fin, eof>>
    BY <2>1 DEF PeerReset, peers, Live, session
  <2>3. err'[s] = TRUE /\ \A t \in Sides : t # s => err'[t] = err[t] /\ snd'[t] = snd[t]
    BY <2>2 DEF Inv, LoopType, SessionType, BuffersOK
  <2>4. Fault'
    BY <2>3 DEF Fault
  <2>5. ASSUME NEW t \in Sides
        PROVE  \/ ImageOf(t)' = ImageOf(t) /\ (LostOf(t)' <=> LostOf(t))
               \/ LostOf(t)' /\ Promise!StartsWith(ImageOf(t), ImageOf(t)')
    <3>1. CASE Other(t) = s
      BY <2>3, <3>1, ImageType DEF LostOf, ImageOf
    <3>2. CASE Other(t) # s
      BY <1>1, <2>2, <2>3, <3>2 DEF LostOf, ImageOf, Queue
    <3> QED BY <3>1, <3>2
  <2>6. Promise!Break
    BY <2>2, <2>4, <2>5, Breaks
  <2> QED BY <2>6 DEF Promise!Next
<1>6. CASE \E s \in Sides : PeerFin(s)
  <2>1. PICK s \in Sides : PeerFin(s)
    BY <1>6
  <2>2. /\ fin' = [fin EXCEPT ![s] = TRUE] /\ ~fin[s]
        /\ UNCHANGED <<conn, closed, connector, phase, dial, timedOut, rcv, snd, err, sent, got, eof>>
    BY <2>1 DEF PeerFin, peers, session, loop
  <2>3. Fault' = Fault
    BY <2>2 DEF Fault
  <2>4. \A t \in Sides : InTransit(t)' = InTransit(t)
    BY <2>2 DEF InTransit
  <2>5. Promise!End(s)
    BY <2>2, <2>3, <2>4 DEF Promise!End
  <2> QED BY <1>3, <2>5 DEF Promise!Next
<1>7. CASE \E s \in Sides : PeerReadEof(s)
  <2>1. PICK s \in Sides : PeerReadEof(s)
    BY <1>7
  <2> DEFINE o == Other(s)
  <2>2. /\ eof' = [eof EXCEPT ![s] = TRUE] /\ ~eof[s]
        /\ wire[s] = "fin" /\ snd[s] = <<>> /\ ~err[s]
        /\ UNCHANGED <<conn, closed, connector, phase, dial, timedOut, rcv, snd, err, sent, got, fin>>
    BY <2>1 DEF PeerReadEof, kernel, session, loop
  <2>3. Fault' = Fault
    BY <2>2 DEF Fault
  <2>4. \A t \in Sides : InTransit(t)' = InTransit(t)
    BY <2>2 DEF InTransit
  <2>5. InTransit(o) = <<>> /\ (fin[o] \/ Fault)
    <3>1. CASE closed
      BY <1>1, <2>2, <3>1 DEF CleanClose, InTransit
    <3>2. CASE ~closed
      <4>1. conn[s].writeShutdown /\ WellFormed(conn[s])
        BY <2>2, <3>2 DEF CauseInv, EndInv, Inv, SessionInv
      <4>2. conn[s].output = <<>> /\ conn[s].shutdownRequested /\ conn[s].state # "None"
        BY <4>1 DEF WellFormed, Blank
      <4>3. connector = "Succeeded"
        BY <3>2, <4>2 DEF Inv, SessionInv, Lifecycle, Sides
      <4>4. conn[o].receivedEof
        BY <1>1, <3>2, <4>2, <4>3 DEF Inv, SessionInv, Coupling
      <4>5. fin[o] /\ rcv[o] = <<>>
        BY <1>1, <3>2, <4>4 DEF CauseInv, EndInv
      <4>6. Queue(o) = <<>>
        <5>1. Cat(<<>>, <<>>) = <<>>
          BY EmptySeq, ConcatEmptySeq DEF Cat
        <5> QED BY <1>1, <2>2, <4>2, <4>5, <5>1 DEF Queue, Stream
      <4> QED BY <1>1, <1>2, <2>2, <3>2, <4>5, <4>6 DEF ImageOf
    <3> QED BY <3>1, <3>2
  <2>6. Promise!DeliverEnd(o)
    BY <1>1, <2>2, <2>3, <2>4, <2>5 DEF Promise!DeliverEnd
  <2> QED BY <1>1, <1>3, <2>6 DEF Promise!Next
<1>8. CASE \E s \in Sides : PeerSend(s)
  <2>1. PICK s \in Sides : PeerSend(s)
    BY <1>8
  <2>2. /\ ~closed /\ ~fin[s]
        /\ sent' = [sent EXCEPT ![s] = Append(@, Len(@) + 1)]
        /\ Queue(s)' = Append(Queue(s), Len(sent[s]) + 1)
        /\ \A t \in Sides : t # s => Queue(t)' = Queue(t)
        /\ UNCHANGED <<connector, closed, phase, dial, timedOut, err, got, fin, eof>>
    BY <2>1, PeerSendQueues
  <2>3. Fault' = Fault
    BY <2>2 DEF Fault
  <2>4. \A t \in Sides : t # s => InTransit(t)' = InTransit(t)
    BY <1>2, <2>2 DEF ImageOf
  <2>5. CASE err[Other(s)]
    <3>1. InTransit(s)' = InTransit(s)
      BY <2>2, <2>5 DEF InTransit
    <3> QED BY <1>3, <2>2, <2>3, <2>4, <2>5, <3>1 DEF Promise!Send, Promise!Next
  <2>6. CASE ~err[Other(s)]
    <3>1. InTransit(s)' = Append(InTransit(s), Len(sent[s]) + 1)
      BY <1>2, <2>2, <2>6 DEF ImageOf
    <3>2. [t \in Sides |-> InTransit(t)'] =
            [[t \in Sides |-> InTransit(t)] EXCEPT ![s] = Append(@, Len(sent[s]) + 1)]
      BY <2>4, <3>1
    <3>3. Promise!Send(s)
      BY <2>2, <2>3, <2>6, <3>2 DEF Promise!Send
    <3> QED BY <1>3, <3>3 DEF Promise!Next
  <2> QED BY <2>5, <2>6
<1>9. CASE \E s \in Sides : PeerRead(s)
  <2>1. PICK s \in Sides : PeerRead(s)
    BY <1>9
  <2> DEFINE o == Other(s)
  <2>2. /\ ~err[s] /\ snd[s] # <<>>
        /\ got' = [got EXCEPT ![s] = Append(@, Head(snd[s]))]
        /\ snd' = [snd EXCEPT ![s] = Tail(@)]
        /\ Queue(o) # <<>> /\ Head(Queue(o)) = Head(snd[s])
        /\ Queue(o)' = Tail(Queue(o)) /\ Queue(s)' = Queue(s)
        /\ UNCHANGED <<connector, closed, phase, dial, timedOut, fin, err, sent, eof>>
    BY <2>1, PeerReadQueues
  <2>3. snd'[s] = Tail(snd[s]) /\ snd'[o] = snd[o]
    BY <1>1, <2>2 DEF Inv, SessionType, BuffersOK
  <2>4. Fault' = Fault
    BY <2>2 DEF Fault
  <2>5. InTransit(s)' = InTransit(s)
    BY <1>1, <1>2, <2>2, <2>3 DEF ImageOf
  <2>6. /\ InTransit(o) # <<>> /\ Head(InTransit(o)) = Head(snd[s])
        /\ InTransit(o)' = Tail(InTransit(o))
    <3>1. CASE closed
      <4>1. ImageOf(o) = snd[s] /\ ImageOf(o)' = snd'[s]
        BY <1>1, <2>2, <3>1 DEF ImageOf
      <4> QED BY <1>1, <1>2, <2>2, <2>3, <4>1
    <3>2. CASE ~closed
      <4>1. ImageOf(o) = Queue(o) /\ ImageOf(o)' = Queue(o)'
        BY <1>1, <2>2, <3>2 DEF ImageOf
      <4> QED BY <1>1, <1>2, <2>2, <4>1
    <3> QED BY <3>1, <3>2
  <2>7. [t \in Sides |-> InTransit(t)'] = [[t \in Sides |-> InTransit(t)] EXCEPT ![o] = Tail(@)]
    <3>1. \A t \in Sides : InTransit(t)' = IF t = o THEN Tail(InTransit(o)) ELSE InTransit(t)
      BY <1>1, <2>5, <2>6
    <3> HIDE DEF o
    <3> QED BY <3>1
  <2>8. Promise!Deliver(o)
    BY <1>1, <2>2, <2>4, <2>6, <2>7 DEF Promise!Deliver
  <2> QED BY <1>1, <1>3, <2>8 DEF Promise!Next
<1> QED BY <1>4, <1>5, <1>6, <1>7, <1>8, <1>9 DEF Environment

\* The session starts as the relay does.
LEMMA RelayInit == Init => Promise!Init
<1> SUFFICES ASSUME Init PROVE Promise!Init
  OBVIOUS
<1>1. ~Fault /\ \A s \in Sides : err[Other(s)] = FALSE
  BY DEF Init, Fault, Sides, Other
<1>2. \A s \in Sides : InTransit(s) = <<>>
  <2>1. Inv
    BY InvInit
  <2>2. \A s \in Sides : snd[Other(s)] = <<>> /\ rcv[s] = <<>> /\ conn[Other(s)].output = <<>>
    BY DEF Init, Sides, Other, Blank
  <2>3. Cat(<<>>, <<>>) = <<>>
    BY EmptySeq, ConcatEmptySeq DEF Cat
  <2>4. \A s \in Sides : ImageOf(s) = <<>>
    BY <2>2, <2>3 DEF ImageOf, Queue, Stream
  <2> QED BY <2>1, <2>4, ImageIs DEF ImageAsMapped
<1>3. closed = FALSE
  BY DEF Init
<1>4. [s \in Sides |-> err[Other(s)] \/ (closed /\ Fault)] = [s \in Sides |-> FALSE]
  BY <1>1, <1>3
<1>5. Fault = FALSE
  BY <1>1 DEF Fault
<1> QED BY <1>2, <1>4, <1>5 DEF Init, Promise!Init, Promise!Ends, Sides

\* The session implements the relay: on the level of the two peers each step
\* of the proxy, its kernel and the network sends, delivers or ends a stream,
\* or breaks it for a cause.
THEOREM SessionIsRelay == Spec => ImplementsRelay
<1>1. SessionStreams /\ SessionStreams' /\ [Next]_vars => [Promise!Next]_(Promise!vars)
  <2> SUFFICES ASSUME SessionStreams, SessionStreams', [Next]_vars
               PROVE  Promise!Next \/ UNCHANGED Promise!vars
    OBVIOUS
  <2> USE DEF SessionStreams
  <2>1. CASE LoopStep \/ Stop
    BY <2>1, LoopIsRelay DEF Promise!Next
  <2>2. CASE Environment
    BY <2>2, EnvironmentIsRelay
  <2>3. CASE UNCHANGED vars
    BY <2>3 DEF vars, session, loop, kernel, peers, Promise!vars, InTransit, Fault
  <2> QED BY <2>1, <2>2, <2>3 DEF Next
<1> QED BY <1>1, RelayInit, StreamsHold, PTL DEF Spec, ImplementsRelay, Promise!SafeSpec
=============================================================================
