------------------------- MODULE TcpEndpointProofs -------------------------
(***************************************************************************)
(* A connection keeps its promises to any user, for every size of the      *)
(* send buffer, every length of what is sent and every order of the calls; *)
(* and the buffer that it keeps bytes in, for any prepend area, initial    *)
(* size and pieces: the indices stay in order, the storage follows the     *)
(* backlog, and the buffer is a queue of bytes.                            *)
(***************************************************************************)
EXTENDS TcpEndpoint, Buffer, TcpConnectionProofs

\* BytesInOrder, for the time before Establish as well.
Streams == IsOpen(conn) /\ ~err => given = Stream(got, snd, conn.output, <<>>)

\* A close callback is only ever on its way for a reset or a closed connection.
HangupIsKnown == PausedOutlivesHangup

\* The close callback tells of a connection that is closed for good.
ClosedWhenTold == told = "close" => conn.state = "Disconnected"

\* The inductive invariant.
Inv == TypeOK /\ WellFormed(conn) /\ Streams /\ HangupIsKnown /\ ClosedWhenTold

-----------------------------------------------------------------------------
(* Steps that are alike                                                    *)

\* The parts of the stream are sequences.
LEMMA Parts ==
  ASSUME Inv
  PROVE  /\ Sound(conn) /\ conn \in Connection /\ conn.output \in Seq(Nat)
         /\ got \in Seq(Nat) /\ snd \in Seq(Nat) /\ given \in Seq(Nat)
         /\ Len(given) \in Nat /\ Len(snd) \in Nat /\ SndCap \in Nat /\ MaxGiven \in Nat
  BY EndpointAssumption, LenProperties DEF Inv, TypeOK, Sound, Connection

\* A step of the connection alone, which sends nothing and closes nothing.
LEMMA QuietPreserves ==
  ASSUME Inv, TypeOK', Sound(conn'), conn'.output = conn.output,
         IsOpen(conn') => IsOpen(conn),
         conn.state = "Disconnected" => conn'.state = "Disconnected",
         ready' \subseteq ready, told' = "close" => told = "close",
         UNCHANGED <<given, snd, err, got>>
  PROVE  Inv'
  BY DEF Inv, Sound, Streams, HangupIsKnown, PausedOutlivesHangup, ClosedWhenTold

\* ForceClose, from whichever callback or call.
LEMMA ClosePreserves ==
  ASSUME Inv, CloseNow, phase' \in {"poll", "dispatch"}, ready' \subseteq ready,
         UNCHANGED <<given, unread, fin, err, got, eof>>
  PROVE  Inv'
<1>1. Sound(conn') /\ ~IsOpen(conn')
  BY Parts, ForceCloseSound DEF CloseNow
<1>2. conn'.state = IF conn.state = "None" THEN "None" ELSE "Disconnected"
  BY Parts, ForceCloseSound DEF CloseNow
<1>3. TypeOK'
  <2>1. snd' \in Seq(Nat) /\ Len(snd') <= SndCap
    BY Parts, EmptySeq DEF CloseNow, SndAfterClose, Inv, TypeOK
  <2>2. told' \in {"none", "message", "eof", "drained", "close"}
    BY DEF CloseNow, Inv, TypeOK
  <2> QED BY <1>1, <2>1, <2>2 DEF Sound, Inv, TypeOK
<1>4. Streams'
  BY <1>1 DEF Streams
<1>5. HangupIsKnown'
  BY <1>2 DEF Inv, HangupIsKnown, PausedOutlivesHangup
<1>6. ClosedWhenTold'
  BY <1>2 DEF CloseNow, IsOpen, Inv, ClosedWhenTold
<1> QED BY <1>1, <1>3, <1>4, <1>5, <1>6 DEF Inv, Sound

\* What send() may take of n bytes.
LEMMA AcceptedRange ==
  ASSUME Inv, NEW n \in Nat, NEW k \in Accepted(n)
  PROVE  k \in 0 .. n /\ Len(snd) + k <= SndCap
  BY Parts DEF Accepted, Free

\* The bytes that send() takes fit into the send buffer.
LEMMA SndGrows ==
  ASSUME Inv, NEW q \in Seq(Nat), NEW k \in 0 .. Len(q), Len(snd) + k <= SndCap
  PROVE  /\ Cat(snd, SubSeq(q, 1, k)) \in Seq(Nat)
         /\ Len(Cat(snd, SubSeq(q, 1, k))) <= SndCap
<1>1. SubSeq(q, 1, k) \in Seq(Nat) /\ Len(SubSeq(q, 1, k)) = k
  <2>1. Len(q) \in Nat
    BY LenProperties
  <2>2. SubSeq(q, 1, k) \in Seq(Nat) /\ Len(SubSeq(q, 1, k)) = k + 1 - 1
    BY <2>1, SubSeqIsSeq
  <2> QED BY <2>1, <2>2
<1>2. snd \o SubSeq(q, 1, k) \in Seq(Nat)
      /\ Len(snd \o SubSeq(q, 1, k)) = Len(snd) + Len(SubSeq(q, 1, k))
  BY <1>1, Parts, ConcatProperties
<1> QED BY <1>1, <1>2 DEF Cat

\* An open connection that epoll watches is established.
LEMMA AddedIsConnected ==
  ASSUME Inv, conn.added
  PROVE  conn.state = "Connected"
  BY Parts DEF Sound, WellFormed, Blank, Connection, ConnState

-----------------------------------------------------------------------------
(* The user's calls                                                        *)

\* Send: what the kernel does not take goes behind what already waits.
LEMMA SendPreserves ==
  ASSUME Inv, UserSend
  PROVE  Inv'
<1>1. PICK n \in 1 .. MaxLength :
        /\ Len(given) + n <= MaxGiven
        /\ IF conn.output = <<>> /\ err
           THEN CloseNow /\ UNCHANGED given
           ELSE \E taken \in IF conn.output = <<>> THEN Accepted(n) ELSE {0} :
                  /\ conn' = Send(conn, Data(n), taken)
                  /\ snd' = snd \o SubSeq(Data(n), 1, taken)
                  /\ given' = given \o Data(n)
                  /\ UNCHANGED told
  BY DEF UserSend
<1>2. /\ ~Drops(conn) /\ conn.state = "Connected"
      /\ UNCHANGED <<phase, ready, unread, fin, err, got, eof>>
  BY DEF UserSend, Drops, peer
<1>3. CASE conn.output = <<>> /\ err
  BY <1>1, <1>2, <1>3, ClosePreserves DEF Inv, TypeOK
<1>4. CASE ~(conn.output = <<>> /\ err)
  <2>1. PICK taken \in IF conn.output = <<>> THEN Accepted(n) ELSE {0} :
          /\ conn' = Send(conn, Data(n), taken)
          /\ snd' = Cat(snd, SubSeq(Data(n), 1, taken))
          /\ given' = Cat(given, Data(n))
          /\ UNCHANGED told
    BY <1>1, <1>4 DEF Cat
  <2> DEFINE data == Data(n)
             rest == SubSeq(data, taken + 1, Len(data))
  <2>2. n \in Nat /\ data \in Seq(Nat) /\ Len(data) = n
    BY Parts, EndpointAssumption DEF Data
  <2>3. taken \in 0 .. Len(data) /\ Len(snd) + taken <= SndCap
    <3>1. CASE conn.output = <<>>
      BY <2>1, <2>2, <3>1, AcceptedRange
    <3>2. CASE conn.output # <<>>
      BY <2>1, <2>2, <3>2, Parts DEF Inv, TypeOK
    <3> QED BY <3>1, <3>2
  <2> HIDE DEF data
  <2>4. conn' = Send(conn, data, taken)
    BY <2>1 DEF data
  <2>5. /\ Sound(conn') /\ conn'.state = conn.state
        /\ conn'.output = conn.output \o rest
    BY <1>2, <2>2, <2>3, <2>4, Parts, SendSound
  <2>6. snd' \in Seq(Nat) /\ Len(snd') <= SndCap
    BY <2>1, <2>2, <2>3, SndGrows DEF data
  <2>7. given' \in Seq(Nat) /\ Len(given') <= MaxGiven
    BY <1>1, <2>1, <2>2, Parts, ConcatProperties DEF Cat, data
  <2>8. TypeOK'
    BY <1>2, <2>1, <2>5, <2>6, <2>7 DEF Inv, TypeOK, Sound
  <2>9. Streams'
    <3>1. SUFFICES ASSUME ~err PROVE given' = Stream(got, snd', conn'.output, <<>>)
      BY <1>2 DEF Streams
    <3>2. given = Stream(got, snd, conn.output, <<>>)
      BY <1>2, <3>1 DEF Inv, Streams, IsOpen
    <3>3. taken = 0 \/ conn.output = <<>>
      BY <2>1
    <3>4. Stream(got, Cat(snd, SubSeq(data, 1, taken)), Cat(conn.output, rest), <<>>)
            = Cat(Stream(got, snd, conn.output, <<>>), data)
      BY <2>2, <2>3, <3>3, Parts, SendExtendsStream
    <3>5. snd' = Cat(snd, SubSeq(data, 1, taken)) /\ given' = Cat(given, data)
          /\ conn'.output = Cat(conn.output, rest)
      BY <2>1, <2>5 DEF Cat, data
    <3> QED BY <3>2, <3>4, <3>5
  <2>10. HangupIsKnown' /\ ClosedWhenTold'
    BY <1>2, <2>1, <2>5 DEF Inv, HangupIsKnown, PausedOutlivesHangup, ClosedWhenTold
  <2> QED BY <2>5, <2>8, <2>9, <2>10 DEF Inv, Sound
<1> QED BY <1>3, <1>4

\* The calls that only touch the object.
LEMMA CallPreserves ==
  ASSUME Inv, UserEstablish \/ UserStartRead \/ UserStopRead \/ UserShutdownWrite
  PROVE  Inv'
<1>1. UNCHANGED <<phase, ready, told, given, snd, unread, fin, err, got, eof>>
  BY DEF UserEstablish, UserStartRead, UserStopRead, UserShutdownWrite, kernel, peer
<1>2. /\ Sound(conn') /\ conn'.output = conn.output
      /\ IsOpen(conn') => IsOpen(conn)
      /\ conn.state = "Disconnected" => conn'.state = "Disconnected"
  <2>1. CASE UserEstablish
    <3>1. PICK start \in BOOLEAN : conn' = Establish(conn, start)
      BY <2>1 DEF UserEstablish
    <3>2. conn = Blank("Connecting") /\ conn.state = "Connecting"
      BY <2>1 DEF UserEstablish, Inv, WellFormed
    <3>3. conn.output = <<>>
      BY <3>2 DEF Blank
    <3>4. conn' = Establish(Blank("Connecting"), start)
      BY <3>1, <3>2
    <3>5. Sound(conn') /\ conn'.state = "Connected" /\ conn'.output = <<>>
      BY <3>4, EstablishSound
    <3> QED BY <3>2, <3>3, <3>5 DEF IsOpen
  <2>2. CASE UserStartRead
    BY <2>2, Parts, StartReadSound DEF UserStartRead, IsOpen
  <2>3. CASE UserStopRead
    BY <2>3, Parts, StopReadSound DEF UserStopRead, IsOpen
  <2>4. CASE UserShutdownWrite /\ conn.state = "Connected"
    BY <2>4, Parts, ShutdownWriteSound DEF UserShutdownWrite, IsOpen
  <2>5. CASE UserShutdownWrite /\ conn.state # "Connected"
    BY <2>5, Parts DEF UserShutdownWrite, ShutdownWrite
  <2> QED BY <2>1, <2>2, <2>3, <2>4, <2>5
<1>3. TypeOK'
  BY <1>1, <1>2 DEF Inv, TypeOK, Sound
<1> QED BY <1>1, <1>2, <1>3, QuietPreserves

\* Whatever the user does.
LEMMA UserPreserves ==
  ASSUME Inv, User
  PROVE  Inv'
<1>1. CASE UserForceClose
  BY <1>1, ClosePreserves DEF UserForceClose, Inv, TypeOK, peer
<1> QED BY <1>1, CallPreserves, SendPreserves DEF User

-----------------------------------------------------------------------------
(* The event loop                                                          *)

\* epoll_wait: EPOLLHUP alone would need a channel with no event in epoll.
LEMMA PollPreserves ==
  ASSUME Inv, Poll \/ EndOfBatch
  PROVE  Inv'
<1>1. /\ UNCHANGED <<conn, told, given, snd, unread, fin, err, got, eof>>
      /\ phase' \in {"poll", "dispatch"}
      /\ ready' = ready \/ ready' = ReadyEvents
  BY DEF Poll, EndOfBatch, kernel, peer
<1>2. ReadyEvents \subseteq Event
  BY DEF ReadyEvents
<1>3. TypeOK'
  BY <1>1, <1>2 DEF Inv, TypeOK
<1>4. "CLOSE" \in ReadyEvents => err
  <2>1. SUFFICES ASSUME "CLOSE" \in ReadyEvents, ~err PROVE FALSE
    OBVIOUS
  <2>2. conn.added /\ conn.writeShutdown /\ "IN" \notin conn.events
    BY <2>1 DEF ReadyEvents
  <2>3. conn.state = "Connected"
    BY <2>2, AddedIsConnected
  <2>4. conn.events # {} /\ conn.output = <<>> /\ "OUT" \notin conn.events
    BY <2>2, <2>3 DEF Inv, WellFormed
  <2>5. conn.events \subseteq {"IN", "OUT"}
    BY Parts DEF Connection, Interest
  <2> QED BY <2>2, <2>4, <2>5
<1>5. HangupIsKnown'
  BY <1>1, <1>4 DEF Inv, HangupIsKnown, PausedOutlivesHangup
<1> QED BY <1>1, <1>3, <1>5 DEF Inv, Streams, ClosedWhenTold

\* What every callback of a batch leaves alone.
LEMMA Dispatched ==
  ASSUME Inv, NEW ev \in Event, Dispatch(ev)
  PROVE  /\ phase' = "dispatch" /\ ready' \subseteq ready
         /\ ready' \in SUBSET Event
         /\ UNCHANGED <<given, fin, err, got, eof>>
  BY DEF Dispatch, peer, Inv, TypeOK

\* HandleRead, when it does not close the connection.
LEMMA ReadPreserves ==
  ASSUME Inv, ReadSkipped \/ ReadMessage \/ ReadEof
  PROVE  Inv'
<1>1. Dispatch("IN") /\ snd' = snd /\ unread' \in BOOLEAN
  BY DEF ReadSkipped, ReadMessage, ReadEof, Inv, TypeOK
<1>2. /\ ready' \subseteq ready /\ ready' \in SUBSET Event /\ phase' = "dispatch"
      /\ UNCHANGED <<given, fin, err, got, eof>>
  BY <1>1, Dispatched DEF Event
<1>3. told' = told \/ told' \in {"message", "eof"}
  BY DEF ReadSkipped, ReadMessage, ReadEof
<1>4. Sound(conn') /\ conn'.output = conn.output /\ conn'.state = conn.state
  <2>1. CASE ReadEof
    BY <2>1, Parts, EofSound DEF ReadEof, CanRead
  <2>2. CASE ~ReadEof
    BY <2>2, Parts DEF ReadSkipped, ReadMessage
  <2> QED BY <2>1, <2>2
<1>5. TypeOK'
  BY <1>1, <1>2, <1>3, <1>4 DEF Inv, TypeOK, Sound
<1> QED BY <1>1, <1>2, <1>3, <1>4, <1>5, QuietPreserves DEF IsOpen

\* HandleWrite: the bytes that the kernel takes stay in the stream.
LEMMA WriteOutputPreserves ==
  ASSUME Inv, WriteOutput
  PROVE  Inv'
<1>1. /\ Dispatch("OUT") /\ unread' = unread /\ ~err
      /\ conn.state = "Connected" /\ conn.output # <<>>
  BY DEF WriteOutput, CanWrite
<1>2. PICK taken \in Accepted(Len(conn.output)) :
        /\ conn' = Drained(conn, taken)
        /\ snd' = Cat(snd, SubSeq(conn.output, 1, taken))
        /\ told' = IF conn'.output = <<>> THEN "drained" ELSE told
  BY DEF WriteOutput, Cat
<1>3. taken \in 0 .. Len(conn.output) /\ Len(snd) + taken <= SndCap
  BY Parts, AcceptedRange, LenProperties
<1>4. /\ ready' \subseteq ready /\ ready' \in SUBSET Event /\ phase' = "dispatch"
      /\ UNCHANGED <<given, fin, err, got, eof>>
  BY <1>1, Dispatched DEF Event
<1>5. /\ Sound(conn') /\ conn'.state = conn.state
      /\ conn'.output = SubSeq(conn.output, taken + 1, Len(conn.output))
  BY <1>1, <1>2, <1>3, Parts, DrainedSound
<1>6. snd' \in Seq(Nat) /\ Len(snd') <= SndCap
  BY <1>2, <1>3, Parts, SndGrows
<1>7. TypeOK'
  BY <1>1, <1>2, <1>4, <1>5, <1>6 DEF Inv, TypeOK, Sound
<1>8. Streams'
  <2>1. given = Stream(got, snd, conn.output, <<>>)
    BY <1>1 DEF Inv, Streams, IsOpen
  <2>2. <<>> \in Seq(Nat)
    BY EmptySeq
  <2>3. ASSUME NEW g \in Seq(Nat), NEW w \in Seq(Nat), NEW out \in Seq(Nat), NEW t \in 0 .. Len(out)
        PROVE  Stream(g, Cat(w, SubSeq(out, 1, t)), SubSeq(out, t + 1, Len(out)), <<>>)
                 = Stream(g, w, out, <<>>)
    <3>1. \A r \in Seq(Nat) :
            Stream(g, Cat(w, SubSeq(out, 1, t)), SubSeq(out, t + 1, Len(out)), r)
              = Stream(g, w, out, r)
      BY FlushKeepsStream
    <3> QED BY <2>2, <3>1
  <2>4. Stream(got, snd', conn'.output, <<>>) = Stream(got, snd, conn.output, <<>>)
    BY <1>2, <1>3, <1>5, <2>3, Parts
  <2> QED BY <1>4, <1>5, <2>1, <2>4 DEF Streams, IsOpen
<1>9. HangupIsKnown' /\ ClosedWhenTold'
  BY <1>1, <1>2, <1>4, <1>5 DEF Inv, HangupIsKnown, PausedOutlivesHangup, ClosedWhenTold
<1> QED BY <1>5, <1>7, <1>8, <1>9 DEF Inv, Sound

\* Whatever the event loop does.
LEMMA LoopPreserves ==
  ASSUME Inv, LoopStep
  PROVE  Inv'
<1>1. CASE HandleClose \/ ReadError \/ WriteError
  <2>1. \E ev \in Event : Dispatch(ev)
    BY <1>1 DEF HandleClose, ReadError, WriteError, Event
  <2>2. CloseNow /\ unread' = unread
    BY <1>1 DEF HandleClose, ReadError, WriteError
  <2> QED BY <2>1, <2>2, Dispatched, ClosePreserves
<1>2. CASE WriteSkipped
  <2>1. Dispatch("OUT") /\ UNCHANGED <<conn, told, snd, unread>>
    BY <1>2 DEF WriteSkipped
  <2>2. /\ ready' \subseteq ready /\ ready' \in SUBSET Event /\ phase' = "dispatch"
        /\ UNCHANGED <<given, fin, err, got, eof>>
    BY <2>1, Dispatched DEF Event
  <2>3. TypeOK'
    BY <2>1, <2>2 DEF Inv, TypeOK
  <2> QED BY <2>1, <2>2, <2>3, Parts, QuietPreserves
<1> QED BY <1>1, <1>2, PollPreserves, ReadPreserves, WriteOutputPreserves DEF LoopStep

-----------------------------------------------------------------------------
(* The peer                                                                *)

\* Whatever the peer does.
LEMMA PeerPreserves ==
  ASSUME Inv, Peer
  PROVE  Inv'
<1>1. UNCHANGED <<conn, phase, ready, told, given>>
  BY DEF Peer, PeerSend, PeerFin, PeerReset, PeerRead, PeerReadEof
<1>2. (err => err') /\ err' \in BOOLEAN
  BY DEF Peer, PeerSend, PeerFin, PeerReset, PeerRead, PeerReadEof, kernel, Inv, TypeOK
<1>3. Sound(conn') /\ HangupIsKnown' /\ ClosedWhenTold'
  BY <1>1, <1>2, Parts DEF Inv, HangupIsKnown, PausedOutlivesHangup, ClosedWhenTold
<1>4. TypeOK' /\ Streams'
  <2>1. CASE PeerRead
    <3>1. /\ snd # <<>> /\ got' = Append(got, Head(snd)) /\ snd' = Tail(snd)
          /\ UNCHANGED <<unread, fin, err, eof>>
      BY <2>1 DEF PeerRead
    <3>2. /\ Head(snd) \in Nat /\ Tail(snd) \in Seq(Nat) /\ Len(Tail(snd)) <= SndCap
      BY <3>1, Parts, HeadTailProperties DEF Inv, TypeOK
    <3>3. got' \in Seq(Nat)
      BY <3>1, <3>2, Parts, AppendProperties
    <3>4. Stream(got', snd', conn.output, <<>>) = Stream(got, snd, conn.output, <<>>)
      BY <3>1, Parts, PeerReadKeepsStream
    <3> QED BY <1>1, <3>1, <3>2, <3>3, <3>4 DEF Inv, TypeOK, Streams
  <2>2. CASE PeerReset
    BY <1>1, <2>2, EmptySeq, Parts DEF PeerReset, peer, Inv, TypeOK, Streams
  <2>3. CASE PeerSend \/ PeerFin \/ PeerReadEof
    BY <1>1, <2>3 DEF PeerSend, PeerFin, PeerReadEof, kernel, peer, Inv, TypeOK, Streams
  <2> QED BY <2>1, <2>2, <2>3 DEF Peer
<1> QED BY <1>3, <1>4 DEF Inv, Sound

-----------------------------------------------------------------------------
(* The connection's theorems                                               *)

\* A new connection satisfies the invariant.
LEMMA InvInit == Init => Inv
<1> SUFFICES ASSUME Init PROVE Inv
  OBVIOUS
<1>1. conn = Blank("Connecting") /\ conn.state = "Connecting" /\ Sound(conn)
  BY BlankSound DEF Init
<1>2. conn.output = <<>>
  BY <1>1 DEF Blank
<1>3. TypeOK
  <2>1. <<>> \in Seq(Nat) /\ Len(<<>>) = 0
    BY EmptySeq
  <2>2. given \in Seq(Nat) /\ Len(given) <= MaxGiven
    BY <2>1, EndpointAssumption DEF Init
  <2>3. snd \in Seq(Nat) /\ Len(snd) <= SndCap /\ got \in Seq(Nat)
    BY <2>1, EndpointAssumption DEF Init
  <2> QED BY <1>1, <2>2, <2>3 DEF Init, TypeOK, Sound
<1>4. Stream(got, snd, conn.output, <<>>) = <<>>
  BY <1>2, EmptySeq, CatProperties DEF Init, Stream
<1> QED BY <1>1, <1>3, <1>4
        DEF Init, Inv, Sound, Streams, HangupIsKnown, PausedOutlivesHangup, ClosedWhenTold

\* Every step preserves the invariant.
LEMMA InvNext == Inv /\ [Next]_vars => Inv'
<1> SUFFICES ASSUME Inv, [Next]_vars PROVE Inv'
  OBVIOUS
<1>1. CASE UNCHANGED vars
  BY <1>1 DEF vars, kernel, peer, Inv, TypeOK, Streams, HangupIsKnown,
              PausedOutlivesHangup, ClosedWhenTold
<1> QED BY <1>1, UserPreserves, LoopPreserves, PeerPreserves DEF Next

\* The inductive invariant holds in every reachable state.
LEMMA Invariance == Spec => []Inv
  BY InvInit, InvNext, PTL DEF Spec

\* Flags, epoll's interest and output agree, and no byte that Send accepted is
\* lost or overtaken, by the FIN least of all: whoever calls what when.
THEOREM EndpointIsSound == Spec => []EndpointInv
<1>1. Inv => EndpointInv
  <2> SUFFICES ASSUME Inv PROVE EndpointInv
    OBVIOUS
  <2>1. BytesInOrder
    <3>1. Cat(Cat(got, snd), conn.output) \in Seq(Nat)
      BY Parts, CatProperties
    <3>2. Stream(got, snd, conn.output, <<>>) = Cat(Cat(got, snd), conn.output)
      BY <3>1, CatProperties DEF Stream
    <3> QED BY <3>2 DEF Inv, Streams, IsOpen, BytesInOrder, Cat
  <2>2. FinBehindEveryByte
    <3>1. SUFFICES ASSUME conn.writeShutdown, conn.state = "Connected", ~err
                   PROVE  given = got \o snd
      BY DEF FinBehindEveryByte
    <3>2. conn.output = <<>>
      BY <3>1 DEF Inv, WellFormed
    <3>3. given = Cat(Cat(got, snd), <<>>)
      BY <2>1, <3>1, <3>2 DEF BytesInOrder, Cat
    <3>4. Cat(got, snd) \in Seq(Nat)
      BY Parts, CatProperties
    <3> QED BY <3>3, <3>4, CatProperties DEF Cat
  <2> QED BY <2>1, <2>2 DEF EndpointInv, ConnectionIsSound, Inv
<1> QED BY <1>1, Invariance, PTL

\* Pausing a connection never makes EPOLLHUP close it with bytes unread.
THEOREM PausedIsKept == Spec => []PausedOutlivesHangup
<1>1. Inv => PausedOutlivesHangup
  BY DEF Inv, HangupIsKnown
<1> QED BY <1>1, Invariance, PTL

\* The close callback is the last one, and the end of the stream comes once,
\* with no message behind it.
THEOREM CallbacksComeInOrder == Spec => CallbacksAreOrdered
<1> DEFINE Ordered == /\ told = "close" => told' = "close"
                      /\ conn.receivedEof => told' = told \/ told' \in {"drained", "close"}
<1>1. Inv /\ [Next]_vars => [Ordered]_vars
  <2> SUFFICES ASSUME Inv, Next PROVE Ordered
    OBVIOUS
  <2>1. CASE told' = told
    BY <2>1
  <2>2. CASE CloseNow
    BY <2>2 DEF CloseNow
  <2>3. CASE told' # told /\ ~CloseNow
    <3>1. \/ WriteOutput /\ told' = "drained"
          \/ ReadMessage \/ ReadEof
      BY <2>3 DEF Next, User, UserEstablish, UserStartRead, UserStopRead, UserShutdownWrite,
           UserForceClose, UserSend, LoopStep, Poll, EndOfBatch, HandleClose, ReadSkipped,
           ReadError, WriteSkipped, WriteOutput, WriteError, Peer, PeerSend, PeerFin,
           PeerReset, PeerRead, PeerReadEof
    <3>2. conn.state = "Connected"
      BY <3>1 DEF WriteOutput, CanWrite, ReadMessage, ReadEof, CanRead
    <3>3. told # "close"
      BY <3>2 DEF Inv, ClosedWhenTold
    <3>4. ReadMessage \/ ReadEof => ~conn.receivedEof
      BY <3>2 DEF ReadMessage, ReadEof, CanRead, Inv, WellFormed
    <3> QED BY <3>1, <3>3, <3>4
  <2> QED BY <2>1, <2>2, <2>3
<1> HIDE DEF Ordered
<1>2. Spec => [][Ordered]_vars
  BY <1>1, Invariance, PTL DEF Spec
<1> QED BY <1>2 DEF Ordered, CallbacksAreOrdered

-----------------------------------------------------------------------------
(* The buffer: room to write                                               *)

\* The shape that a call leaves has room for n bytes behind the same content.
Roomy(room, n) ==
  /\ room.storage \in Seq(Nat)
  /\ room.reader \in Nat /\ room.writer \in Nat
  /\ CheapPrepend <= room.reader /\ room.reader <= room.writer
  /\ room.writer + n <= Len(room.storage)
  /\ room.writer - room.reader = ReadableBytes
  /\ \A i \in 1 .. ReadableBytes : room.storage[room.reader + i] = storage[reader + i]

\* A vector that grows is at most twice what has to be held.
Modest(room, n) ==
  \/ Len(room.storage) = Len(storage)
  \/ Len(room.storage) <= CheapPrepend + 2 * (ReadableBytes + n)

LEMMA ResizedKeepsContent ==
  ASSUME BufferTypeOK, NEW n \in Nat, n >= Len(storage)
  PROVE  /\ Resized(n) \in Seq(Nat)
         /\ Len(Resized(n)) = n
         /\ \A i \in 1 .. Len(storage) : Resized(n)[i] = storage[i]
<1>1. \A i \in 1 .. Len(storage) : storage[i] \in Nat BY DEF BufferTypeOK
<1>2. Len(storage) \in Nat BY DEF BufferTypeOK
<1>3. \A i \in 1 .. n : (IF i <= Len(storage) THEN storage[i] ELSE 0) \in Nat
  BY <1>1, <1>2
<1>4. Resized(n) \in [1 .. n -> Nat] BY <1>3 DEF Resized
<1> QED BY <1>2, <1>4 DEF Resized

LEMMA CompactedKeepsContent ==
  ASSUME BufferTypeOK
  PROVE  /\ Compacted \in Seq(Nat)
         /\ Len(Compacted) = Len(storage)
         /\ \A i \in 1 .. ReadableBytes : Compacted[CheapPrepend + i] = storage[reader + i]
<1>1. \A i \in 1 .. Len(storage) : storage[i] \in Nat BY DEF BufferTypeOK
<1>2. /\ Len(storage) \in Nat /\ ReadableBytes \in Nat
      /\ CheapPrepend \in Nat /\ reader \in Nat
      /\ CheapPrepend <= reader /\ reader + ReadableBytes <= Len(storage)
  BY BufferAssumption DEF BufferTypeOK, ReadableBytes, Size
<1>3. ASSUME NEW i \in 1 .. Len(storage), i > CheapPrepend, i <= CheapPrepend + ReadableBytes
      PROVE  i - CheapPrepend + reader \in 1 .. Len(storage)
  BY <1>2, <1>3
<1>4. Compacted \in [1 .. Len(storage) -> Nat] BY <1>1, <1>2, <1>3 DEF Compacted
<1>5. ASSUME NEW i \in 1 .. ReadableBytes
      PROVE  Compacted[CheapPrepend + i] = storage[reader + i]
  <2> DEFINE j == CheapPrepend + i
  <2>1. /\ j \in 1 .. Len(storage) /\ j > CheapPrepend /\ j <= CheapPrepend + ReadableBytes
        /\ j - CheapPrepend + reader = reader + i
    BY <1>2
  <2> HIDE DEF j
  <2>2. Compacted[j] = storage[j - CheapPrepend + reader] BY <2>1 DEF Compacted
  <2>3. Compacted[j] = storage[reader + i] BY <2>1, <2>2
  <2> QED BY <2>3 DEF j
<1> QED BY <1>2, <1>4, <1>5

\* MakeSpace grows or moves; either way the content stays and there is room.
LEMMA EnsureMakesRoom ==
  ASSUME BufferTypeOK, NEW n \in Nat
  PROVE  Roomy(EnsureWritableBytes(n), n) /\ Modest(EnsureWritableBytes(n), n)
<1> DEFINE room == EnsureWritableBytes(n)
<1>1. /\ Len(storage) \in Nat /\ reader \in Nat /\ writer \in Nat /\ CheapPrepend \in Nat
      /\ CheapPrepend <= reader /\ reader <= writer /\ writer <= Len(storage)
  BY BufferAssumption DEF BufferTypeOK, Size
<1>2. CASE ~(WritableBytes < n)
  <2>1. room = Shape(storage, reader, writer) BY <1>2 DEF EnsureWritableBytes, Unmoved
  <2>2. writer + n <= Len(storage) BY <1>1, <1>2 DEF WritableBytes, Size
  <2> QED BY <1>1, <2>1, <2>2 DEF Roomy, Modest, Shape, ReadableBytes, BufferTypeOK
<1>3. CASE WritableBytes < n /\ TooSmall(n)
  <2>1. room = Shape(Resized(writer + n), reader, writer)
    BY <1>3 DEF EnsureWritableBytes, MakeSpace
  <2>2. writer + n \in Nat /\ writer + n >= Len(storage)
    BY <1>1, <1>3 DEF WritableBytes, Size
  <2>3. /\ Resized(writer + n) \in Seq(Nat) /\ Len(Resized(writer + n)) = writer + n
        /\ \A i \in 1 .. Len(storage) : Resized(writer + n)[i] = storage[i]
    BY <2>2, ResizedKeepsContent
  <2>4. \A i \in 1 .. ReadableBytes : reader + i \in 1 .. Len(storage)
    BY <1>1 DEF ReadableBytes
  <2>5. writer + n <= CheapPrepend + 2 * (ReadableBytes + n)
    BY <1>1, <1>3 DEF TooSmall, WritableBytes, PrependableBytes, ReadableBytes, Size
  <2>6. Roomy(room, n)
    <3>1. room.storage = Resized(writer + n) /\ room.reader = reader /\ room.writer = writer
      BY <2>1 DEF Shape
    <3>2. \A i \in 1 .. ReadableBytes : room.storage[room.reader + i] = storage[reader + i]
      BY <2>3, <2>4, <3>1
    <3> HIDE DEF room
    <3> QED BY <1>1, <2>3, <3>1, <3>2, SMTT(30) DEF Roomy, ReadableBytes
  <2> QED BY <2>1, <2>3, <2>5, <2>6 DEF Modest, Shape
<1>4. CASE WritableBytes < n /\ ~TooSmall(n)
  <2>1. room = Shape(Compacted, CheapPrepend, CheapPrepend + ReadableBytes)
    BY <1>4 DEF EnsureWritableBytes, MakeSpace
  <2>2. CheapPrepend + ReadableBytes + n <= Len(storage)
    BY <1>1, <1>4 DEF TooSmall, WritableBytes, PrependableBytes, ReadableBytes, Size
  <2>3. ReadableBytes \in Nat BY <1>1 DEF ReadableBytes
  <2> QED BY <1>1, <2>1, <2>2, <2>3, CompactedKeepsContent DEF Roomy, Modest, Shape
<1> QED BY <1>2, <1>3, <1>4

-----------------------------------------------------------------------------
(* The indices and the storage                                             *)

LEMMA BufferStarts == BufferInit => BufferInv
<1> SUFFICES ASSUME BufferInit PROVE BufferInv OBVIOUS
<1>1. CheapPrepend + InitialSize \in Nat BY BufferAssumption
<1>2. storage \in Seq(Nat) /\ Len(storage) = CheapPrepend + InitialSize BY <1>1 DEF BufferInit
<1>3. BufferTypeOK BY <1>2, BufferAssumption DEF BufferInit, BufferTypeOK, Size
<1>4. StorageIsBounded
  BY <1>2, BufferAssumption DEF BufferInit, StorageIsBounded, Size, Larger
<1> QED BY <1>3, <1>4 DEF BufferInv

\* What a modest vector keeps of the bound.
LEMMA ModestIsBounded ==
  ASSUME BufferInv, NEW n \in Nat, NEW room, Modest(room, n),
         Len(storage') = Len(room.storage), Len(room.storage) \in Nat,
         peak' = Larger(peak, ReadableBytes + n)
  PROVE  StorageIsBounded' /\ peak' \in Nat
<1>1. /\ Len(storage) \in Nat /\ ReadableBytes \in Nat /\ peak \in Nat
      /\ CheapPrepend \in Nat /\ InitialSize \in Nat
  BY BufferAssumption DEF BufferInv, BufferTypeOK, ReadableBytes
<1>2. Len(storage) <= CheapPrepend + Larger(InitialSize, 2 * peak)
  BY DEF BufferInv, StorageIsBounded, Size
<1>3. peak' \in Nat /\ peak' >= peak /\ peak' >= ReadableBytes + n BY <1>1 DEF Larger
<1>4. Len(storage') <= CheapPrepend + Larger(InitialSize, 2 * peak')
  <2>1. CASE Len(room.storage) = Len(storage) BY <1>1, <1>2, <1>3, <2>1 DEF Larger
  <2>2. CASE Len(room.storage) <= CheapPrepend + 2 * (ReadableBytes + n)
    BY <1>1, <1>3, <2>2 DEF Larger
  <2> QED BY <2>1, <2>2 DEF Modest
<1> QED BY <1>3, <1>4 DEF StorageIsBounded, Size

\* n bytes written behind the content of a vector with room for them.
Filled(vector, at, n) ==
  [i \in 1 .. Len(vector) |-> IF i > at /\ i <= at + n THEN made + (i - at) ELSE vector[i]]

LEMMA FilledIsVector ==
  ASSUME made \in Nat, NEW vector \in Seq(Nat), NEW at \in Nat, NEW n \in Nat
  PROVE  Filled(vector, at, n) \in Seq(Nat) /\ Len(Filled(vector, at, n)) = Len(vector)
<1>1. Len(vector) \in Nat /\ \A i \in 1 .. Len(vector) : vector[i] \in Nat OBVIOUS
<1>2. ASSUME NEW i \in 1 .. Len(vector)
      PROVE  (IF i > at /\ i <= at + n THEN made + (i - at) ELSE vector[i]) \in Nat
  BY <1>1
<1>3. Filled(vector, at, n) \in [1 .. Len(vector) -> Nat] BY <1>1, <1>2 DEF Filled
<1> QED BY <1>1, <1>3

\* The content as a sequence.
LEMMA ContentIsSequence ==
  ASSUME BufferTypeOK
  PROVE  /\ Content \in Seq(Nat) /\ Len(Content) = ReadableBytes
         /\ \A i \in 1 .. ReadableBytes : Content[i] = storage[reader + i]
<1>1. reader \in Nat /\ ReadableBytes \in Nat BY DEF BufferTypeOK, ReadableBytes
<1>2. \A i \in 1 .. ReadableBytes : reader + i \in 1 .. Len(storage)
  BY DEF BufferTypeOK, ReadableBytes, Size
<1>3. \A i \in 1 .. ReadableBytes : storage[reader + i] \in Nat BY <1>2 DEF BufferTypeOK
<1>4. \A i \in 1 .. ReadableBytes : At(storage, reader + i - 1) = storage[reader + i]
  <2>1. \A i \in 1 .. ReadableBytes : reader + i - 1 + 1 = reader + i BY <1>1
  <2> QED BY <2>1 DEF At
<1>5. Content = [i \in 1 .. ReadableBytes |-> storage[reader + i]] BY <1>4 DEF Content
<1> QED BY <1>1, <1>3, <1>5

\* What a vector holds between two indices is longer by these n bytes.
LEMMA FilledExtends ==
  ASSUME BufferInv, NEW vector \in Seq(Nat), NEW from \in Nat, NEW n \in Nat,
         from + ReadableBytes + n <= Len(vector),
         \A i \in 1 .. ReadableBytes : vector[from + i] = storage[reader + i],
         storage' = Filled(vector, from + ReadableBytes, n),
         reader' = from, writer' = from + ReadableBytes + n
  PROVE  Content' = Content \o [i \in 1 .. n |-> made + i]
<1> DEFINE piece == [i \in 1 .. n |-> made + i]
           whole == Content \o piece
<1>1. made \in Nat /\ ReadableBytes \in Nat /\ reader \in Nat /\ Len(vector) \in Nat
  BY BufferAssumption DEF BufferInv, BufferTypeOK, ReadableBytes
<1>2. piece \in Seq(Nat) /\ Len(piece) = n BY <1>1, SMTT(30)
<1>3. /\ Content \in Seq(Nat) /\ Len(Content) = ReadableBytes
      /\ \A i \in 1 .. ReadableBytes : Content[i] = storage[reader + i]
  BY ContentIsSequence DEF BufferInv
<1>4. /\ whole \in Seq(Nat) /\ Len(whole) = ReadableBytes + n
      /\ \A i \in 1 .. ReadableBytes + n :
           whole[i] = IF i <= ReadableBytes THEN Content[i] ELSE piece[i - ReadableBytes]
  <2>1. \A p, q \in Seq(Nat) :
          /\ p \o q \in Seq(Nat) /\ Len(p \o q) = Len(p) + Len(q)
          /\ \A i \in 1 .. Len(p) + Len(q) :
               (p \o q)[i] = IF i <= Len(p) THEN p[i] ELSE q[i - Len(p)]
    BY ConcatProperties
  <2> HIDE DEF piece
  <2> QED BY <1>2, <1>3, <2>1
<1>5. ReadableBytes' = ReadableBytes + n BY <1>1 DEF ReadableBytes
<1>6. ASSUME NEW i \in 1 .. ReadableBytes + n PROVE At(storage', reader' + i - 1) = whole[i]
  <2> DEFINE j == from + i
  <2>1. j \in 1 .. Len(vector) /\ reader' + i - 1 + 1 = j BY <1>1
  <2>2. At(storage', reader' + i - 1) = storage'[j] BY <2>1 DEF At
  <2>3. CASE i <= ReadableBytes
    <3>1. ~(j > from + ReadableBytes) BY <1>1, <2>3
    <3>2. storage'[j] = vector[j] BY <2>1, <3>1 DEF Filled
    <3>3. i \in 1 .. ReadableBytes BY <1>1, <2>3
    <3>4. vector[j] = Content[i] BY <1>3, <3>3
    <3> QED BY <1>4, <2>2, <2>3, <3>2, <3>4
  <2>4. CASE ~(i <= ReadableBytes)
    <3>1. j > from + ReadableBytes /\ j <= from + ReadableBytes + n BY <1>1, <2>4
    <3>2. storage'[j] = made + (j - (from + ReadableBytes)) BY <2>1, <3>1 DEF Filled
    <3>3. i - ReadableBytes \in 1 .. n /\ j - (from + ReadableBytes) = i - ReadableBytes
      BY <1>1, <2>4
    <3>4. piece[i - ReadableBytes] = made + (i - ReadableBytes) BY <3>3
    <3> QED BY <1>4, <2>2, <2>4, <3>2, <3>3, <3>4
  <2> QED BY <2>3, <2>4
<1>7. Content' = [i \in 1 .. ReadableBytes + n |-> whole[i]]
  BY <1>5, <1>6 DEF Content
<1> QED BY <1>4, <1>7, LenProperties

-----------------------------------------------------------------------------
(* The steps: each keeps the invariant, and is a step of ByteQueue         *)

\* The content is the same wherever it lies.
LEMMA MovedContent ==
  ASSUME BufferTypeOK, BufferTypeOK', ReadableBytes' = ReadableBytes,
         \A i \in 1 .. ReadableBytes : storage'[reader' + i] = storage[reader + i]
  PROVE  Content' = Content
<1>1. Content \in Seq(Nat) /\ Len(Content) = ReadableBytes
  BY ContentIsSequence
<1>2. \A i \in 1 .. ReadableBytes : At(storage', reader' + i - 1) = Content[i]
  <2>1. \A i \in 1 .. ReadableBytes : reader' + i - 1 + 1 = reader' + i
    BY DEF BufferTypeOK, ReadableBytes
  <2> QED BY <2>1, ContentIsSequence DEF At
<1>3. Content' = [i \in 1 .. ReadableBytes |-> Content[i]] BY <1>2 DEF Content
<1> QED BY <1>1, <1>3, LenProperties

LEMMA WriterMovesUp ==
  ASSUME NEW from \in Nat, NEW to \in Nat, NEW n \in Nat, from <= to
  PROVE  from <= to + n /\ to + n \in Nat
OBVIOUS

\* Putting n bytes into a roomy vector: what AppendBytes and HasWritten share.
LEMMA PuttingIsPut ==
  ASSUME BufferInv, NEW n \in 1 .. MaxPiece, NEW room, Roomy(room, n), Modest(room, n),
         made + n <= MaxBytes,
         storage' = Filled(room.storage, room.writer, n),
         reader' = room.reader, writer' = room.writer + n, made' = made + n,
         peak' = Larger(peak, ReadableBytes + n)
  PROVE  BufferInv' /\ Promise!Put(n)
<1>1. /\ n \in Nat /\ made \in Nat /\ CheapPrepend \in Nat /\ MaxBytes \in Nat
      /\ ReadableBytes \in Nat
  BY BufferAssumption DEF BufferInv, BufferTypeOK, ReadableBytes
<1>2. /\ room.storage \in Seq(Nat) /\ Len(room.storage) \in Nat
      /\ room.reader \in Nat /\ room.writer \in Nat
      /\ CheapPrepend <= room.reader /\ room.reader <= room.writer
      /\ room.writer + n <= Len(room.storage)
      /\ room.writer = room.reader + ReadableBytes
  BY <1>1, SMTT(30) DEF Roomy
<1>3. storage' \in Seq(Nat) /\ Len(storage') = Len(room.storage)
  BY <1>1, <1>2, FilledIsVector
<1>4. StorageIsBounded' /\ peak' \in Nat BY <1>1, <1>2, <1>3, ModestIsBounded
<1>5. BufferTypeOK'
  <2>1. reader' \in Nat /\ writer' \in Nat /\ CheapPrepend <= reader' /\ reader' <= writer'
    <3>1. room.reader <= room.writer + n /\ room.writer + n \in Nat
      BY <1>1, <1>2, WriterMovesUp
    <3>2. reader' \in Nat /\ CheapPrepend <= reader' BY <1>2
    <3>3. writer' \in Nat /\ reader' <= writer' BY <3>1
    <3> QED BY <3>2, <3>3
  <2>2. writer' <= Len(storage') BY <1>1, <1>2, <1>3
  <2>3. made' \in 0 .. MaxBytes BY <1>1
  <2> QED BY <1>3, <1>4, <2>1, <2>2, <2>3 DEF BufferTypeOK, Size
<1>6. Content' = Content \o [i \in 1 .. n |-> made + i]
  <2>1. \A i \in 1 .. ReadableBytes : room.storage[room.reader + i] = storage[reader + i]
    BY DEF Roomy
  <2>2. room.reader + ReadableBytes + n <= Len(room.storage) BY <1>1, <1>2
  <2>3. storage' = Filled(room.storage, room.reader + ReadableBytes, n) BY <1>2
  <2>4. writer' = room.reader + ReadableBytes + n BY <1>2
  <2> HIDE DEF Filled
  <2> QED BY <1>1, <1>2, <2>1, <2>2, <2>3, <2>4, FilledExtends
<1> QED BY <1>4, <1>5, <1>6 DEF BufferInv, Promise!Put

LEMMA AppendIsPut ==
  ASSUME BufferInv, NEW n \in 1 .. MaxPiece, AppendBytes(n)
  PROVE  BufferInv' /\ Promise!Put(n)
<1> DEFINE room == EnsureWritableBytes(n)
<1>1. n \in Nat BY BufferAssumption
<1>2. Roomy(room, n) /\ Modest(room, n) BY <1>1, EnsureMakesRoom DEF BufferInv
<1>3. /\ made + n <= MaxBytes
      /\ storage' = Filled(room.storage, room.writer, n)
      /\ reader' = room.reader /\ writer' = room.writer + n /\ made' = made + n
      /\ peak' = Larger(peak, ReadableBytes + n)
  BY DEF AppendBytes, Filled
<1> HIDE DEF room
<1> QED BY <1>2, <1>3, PuttingIsPut

LEMMA HasWrittenIsPut ==
  ASSUME BufferInv, NEW n \in 1 .. MaxPiece, HasWritten(n)
  PROVE  BufferInv' /\ Promise!Put(n)
<1>1. n \in Nat BY BufferAssumption
<1>2. Roomy(Unmoved, n)
  BY <1>1, BufferAssumption
  DEF HasWritten, Roomy, Unmoved, Shape, BufferInv, BufferTypeOK, ReadableBytes, WritableBytes, Size
<1>3. Modest(Unmoved, n) BY DEF Modest, Unmoved, Shape
<1>4. /\ made + n <= MaxBytes
      /\ storage' = Filled(Unmoved.storage, Unmoved.writer, n)
      /\ reader' = Unmoved.reader /\ writer' = Unmoved.writer + n /\ made' = made + n
      /\ peak' = Larger(peak, ReadableBytes + n)
  BY DEF HasWritten, Filled, Unmoved, Shape, Size
<1> QED BY <1>2, <1>3, <1>4, PuttingIsPut

LEMMA ReserveKeepsContent ==
  ASSUME BufferInv, NEW n \in 1 .. MaxPiece, Reserve(n)
  PROVE  BufferInv' /\ UNCHANGED Promise!vars
<1> DEFINE room == EnsureWritableBytes(n)
<1>1. n \in Nat BY BufferAssumption
<1>2. Roomy(room, n) /\ Modest(room, n) BY <1>1, EnsureMakesRoom DEF BufferInv
<1>3. /\ storage' = room.storage /\ reader' = room.reader /\ writer' = room.writer
      /\ peak' = Larger(peak, ReadableBytes + n) /\ made' = made
  BY DEF Reserve
<1> HIDE DEF room
<1>4. Len(room.storage) \in Nat /\ Len(storage') = Len(room.storage) BY <1>2, <1>3 DEF Roomy
<1>5. StorageIsBounded' /\ peak' \in Nat BY <1>1, <1>2, <1>3, <1>4, ModestIsBounded
<1>6. BufferTypeOK'
  BY <1>1, <1>2, <1>3, <1>4, <1>5, BufferAssumption DEF Roomy, BufferInv, BufferTypeOK, Size
<1>7. Content' = Content
  <2>1. ReadableBytes' = ReadableBytes BY <1>2, <1>3 DEF Roomy, ReadableBytes
  <2>2. \A i \in 1 .. ReadableBytes : storage'[reader' + i] = storage[reader + i]
    BY <1>2, <1>3 DEF Roomy
  <2> QED BY <1>6, <2>1, <2>2, MovedContent DEF BufferInv
<1> QED BY <1>3, <1>5, <1>6, <1>7 DEF BufferInv, Promise!vars

LEMMA RetrieveIsTake ==
  ASSUME BufferInv, NEW n \in 0 .. ReadableBytes, Retrieve(n)
  PROVE  BufferInv' /\ Promise!Take(n) /\ n \in 0 .. Len(Content)
<1>1. /\ ReadableBytes \in Nat /\ n \in Nat /\ CheapPrepend \in Nat
      /\ reader \in Nat /\ writer \in Nat /\ storage \in Seq(Nat) /\ Len(storage) \in Nat
      /\ CheapPrepend <= reader /\ reader <= writer /\ writer <= Len(storage)
      /\ writer - reader = ReadableBytes
  BY BufferAssumption DEF BufferInv, BufferTypeOK, ReadableBytes, Size
<1>2. UNCHANGED <<storage, made, peak>> BY DEF Retrieve
<1>3. BufferTypeOK' BY <1>1, <1>2 DEF Retrieve, BufferInv, BufferTypeOK, Size
<1>4. StorageIsBounded' BY <1>2 DEF BufferInv, StorageIsBounded, Size
<1>5. /\ Content \in Seq(Nat) /\ Len(Content) = ReadableBytes
      /\ \A i \in 1 .. ReadableBytes : Content[i] = storage[reader + i]
  BY ContentIsSequence DEF BufferInv
<1>6. Content' = SubSeq(Content, n + 1, Len(Content))
  <2>1. CASE n = ReadableBytes
    <3>1. ReadableBytes' = 0 BY <1>1, <2>1 DEF Retrieve, ReadableBytes
    <3>2. Content' = <<>> BY <3>1 DEF Content
    <3>3. SubSeq(Content, n + 1, Len(Content)) = <<>> BY <1>1, <1>5, <2>1, SubSeqEmpty
    <3> QED BY <3>2, <3>3
  <2>2. CASE n # ReadableBytes
    <3> DEFINE rest == SubSeq(Content, n + 1, Len(Content))
    <3>1. \A i \in n + 1 .. Len(Content) : Content[i] \in Nat BY <1>1, <1>5
    <3>2. /\ rest \in Seq(Nat) /\ Len(rest) = ReadableBytes - n
          /\ \A i \in 1 .. ReadableBytes - n : rest[i] = Content[n + i]
      <4>1. /\ rest \in Seq(Nat)
            /\ Len(rest) = IF n + 1 <= Len(Content) THEN Len(Content) - (n + 1) + 1 ELSE 0
            /\ \A i \in 1 .. Len(Content) - (n + 1) + 1 : rest[i] = Content[n + 1 + i - 1]
        BY <1>1, <1>5, <3>1, SubSeqProperties
      <4>2. /\ n + 1 <= Len(Content) /\ Len(Content) - (n + 1) + 1 = ReadableBytes - n
            /\ \A i \in 1 .. ReadableBytes - n : n + 1 + i - 1 = n + i
        BY <1>1, <1>5, <2>2
      <4> HIDE DEF rest
      <4> QED BY <4>1, <4>2
    <3>3. ReadableBytes' = ReadableBytes - n BY <1>1, <2>2 DEF Retrieve, ReadableBytes
    <3>4. ASSUME NEW i \in 1 .. ReadableBytes - n PROVE At(storage', reader' + i - 1) = rest[i]
      <4>1. reader' + i - 1 + 1 = reader + (n + i) /\ n + i \in 1 .. ReadableBytes
        BY <1>1, <2>2 DEF Retrieve
      <4>2. At(storage', reader' + i - 1) = storage[reader + (n + i)] BY <1>2, <4>1 DEF At
      <4> HIDE DEF rest
      <4> QED BY <1>5, <3>2, <4>1, <4>2
    <3> HIDE DEF rest
    <3>5. Content' = [i \in 1 .. ReadableBytes - n |-> rest[i]] BY <3>3, <3>4 DEF Content
    <3>6. Content' = rest BY <3>2, <3>5, LenProperties
    <3> QED BY <3>6 DEF rest
  <2> QED BY <2>1, <2>2
<1> QED BY <1>1, <1>2, <1>3, <1>4, <1>5, <1>6 DEF BufferInv, Promise!Take

LEMMA BufferStep ==
  BufferInv /\ [BufferNext]_bufferVars => BufferInv' /\ [Promise!Next]_(Promise!vars)
<1> SUFFICES ASSUME BufferInv, [BufferNext]_bufferVars PROVE BufferInv' /\ [Promise!Next]_(Promise!vars)
  OBVIOUS
<1>1. ASSUME NEW n \in 1 .. MaxPiece, AppendBytes(n) \/ Reserve(n) \/ HasWritten(n)
      PROVE  BufferInv' /\ [Promise!Next]_(Promise!vars)
  <2>1. CASE AppendBytes(n) \/ HasWritten(n)
    <3>1. BufferInv' /\ Promise!Put(n) BY <2>1, AppendIsPut, HasWrittenIsPut
    <3> QED BY <3>1 DEF Promise!Next
  <2>2. CASE Reserve(n) BY <2>2, ReserveKeepsContent
  <2> QED BY <1>1, <2>1, <2>2
<1>2. ASSUME NEW n \in 0 .. ReadableBytes, Retrieve(n)
      PROVE  BufferInv' /\ [Promise!Next]_(Promise!vars)
  <2>1. BufferInv' /\ Promise!Take(n) /\ n \in 0 .. Len(Content) BY <1>2, RetrieveIsTake
  <2> QED BY <2>1 DEF Promise!Next
<1>3. CASE UNCHANGED bufferVars
  <2>1. UNCHANGED <<storage, reader, writer, made, peak>> BY <1>3 DEF bufferVars
  <2>2. BufferTypeOK' BY <2>1 DEF BufferInv, BufferTypeOK, Size
  <2>3. StorageIsBounded' BY <2>1 DEF BufferInv, StorageIsBounded, Size
  <2>4. Content' = Content BY <2>1 DEF Content, ReadableBytes, At
  <2> QED BY <2>1, <2>2, <2>3, <2>4 DEF BufferInv, Promise!vars
<1> QED BY <1>1, <1>2, <1>3 DEF BufferNext

LEMMA QueueInit == BufferInit => Promise!Init
<1> SUFFICES ASSUME BufferInit PROVE Promise!Init OBVIOUS
<1>1. ReadableBytes = 0 BY BufferAssumption DEF BufferInit, ReadableBytes
<1>2. Content = <<>> BY <1>1 DEF Content
<1> QED BY <1>2 DEF BufferInit, Promise!Init

-----------------------------------------------------------------------------
(* The buffer's theorems                                                   *)

\* The indices stay in order inside the vector, and the vector grows with the
\* most that had to be held at once, never with the length of the stream.
THEOREM BufferIsBounded == BufferSpec => []BufferInv
BY BufferStarts, BufferStep, PTL DEF BufferSpec

\* Through every resize, move and reset of the indices, what is read is what was
\* put in, in order and once.
THEOREM BufferIsByteQueue == BufferSpec => ImplementsByteQueue
BY BufferStarts, BufferStep, QueueInit, PTL DEF BufferSpec, ImplementsByteQueue, Promise!SafeSpec
=============================================================================
