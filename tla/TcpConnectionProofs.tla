------------------------ MODULE TcpConnectionProofs ------------------------
(***************************************************************************)
(* What the methods of TcpConnection preserve, for every connection.       *)
(***************************************************************************)
EXTENDS TcpConnection, SequenceTheorems, TLAPS

\* A connection whose object invariant holds.
Sound(c) == c \in Connection /\ WellFormed(c)

\* A new object satisfies the invariant (TcpConnection's constructor).
LEMMA BlankSound ==
  ASSUME NEW st \in {"None", "Connecting"}
  PROVE  Sound(Blank(st)) /\ Blank(st).state = st
  BY DEF Sound, WellFormed, Blank, Connection, ConnState, Interest

\* Epoller::UpdateChannel keeps a connection a connection.
LEMMA UpdateType ==
  ASSUME NEW c \in Connection, NEW evs \in SUBSET Interest
  PROVE  Update(c, evs) \in Connection
  BY DEF Update, Connection

\* StartRead keeps the invariant and touches only the reading half.
LEMMA StartReadSound ==
  ASSUME NEW c, Sound(c)
  PROVE  /\ Sound(StartRead(c))
         /\ StartRead(c).state = c.state
         /\ StartRead(c).output = c.output
         /\ StartRead(c).receivedEof = c.receivedEof
         /\ StartRead(c).shutdownRequested = c.shutdownRequested
         /\ StartRead(c).writeShutdown = c.writeShutdown
         /\ c.state = "Connected" => StartRead(c).reading = ~c.receivedEof
         /\ c.state # "Connected" => StartRead(c) = c
  BY DEF Sound, WellFormed, StartRead, EnableReading, Update, Connection, ConnState, Interest, Blank

\* StopRead likewise, in whatever state.
LEMMA StopReadSound ==
  ASSUME NEW c, Sound(c)
  PROVE  /\ Sound(StopRead(c))
         /\ StopRead(c).state = c.state
         /\ StopRead(c).output = c.output
         /\ StopRead(c).receivedEof = c.receivedEof
         /\ StopRead(c).shutdownRequested = c.shutdownRequested
         /\ StopRead(c).writeShutdown = c.writeShutdown
         /\ ~StopRead(c).reading
<1>1. CASE ~c.reading
  BY <1>1 DEF StopRead, Sound, Connection
<1>2. CASE c.reading
  <2> DEFINE d == StopRead(c)
  <2>1. c.state = "Connected"
    BY <1>2 DEF Sound, WellFormed, Blank, Connection, ConnState
  <2>2. /\ d \in Connection
        /\ d.state = c.state /\ d.output = c.output /\ d.receivedEof = c.receivedEof
        /\ d.shutdownRequested = c.shutdownRequested
        /\ d.writeShutdown = c.writeShutdown
        /\ d.reading = FALSE /\ d.events = c.events \ {"IN"}
        /\ d.added = (c.events \ {"IN"} # {})
    BY <1>2 DEF StopRead, DisableReading, Update, Sound, Connection, Interest
  <2>3. WellFormed(d)
    BY <2>1, <2>2 DEF Sound, WellFormed, Connection
  <2> QED BY <2>2, <2>3 DEF Sound
<1> QED BY <1>1, <1>2

\* Establish makes a new connection readable or not, and nothing else.
LEMMA EstablishSound ==
  ASSUME NEW start \in BOOLEAN
  PROVE  LET c == Establish(Blank("Connecting"), start)
         IN  /\ Sound(c)
             /\ c.state = "Connected" /\ c.output = <<>>
             /\ ~c.receivedEof /\ ~c.shutdownRequested /\ ~c.writeShutdown
             /\ c.reading = start
<1> DEFINE up == [Blank("Connecting") EXCEPT !.state = "Connected"]
           c  == Establish(Blank("Connecting"), start)
<1>1. /\ Blank("Connecting") \in Connection
      /\ LET b == Blank("Connecting")
         IN  /\ b.output = <<>> /\ b.reading = FALSE /\ b.receivedEof = FALSE
             /\ b.shutdownRequested = FALSE /\ b.writeShutdown = FALSE
             /\ b.events = {} /\ b.added = FALSE
  BY BlankSound DEF Sound, Blank
<1>2. c = IF start THEN StartRead(up) ELSE up
  BY DEF Establish
<1> HIDE DEF c
<1>3. /\ up \in Connection /\ up.state = "Connected" /\ up.output = <<>>
      /\ up.reading = FALSE /\ up.receivedEof = FALSE /\ up.shutdownRequested = FALSE
      /\ up.writeShutdown = FALSE /\ up.events = {} /\ up.added = FALSE
  BY <1>1 DEF Connection, ConnState
<1> HIDE DEF up
<1>4. Sound(up)
  BY <1>3 DEF Sound, WellFormed
<1>5. /\ Sound(StartRead(up)) /\ StartRead(up).state = up.state
      /\ StartRead(up).output = up.output /\ StartRead(up).receivedEof = up.receivedEof
      /\ StartRead(up).shutdownRequested = up.shutdownRequested
      /\ StartRead(up).writeShutdown = up.writeShutdown
      /\ StartRead(up).reading = ~up.receivedEof
  BY <1>3, <1>4, StartReadSound
<1>6. CASE start = TRUE
  BY <1>2, <1>3, <1>5, <1>6 DEF c
<1>7. CASE start = FALSE
  BY <1>2, <1>3, <1>4, <1>7 DEF c
<1> QED BY <1>6, <1>7

\* What send() left over is appended to the output and epoll is asked to
\* report when it can be written; nothing else changes.
LEMMA SendSound ==
  ASSUME NEW c, Sound(c), NEW data \in Seq(Nat), NEW taken \in 0 .. Len(data)
  PROVE  LET d == Send(c, data, taken)
         IN  /\ Sound(d)
             /\ d.state = c.state /\ d.reading = c.reading
             /\ d.receivedEof = c.receivedEof
             /\ d.shutdownRequested = c.shutdownRequested
             /\ d.writeShutdown = c.writeShutdown
             /\ d.output = IF Drops(c) THEN c.output
                           ELSE c.output \o SubSeq(data, taken + 1, Len(data))
<1> DEFINE d == Send(c, data, taken)
           rest == SubSeq(data, taken + 1, Len(data))
<1>1. rest \in Seq(Nat) /\ Len(rest) = Len(data) - taken /\ (rest = <<>> <=> taken = Len(data))
  <2>1. Len(data) \in Nat
    BY LenProperties
  <2>2. \A i \in taken + 1 .. Len(data) : data[i] \in Nat
    BY <2>1, ElementOfSeq
  <2>3. taken + 1 \in Int /\ Len(data) \in Int
    BY <2>1
  <2>4. rest \in Seq(Nat)
        /\ Len(rest) = IF taken + 1 <= Len(data) THEN Len(data) - (taken + 1) + 1 ELSE 0
    BY <2>2, <2>3, SubSeqProperties
  <2>5. Len(rest) = Len(data) - taken
    BY <2>1, <2>4
  <2>6. rest = <<>> <=> Len(rest) = 0
    BY <2>4, EmptySeq
  <2> QED BY <2>1, <2>4, <2>5, <2>6
<1>2. c \in Connection /\ c.output \in Seq(Nat)
  BY DEF Sound, Connection
<1>3. CASE Drops(c)
  BY <1>3 DEF Send
<1>4. CASE ~Drops(c) /\ taken = Len(data)
  BY <1>1, <1>2, <1>4, ConcatEmptySeq DEF Send
<1>5. CASE ~Drops(c) /\ taken # Len(data)
  <2> HIDE DEF rest
  <2>1. c.state = "Connected" /\ ~c.shutdownRequested /\ ~c.writeShutdown
    BY <1>5 DEF Drops, Sound, WellFormed, Connection
  <2>2. c.output \o rest \in Seq(Nat) /\ c.output \o rest # <<>>
    BY <1>1, <1>2, <1>5, ConcatProperties, EmptySeq, LenProperties
  <2>3. d = EnableWriting([c EXCEPT !.output = @ \o rest])
    BY <1>5 DEF Send, rest
  <2> HIDE DEF d
  <2>4. /\ d \in Connection
        /\ d.state = c.state /\ d.reading = c.reading /\ d.receivedEof = c.receivedEof
        /\ d.shutdownRequested = c.shutdownRequested
        /\ d.writeShutdown = c.writeShutdown /\ d.output = c.output \o rest
        /\ d.events = c.events \cup {"OUT"}
        /\ d.added = (c.events \cup {"OUT"} # {})
    BY <1>2, <2>2, <2>3 DEF EnableWriting, Update, Connection, Interest
  <2>5. WellFormed(d)
    BY <2>1, <2>2, <2>4 DEF Sound, WellFormed, Connection
  <2> QED BY <1>5, <2>4, <2>5 DEF Sound, d, rest
<1> QED BY <1>3, <1>4, <1>5

\* ShutdownWrite records the request, and shuts only a drained write side.
LEMMA ShutdownWriteSound ==
  ASSUME NEW c, Sound(c), c.state = "Connected"
  PROVE  LET d == ShutdownWrite(c)
         IN  /\ Sound(d)
             /\ d.state = c.state /\ d.reading = c.reading
             /\ d.receivedEof = c.receivedEof /\ d.output = c.output
             /\ d.shutdownRequested = TRUE
             /\ d.writeShutdown = (c.writeShutdown \/ c.output = <<>>)
<1> DEFINE r == [c EXCEPT !.shutdownRequested = TRUE]
           d == ShutdownWrite(c)
<1>1. /\ r \in Connection /\ r.state = c.state /\ r.reading = c.reading
      /\ r.receivedEof = c.receivedEof /\ r.output = c.output
      /\ r.shutdownRequested = TRUE /\ r.writeShutdown = c.writeShutdown
      /\ r.events = c.events /\ r.added = c.added
  BY DEF Sound, Connection
<1>2. d = FinishWrite(r)
  BY DEF ShutdownWrite
<1> HIDE DEF r, d
<1>3. /\ d \in Connection /\ d.state = c.state /\ d.reading = c.reading
      /\ d.receivedEof = c.receivedEof /\ d.output = c.output
      /\ d.shutdownRequested = TRUE
      /\ d.writeShutdown = (c.writeShutdown \/ c.output = <<>>)
      /\ d.events = c.events /\ d.added = c.added
  BY <1>1, <1>2 DEF FinishWrite, Connection
<1>4. WellFormed(d)
  BY <1>3 DEF Sound, WellFormed, Connection
<1> QED BY <1>3, <1>4 DEF d, Sound

\* HandleRead at end of stream: the connection is not read any more.
LEMMA EofSound ==
  ASSUME NEW c, Sound(c), c.state = "Connected", c.reading
  PROVE  LET d == StopRead([c EXCEPT !.receivedEof = TRUE])
         IN  /\ Sound(d)
             /\ d.state = c.state /\ ~d.reading /\ d.receivedEof
             /\ d.output = c.output
             /\ d.shutdownRequested = c.shutdownRequested
             /\ d.writeShutdown = c.writeShutdown
<1> DEFINE r == [c EXCEPT !.receivedEof = TRUE]
           d == StopRead(r)
<1>1. /\ r \in Connection /\ r.state = c.state /\ r.reading /\ r.receivedEof = TRUE
      /\ r.output = c.output /\ r.shutdownRequested = c.shutdownRequested
      /\ r.writeShutdown = c.writeShutdown /\ r.events = c.events
  BY DEF Sound, Connection
<1> HIDE DEF r
<1>2. /\ d \in Connection /\ d.state = c.state /\ d.reading = FALSE
      /\ d.receivedEof = TRUE /\ d.output = c.output
      /\ d.shutdownRequested = c.shutdownRequested
      /\ d.writeShutdown = c.writeShutdown
      /\ d.events = c.events \ {"IN"} /\ d.added = (c.events \ {"IN"} # {})
  BY <1>1 DEF StopRead, DisableReading, Update, Connection, Interest
<1> HIDE DEF d
<1>3. WellFormed(d)
  BY <1>2 DEF Sound, WellFormed, Connection
<1> QED BY <1>2, <1>3 DEF Sound, d, r

\* HandleWrite's bookkeeping: the output loses what was written; once it is
\* empty epoll is no longer asked for EPOLLOUT and a deferred FIN goes out.
LEMMA DrainedSound ==
  ASSUME NEW c, Sound(c), c.state = "Connected", c.output # <<>>,
         NEW taken \in 0 .. Len(c.output)
  PROVE  LET d    == Drained(c, taken)
             rest == SubSeq(c.output, taken + 1, Len(c.output))
         IN  /\ Sound(d)
             /\ rest \in Seq(Nat) /\ Len(rest) = Len(c.output) - taken
             /\ d.state = c.state /\ d.reading = c.reading
             /\ d.receivedEof = c.receivedEof
             /\ d.shutdownRequested = c.shutdownRequested
             /\ d.output = rest
<1> DEFINE rest == SubSeq(c.output, taken + 1, Len(c.output))
           r == [c EXCEPT !.output = SubSeq(@, taken + 1, Len(@))]
           w == DisableWriting(r)
           d == Drained(c, taken)
<1>1. c \in Connection /\ c.output \in Seq(Nat) /\ ~c.writeShutdown
  BY DEF Sound, WellFormed, Connection
<1>2. rest \in Seq(Nat) /\ Len(rest) = Len(c.output) - taken
  <2>1. Len(c.output) \in Nat
    BY <1>1, LenProperties
  <2>2. \A i \in taken + 1 .. Len(c.output) : c.output[i] \in Nat
    BY <1>1, <2>1, ElementOfSeq
  <2>3. taken + 1 \in Int /\ Len(c.output) \in Int
    BY <2>1
  <2>4. rest \in Seq(Nat)
        /\ Len(rest) = IF taken + 1 <= Len(c.output)
                       THEN Len(c.output) - (taken + 1) + 1 ELSE 0
    BY <2>2, <2>3, SubSeqProperties
  <2> QED BY <2>1, <2>4
<1>3. d = IF r.output = <<>> THEN FinishWrite(w) ELSE r
  BY DEF Drained
<1>4. r = [c EXCEPT !.output = rest]
  OBVIOUS
<1> HIDE DEF rest
<1>5. /\ r \in Connection /\ r.output = rest /\ r.state = c.state
      /\ r.reading = c.reading /\ r.receivedEof = c.receivedEof
      /\ r.shutdownRequested = c.shutdownRequested
      /\ r.writeShutdown = FALSE /\ r.events = c.events /\ r.added = c.added
  BY <1>1, <1>2, <1>4 DEF Connection
<1> HIDE DEF r, d
<1>6. CASE rest # <<>>
  <2>1. WellFormed(r)
    BY <1>5, <1>6 DEF Sound, WellFormed, Connection
  <2> QED BY <1>2, <1>3, <1>5, <1>6, <2>1 DEF d, rest, Sound
<1>7. CASE rest = <<>>
  <2>1. /\ w \in Connection /\ w.output = rest /\ w.state = c.state
        /\ w.reading = c.reading /\ w.receivedEof = c.receivedEof
        /\ w.shutdownRequested = c.shutdownRequested
        /\ w.writeShutdown = FALSE /\ w.events = c.events \ {"OUT"}
        /\ w.added = (c.events \ {"OUT"} # {})
    BY <1>5 DEF DisableWriting, Update, Connection, Interest
  <2> HIDE DEF w
  <2>2. /\ d \in Connection /\ d.output = rest /\ d.state = c.state
        /\ d.reading = c.reading /\ d.receivedEof = c.receivedEof
        /\ d.shutdownRequested = c.shutdownRequested
        /\ d.writeShutdown = c.shutdownRequested /\ d.events = w.events
        /\ d.added = w.added
    BY <1>1, <1>3, <1>5, <1>7, <2>1 DEF FinishWrite, Connection
  <2>3. WellFormed(d)
    BY <1>7, <2>1, <2>2 DEF Sound, WellFormed, Connection
  <2> QED BY <1>2, <2>2, <2>3 DEF d, rest, Sound
<1> QED BY <1>6, <1>7

\* ForceClose leaves no connection open, read or in epoll.
LEMMA ForceCloseSound ==
  ASSUME NEW c, Sound(c)
  PROVE  LET d == ForceClose(c)
         IN  /\ Sound(d) /\ ~IsOpen(d) /\ ~d.reading /\ ~d.added
             /\ d.output = c.output /\ d.receivedEof = c.receivedEof
             /\ d.state = IF c.state = "None" THEN "None" ELSE "Disconnected"
<1> DEFINE d == ForceClose(c)
<1>1. CASE ~IsOpen(c)
  BY <1>1 DEF ForceClose, IsOpen, Sound, WellFormed, Connection, ConnState, Blank
<1>2. CASE IsOpen(c)
  <2>1. /\ d \in Connection /\ d.state = "Disconnected" /\ d.reading = FALSE
        /\ d.added = FALSE /\ d.output = c.output /\ d.receivedEof = c.receivedEof
        /\ d.writeShutdown = c.writeShutdown /\ d.shutdownRequested = c.shutdownRequested
    BY <1>2 DEF ForceClose, Remove, Sound, Connection, ConnState
  <2>2. WellFormed(d)
    BY <2>1 DEF Sound, WellFormed, Connection
  <2> QED BY <1>2, <2>1, <2>2 DEF Sound, IsOpen
<1> QED BY <1>1, <1>2

-----------------------------------------------------------------------------
(* Sequences                                                               *)

\* Concatenation under a name of its own: the provers take it for an unknown
\* operator with the properties below, instead of unfolding it.
Cat(p, q) == p \o q

\* Concatenation of sequences is closed, associative, and has <<>> as unit.
LEMMA CatProperties ==
  ASSUME NEW S
  PROVE  /\ \A p, q \in Seq(S) : Cat(p, q) \in Seq(S)
         /\ \A p, q, r \in Seq(S) : Cat(p, Cat(q, r)) = Cat(Cat(p, q), r)
         /\ \A p \in Seq(S) : Cat(p, <<>>) = p
<1>1. ASSUME NEW p \in Seq(S), NEW q \in Seq(S)
      PROVE  Cat(p, q) \in Seq(S)
  BY DEF Cat
<1>2. ASSUME NEW p \in Seq(S), NEW q \in Seq(S), NEW r \in Seq(S)
      PROVE  Cat(p, Cat(q, r)) = Cat(Cat(p, q), r)
  BY DEF Cat
<1>3. ASSUME NEW p \in Seq(S)
      PROVE  Cat(p, <<>>) = p
  BY ConcatEmptySeq DEF Cat
<1> QED BY <1>1, <1>2, <1>3

\* A slice of a sequence is a sequence of the same elements.
LEMMA SubSeqIsSeq ==
  ASSUME NEW S, NEW q \in Seq(S), NEW m \in Nat, NEW n \in 0 .. Len(q), 1 <= m, m <= n + 1
  PROVE  /\ SubSeq(q, m, n) \in Seq(S)
         /\ Len(SubSeq(q, m, n)) = n + 1 - m
         /\ \A i \in 1 .. n + 1 - m : SubSeq(q, m, n)[i] = q[m + i - 1]
<1>1. Len(q) \in Nat
  BY LenProperties
<1>2. \A i \in m .. n : q[i] \in S
  BY <1>1, ElementOfSeq
<1> QED BY <1>1, <1>2, SubSeqProperties

\* A sequence is its first n elements and the others.
LEMMA SplitSeq ==
  ASSUME NEW S, NEW q \in Seq(S), NEW n \in 0 .. Len(q)
  PROVE  Cat(SubSeq(q, 1, n), SubSeq(q, n + 1, Len(q))) = q
<1> DEFINE a == SubSeq(q, 1, n)
           b == SubSeq(q, n + 1, Len(q))
<1>1. Len(q) \in Nat
  BY LenProperties
<1>2. a \in Seq(S) /\ Len(a) = n /\ \A i \in 1 .. n : a[i] = q[i]
  <2>1. /\ a \in Seq(S) /\ Len(a) = n + 1 - 1
        /\ \A i \in 1 .. n + 1 - 1 : a[i] = q[1 + i - 1]
    BY <1>1, SubSeqIsSeq
  <2> QED BY <1>1, <2>1
<1>3. b \in Seq(S) /\ Len(b) = Len(q) - n /\ \A i \in 1 .. Len(q) - n : b[i] = q[n + i]
  <2>1. /\ b \in Seq(S) /\ Len(b) = Len(q) + 1 - (n + 1)
        /\ \A i \in 1 .. Len(q) + 1 - (n + 1) : b[i] = q[(n + 1) + i - 1]
    BY <1>1, SubSeqIsSeq
  <2> QED BY <1>1, <2>1
<1> HIDE DEF a, b
<1>4. a \o b \in Seq(S) /\ Len(a \o b) = Len(q)
  BY <1>1, <1>2, <1>3
<1>5. ASSUME NEW i \in 1 .. Len(q)
      PROVE  (a \o b)[i] = q[i]
  <2>1. (a \o b)[i] = IF i <= n THEN a[i] ELSE b[i - n]
    BY <1>1, <1>2, <1>3
  <2>2. i > n => b[i - n] = q[n + (i - n)]
    BY <1>1, <1>3
  <2>3. i > n => b[i - n] = q[i]
    BY <1>1, <2>2
  <2> QED BY <1>1, <1>2, <2>1, <2>3
<1>6. a \o b = q
  BY <1>4, <1>5, SeqEqual
<1> QED BY <1>6 DEF a, b, Cat

-----------------------------------------------------------------------------
(* The bytes on their way through a connection                             *)

\* Bytes read by the peer, in its socket's send buffer, in output_, and still
\* unread by the proxy (none of these for a connection on its own).
Stream(g, w, out, r) == Cat(Cat(Cat(g, w), out), r)

\* Bytes that move from the head of `out' to the end of `w' stay in the stream.
LEMMA FlushKeepsStream ==
  ASSUME NEW S, NEW g \in Seq(S), NEW w \in Seq(S), NEW out \in Seq(S), NEW r \in Seq(S),
         NEW t \in 0 .. Len(out)
  PROVE  Stream(g, Cat(w, SubSeq(out, 1, t)), SubSeq(out, t + 1, Len(out)), r)
           = Stream(g, w, out, r)
<1> DEFINE a == SubSeq(out, 1, t)
           b == SubSeq(out, t + 1, Len(out))
<1>1. a \in Seq(S) /\ b \in Seq(S)
  <2>1. Len(out) \in Nat
    BY LenProperties
  <2> QED BY <2>1, SubSeqIsSeq
<1>2. Cat(a, b) = out
  BY SplitSeq
<1> HIDE DEF a, b
<1>3. Cat(Cat(g, Cat(w, a)), b) = Cat(Cat(g, w), out)
  BY <1>1, <1>2, CatProperties
<1>4. Stream(g, Cat(w, a), b, r) = Stream(g, w, out, r)
  BY <1>3 DEF Stream
<1> QED BY <1>4 DEF a, b

\* A batch read while nothing waits in output_, and sent in two parts.
LEMMA HandOverKeepsStream ==
  ASSUME NEW S, NEW g \in Seq(S), NEW w \in Seq(S), NEW data \in Seq(S), NEW rest \in Seq(S),
         NEW t \in 0 .. Len(data)
  PROVE  Stream(g, Cat(w, SubSeq(data, 1, t)), SubSeq(data, t + 1, Len(data)), rest)
           = Stream(g, w, <<>>, Cat(data, rest))
<1>1. Stream(g, Cat(w, SubSeq(data, 1, t)), SubSeq(data, t + 1, Len(data)), rest)
        = Stream(g, w, data, rest)
  BY FlushKeepsStream
<1>2. Stream(g, w, data, rest) = Stream(g, w, <<>>, Cat(data, rest))
  <2>1. Cat(g, w) \in Seq(S) /\ <<>> \in Seq(S)
    BY CatProperties
  <2>2. Cat(Cat(Cat(g, w), data), rest) = Cat(Cat(g, w), Cat(data, rest))
    BY <2>1, CatProperties
  <2>3. Cat(Cat(g, w), <<>>) = Cat(g, w)
    BY <2>1, CatProperties
  <2> QED BY <2>2, <2>3 DEF Stream
<1> QED BY <1>1, <1>2

\* The peer takes a byte out of the send buffer.
LEMMA PeerReadKeepsStream ==
  ASSUME NEW S, NEW g \in Seq(S), NEW w \in Seq(S), w # <<>>, NEW out, NEW r
  PROVE  Stream(Append(g, Head(w)), Tail(w), out, r) = Stream(g, w, out, r)
<1>1. Cat(Append(g, Head(w)), Tail(w)) = Cat(g, w)
  BY DEF Cat
<1> QED BY <1>1 DEF Stream

\* The peer sends some bytes.
LEMMA PeerSendExtendsStream ==
  ASSUME NEW S, NEW g \in Seq(S), NEW w \in Seq(S), NEW out \in Seq(S), NEW r \in Seq(S),
         NEW u \in Seq(S)
  PROVE  Stream(g, w, out, Cat(r, u)) = Cat(Stream(g, w, out, r), u)
<1> DEFINE front == Cat(Cat(g, w), out)
<1>1. front \in Seq(S)
  BY CatProperties
<1> HIDE DEF front
<1>2. Cat(front, Cat(r, u)) = Cat(Cat(front, r), u)
  BY <1>1, CatProperties
<1> QED BY <1>2 DEF Stream, front

\* Send: of the new bytes the first t go to the kernel, which takes none while
\* others wait, and the rest goes behind what waits.
LEMMA SendExtendsStream ==
  ASSUME NEW S, NEW g \in Seq(S), NEW w \in Seq(S), NEW out \in Seq(S), NEW data \in Seq(S),
         NEW t \in 0 .. Len(data), t = 0 \/ out = <<>>
  PROVE  Stream(g, Cat(w, SubSeq(data, 1, t)), Cat(out, SubSeq(data, t + 1, Len(data))), <<>>)
           = Cat(Stream(g, w, out, <<>>), data)
<1> DEFINE a == SubSeq(data, 1, t)
           b == SubSeq(data, t + 1, Len(data))
<1>1. a \in Seq(S) /\ b \in Seq(S) /\ <<>> \in Seq(S)
  <2>1. Len(data) \in Nat
    BY LenProperties
  <2> QED BY <2>1, SubSeqIsSeq, EmptySeq
<1>2. Cat(a, b) = data
  BY SplitSeq
<1>3. a = <<>> \/ out = <<>>
  BY SubSeqEmpty
<1> HIDE DEF a, b
<1>4. Cat(Cat(w, a), Cat(out, b)) = Cat(Cat(w, out), data)
  <2>1. \A p \in Seq(S) : Cat(<<>>, p) = p
    BY ConcatEmptySeq DEF Cat
  <2>2. Cat(Cat(w, a), Cat(out, b)) = Cat(w, Cat(a, Cat(out, b)))
    BY <1>1, CatProperties
  <2>3. Cat(a, Cat(out, b)) = Cat(out, Cat(a, b))
    <3>1. Cat(out, b) \in Seq(S) /\ Cat(a, b) \in Seq(S)
      BY <1>1, CatProperties
    <3>2. CASE a = <<>>
      BY <1>1, <2>1, <3>1, <3>2
    <3>3. CASE out = <<>>
      BY <1>1, <2>1, <3>1, <3>3
    <3> QED BY <1>3, <3>2, <3>3
  <2>4. Cat(w, Cat(out, data)) = Cat(Cat(w, out), data)
    BY CatProperties
  <2> QED BY <1>2, <2>2, <2>3, <2>4
<1>5. Cat(Cat(g, Cat(w, a)), Cat(out, b)) = Cat(Cat(Cat(g, w), out), data)
  <2>1. /\ Cat(w, a) \in Seq(S) /\ Cat(out, b) \in Seq(S) /\ Cat(w, out) \in Seq(S)
    BY <1>1, CatProperties
  <2>2. Cat(Cat(g, Cat(w, a)), Cat(out, b)) = Cat(g, Cat(Cat(w, a), Cat(out, b)))
    BY <2>1, CatProperties
  <2>3. Cat(g, Cat(Cat(w, out), data)) = Cat(Cat(g, Cat(w, out)), data)
    BY <2>1, CatProperties
  <2>4. Cat(g, Cat(w, out)) = Cat(Cat(g, w), out)
    BY CatProperties
  <2> QED BY <1>4, <2>2, <2>3, <2>4
<1>6. /\ Cat(Cat(g, w), out) \in Seq(S)
      /\ Cat(Cat(Cat(g, w), out), data) \in Seq(S)
  BY CatProperties
<1> QED BY <1>5, <1>6, CatProperties DEF Stream, a, b

\* The first of two sequences, if there is anything in it, has the head of both.
LEMMA HeadOfCat ==
  ASSUME NEW S, NEW p \in Seq(S), NEW q \in Seq(S), p # <<>>
  PROVE  Cat(p, q) # <<>> /\ Head(Cat(p, q)) = Head(p) /\ Tail(Cat(p, q)) = Cat(Tail(p), q)
<1>1. p \o q \in Seq(S) /\ p \o q # <<>>
  BY ConcatProperties, ConcatEqualIffEmpty
<1>2. Tail(p) \in Seq(S) /\ Tail(p \o q) \in Seq(S)
  BY <1>1, HeadTailProperties
<1>3. Tail(p) \o q \in Seq(S)
  BY <1>2, ConcatProperties
<1>4. Len(p) \in Nat \ {0} /\ Len(q) \in Nat
  BY EmptySeq, LenProperties
<1>5. Len(Tail(p \o q)) = Len(Tail(p) \o q)
  BY <1>1, <1>2, <1>4, HeadTailProperties, ConcatProperties
<1>6. ASSUME NEW i \in 1 .. Len(Tail(p \o q))
      PROVE  Tail(p \o q)[i] = (Tail(p) \o q)[i]
  OBVIOUS
<1>7. Tail(p \o q) = Tail(p) \o q
  BY <1>2, <1>3, <1>5, <1>6, SeqEqual
<1>8. Head(p \o q) = Head(p)
  BY <1>1, <1>4, ConcatProperties
<1> QED BY <1>1, <1>7, <1>8 DEF Cat

\* The byte a peer takes out of the send buffer is the first of what the
\* connection holds for it.
LEMMA PeerReadTakesHead ==
  ASSUME NEW S, NEW w \in Seq(S), w # <<>>, NEW out \in Seq(S), NEW r \in Seq(S)
  PROVE  LET q == Cat(Cat(w, out), r)
         IN  /\ q # <<>> /\ Head(q) = Head(w)
             /\ Tail(q) = Cat(Cat(Tail(w), out), r)
<1>1. Cat(w, out) \in Seq(S)
  BY CatProperties
<1>2. /\ Cat(w, out) # <<>> /\ Head(Cat(w, out)) = Head(w)
      /\ Tail(Cat(w, out)) = Cat(Tail(w), out)
  BY HeadOfCat
<1> DEFINE front == Cat(w, out)
<1> HIDE DEF front
<1>3. /\ Cat(front, r) # <<>> /\ Head(Cat(front, r)) = Head(front)
      /\ Tail(Cat(front, r)) = Cat(Tail(front), r)
  BY <1>1, <1>2, HeadOfCat DEF front
<1> QED BY <1>2, <1>3 DEF front
=============================================================================
