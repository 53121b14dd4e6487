------------------------- MODULE AsyncLoggingProofs -------------------------
(***************************************************************************)
(* What the log promises, for any sizes of buffers and files and any       *)
(* number of front ends and lines: ThreadFunc never runs out of spare      *)
(* buffers, and the lines are stored whole, once and in order.             *)
(***************************************************************************)
EXTENDS AsyncLogging, SequenceTheorems, WellFoundedInduction, TLAPS

-----------------------------------------------------------------------------
(* Flattened sequences                                                     *)

\* Induction over the naturals, for a set of them.
LEMMA SetInduction ==
  ASSUME NEW Good \in SUBSET Nat, 0 \in Good, \A n \in Good : n + 1 \in Good
  PROVE  Good = Nat
<1> DEFINE R   == OpToRel(<, Nat)
           bad == Nat \ Good
<1>1. IsWellFoundedOn(R, Nat)
  BY NatLessThanWellFounded
<1> SUFFICES ASSUME bad # {} PROVE FALSE
  OBVIOUS
<1> HIDE DEF R
<1>2. PICK n \in bad : \A m \in bad : ~ (<<m, n>> \in R)
  BY <1>1, WFMin
<1>3. n - 1 \in Nat /\ n - 1 < n
  BY <1>2
<1>4. <<n - 1, n>> \in R
  BY <1>2, <1>3 DEF R, OpToRel
<1>5. n - 1 \in Good
  BY <1>2, <1>3, <1>4
<1> QED BY <1>2, <1>3, <1>5

\* f is how FlattenSeq joins the first n of the sequences, one by one.
Joins(f, seqs, n) ==
  \A i \in 1 .. n : f[i] = IF i = 1 THEN seqs[i] ELSE f[i - 1] \o seqs[i]

\* There is but one way to join them.
LEMMA JoinsAgree ==
  ASSUME NEW s, NEW k \in Nat, NEW f, NEW g, Joins(f, s, k), Joins(g, s, k)
  PROVE  \A i \in 1 .. k : f[i] = g[i]
<1> DEFINE Good == {n \in Nat : n \in 1 .. k => f[n] = g[n]}
<1>1. 0 \in Good
  OBVIOUS
<1>2. ASSUME NEW n \in Good PROVE n + 1 \in Good
  <2> SUFFICES ASSUME n + 1 \in 1 .. k PROVE f[n + 1] = g[n + 1]
    OBVIOUS
  <2>1. CASE n = 0
    BY <2>1 DEF Joins
  <2>2. CASE n # 0
    <3>1. f[n] = g[n] /\ (n + 1) - 1 = n /\ n + 1 # 1
      BY <1>2, <2>2
    <3>2. f[n + 1] = f[(n + 1) - 1] \o s[n + 1] /\ g[n + 1] = g[(n + 1) - 1] \o s[n + 1]
      BY <3>1 DEF Joins
    <3> QED BY <3>1, <3>2
  <2> QED BY <2>1, <2>2
<1> HIDE DEF Good
<1>3. Good = Nat
  BY <1>1, <1>2, SetInduction DEF Good
<1> QED BY <1>3 DEF Good

\* There is one.
LEMMA JoinsExist ==
  ASSUME NEW S, NEW seqs \in Seq(Seq(S)), NEW k \in 1 .. Len(seqs)
  PROVE  \E f \in [1 .. k -> Seq(S)] : Joins(f, seqs, k)
<1> DEFINE Good == {n \in Nat : n \in 1 .. Len(seqs) =>
                      \E f \in [1 .. n -> Seq(S)] : Joins(f, seqs, n)}
<1>1. 0 \in Good
  OBVIOUS
<1>2. ASSUME NEW n \in Good PROVE n + 1 \in Good
  <2> SUFFICES ASSUME n + 1 \in 1 .. Len(seqs)
               PROVE  \E f \in [1 .. n + 1 -> Seq(S)] : Joins(f, seqs, n + 1)
    OBVIOUS
  <2>0. n \in Nat
    OBVIOUS
  <2>1. seqs[n + 1] \in Seq(S)
    BY ElementOfSeq
  <2>2. CASE n = 0
    <3> DEFINE f == [i \in 1 .. 1 |-> seqs[1]]
    <3>1. f \in [1 .. 1 -> Seq(S)] /\ Joins(f, seqs, 1)
      BY <2>1, <2>2 DEF Joins
    <3> QED BY <2>2, <3>1
  <2>3. CASE n # 0
    <3>1. PICK f \in [1 .. n -> Seq(S)] : Joins(f, seqs, n)
      BY <1>2, <2>3
    <3> DEFINE g == [i \in 1 .. n + 1 |-> IF i = n + 1 THEN f[n] \o seqs[n + 1] ELSE f[i]]
    <3>2. f[n] \o seqs[n + 1] \in Seq(S)
      BY <2>1, <2>3, <3>1, ConcatProperties
    <3>3. g \in [1 .. n + 1 -> Seq(S)]
      BY <3>1, <3>2
    <3>4. ASSUME NEW i \in 1 .. n + 1
          PROVE  g[i] = IF i = 1 THEN seqs[i] ELSE g[i - 1] \o seqs[i]
      <4> HIDE DEF Good
      <4>0. n \in Nat
        BY <2>0
      <4>1. CASE i = n + 1
        <5>0. g[i] = f[n] \o seqs[n + 1]
          BY <4>1
        <5>1. i - 1 = n /\ n \in 1 .. n + 1 /\ n # n + 1
          BY <2>3, <4>0, <4>1
        <5>2. g[i - 1] = f[n] /\ i # 1
          BY <2>3, <4>0, <4>1, <5>1
        <5> QED BY <4>1, <5>0, <5>1, <5>2
      <4>2. CASE i # n + 1
        <5>1. i \in 1 .. n /\ (i # 1 => i - 1 \in 1 .. n)
          BY <4>0, <4>2
        <5>2. i - 1 # n + 1
          BY <4>0
        <5>3. g[i] = f[i] /\ (i # 1 => g[i - 1] = f[i - 1])
          BY <4>0, <4>2, <5>1, <5>2
        <5> QED BY <3>1, <5>1, <5>3 DEF Joins
      <4> QED BY <4>1, <4>2
    <3>5. Joins(g, seqs, n + 1)
      BY <3>4 DEF Joins
    <3> QED BY <3>3, <3>5
  <2> QED BY <2>2, <2>3
<1> HIDE DEF Good
<1>3. Good = Nat
  BY <1>1, <1>2, SetInduction DEF Good
<1>4. k \in Nat
  OBVIOUS
<1>5. k \in Good
  BY <1>3, <1>4
<1> QED BY <1>5 DEF Good

\* FlattenSeq is the last of the joins.
LEMMA FlattenIsJoin ==
  ASSUME NEW S, NEW seqs \in Seq(Seq(S)), seqs # <<>>
  PROVE  \E f \in [1 .. Len(seqs) -> Seq(S)] :
           Joins(f, seqs, Len(seqs)) /\ FlattenSeq(seqs) = f[Len(seqs)]
<1> DEFINE n == Len(seqs)
           Body(f) == [i \in 1 .. n |-> IF i = 1 THEN seqs[i] ELSE f[i - 1] \o seqs[i]]
           h == CHOOSE f : f = Body(f)
<1>1. n \in Nat /\ n >= 1
  BY EmptySeq
<1>2. PICK g \in [1 .. n -> Seq(S)] : Joins(g, seqs, n)
  BY <1>1, JoinsExist
<1>3. g = Body(g)
  BY <1>2 DEF Joins
<1>4. h = Body(h)
  BY <1>3
<1>5. FlattenSeq(seqs) = h[n]
  BY <1>1 DEF FlattenSeq
<1> HIDE DEF h
<1>6. Joins(h, seqs, n)
  BY <1>4 DEF Joins
<1>7. g[n] = h[n]
  BY <1>1, <1>2, <1>6, JoinsAgree
<1> QED BY <1>2, <1>5, <1>7

\* What is flattened is a sequence of what the sequences hold.
LEMMA FlattenType ==
  ASSUME NEW S, NEW seqs \in Seq(Seq(S))
  PROVE  FlattenSeq(seqs) \in Seq(S)
<1>1. CASE seqs = <<>>
  BY <1>1 DEF FlattenSeq
<1>2. CASE seqs # <<>>
  <2>1. PICK f \in [1 .. Len(seqs) -> Seq(S)] : FlattenSeq(seqs) = f[Len(seqs)]
    BY <1>2, FlattenIsJoin
  <2>2. Len(seqs) \in Nat /\ Len(seqs) >= 1
    BY <1>2, EmptySeq
  <2>3. Len(seqs) \in 1 .. Len(seqs)
    BY <2>2
  <2> QED BY <2>1, <2>3
<1> QED BY <1>1, <1>2

\* One more sequence goes to the end.
LEMMA FlattenAppend ==
  ASSUME NEW S, NEW seqs \in Seq(Seq(S)), NEW x \in Seq(S)
  PROVE  FlattenSeq(Append(seqs, x)) = FlattenSeq(seqs) \o x
<1> DEFINE n    == Len(seqs)
           more == Append(seqs, x)
<1>1. /\ more \in Seq(Seq(S)) /\ Len(more) = n + 1 /\ more # <<>>
      /\ n \in Nat /\ more[n + 1] = x /\ \A i \in 1 .. n : seqs[i] = more[i]
  BY AppendProperties, EmptySeq
<1> HIDE DEF more, n
<1>2. PICK g \in [1 .. n + 1 -> Seq(S)] : Joins(g, more, n + 1) /\ FlattenSeq(more) = g[n + 1]
  BY <1>1, FlattenIsJoin
<1>3. CASE seqs = <<>>
  <2>1. FlattenSeq(seqs) = <<>> /\ n = 0
    BY <1>3 DEF FlattenSeq, n
  <2>2. FlattenSeq(more) = x
    BY <1>1, <1>2, <2>1 DEF Joins
  <2>3. <<>> \o x = x
    BY ConcatEmptySeq
  <2> QED BY <2>1, <2>2, <2>3 DEF more
<1>4. CASE seqs # <<>>
  <2>1. PICK f \in [1 .. n -> Seq(S)] : Joins(f, seqs, n) /\ FlattenSeq(seqs) = f[n]
    BY <1>4, FlattenIsJoin DEF n
  <2>2. n >= 1
    BY <1>1, <1>4, EmptySeq DEF n
  <2>3. Joins(g, seqs, n)
    <3>1. \A i \in 1 .. n : i \in 1 .. n + 1 /\ seqs[i] = more[i]
      BY <1>1
    <3> QED BY <1>2, <3>1 DEF Joins
  <2>4. f[n] = g[n]
    <3>1. \A u, v : Joins(u, seqs, n) /\ Joins(v, seqs, n) => \A i \in 1 .. n : u[i] = v[i]
      BY <1>1, JoinsAgree, SMTT(30)
    <3>2. \A i \in 1 .. n : f[i] = g[i]
      BY <2>1, <2>3, <3>1
    <3> QED BY <1>1, <2>2, <3>2
  <2>5. g[n + 1] = g[n] \o more[n + 1]
    <3>1. n + 1 \in 1 .. n + 1 /\ n + 1 # 1 /\ (n + 1) - 1 = n
      BY <1>1, <2>2
    <3>2. g[n + 1] = g[(n + 1) - 1] \o more[n + 1]
      BY <1>2, <3>1 DEF Joins
    <3> QED BY <3>1, <3>2
  <2> QED BY <1>1, <1>2, <2>1, <2>4, <2>5 DEF more
<1> QED BY <1>3, <1>4

-----------------------------------------------------------------------------
(* The buffers                                                             *)

\* Pointers to spare buffers: an empty one, or none.
Spares == {Nothing, <<Empty>>}

\* The strengthening of LogInv: current_ always points to a buffer, what is
\* kept for reuse is empty, and next_ is used up only if buffers_ grows.
BuffersInv ==
  /\ TypeOK
  /\ Len(current) = 1 /\ Len(current[1]) <= BufferSize
  /\ next \in Spares /\ newCurrent \in Spares /\ newNext \in Spares
  /\ Len(lines) <= MaxLines
  /\ next = Nothing => buffers # <<>>
  /\ back \in {"test", "waiting", "ended"} => newCurrent # Nothing /\ newNext # Nothing

\* The contents of buffers may be joined in any order.
LEMMA BuffersAssociate ==
  \A a, b, x \in Buffer : a \o (b \o x) = (a \o b) \o x
<1>1. \A S : \A a, b, x \in Seq(S) : a \o (b \o x) = (a \o b) \o x
  BY ConcatAssociative, SMTT(30)
<1> QED BY <1>1 DEF Buffer

\* Empty buffers, and the pointers to them.
LEMMA SpareProperties ==
  /\ Empty \in Buffer /\ Len(Empty) = 0
  /\ Nothing # <<Empty>>
  /\ \A b \in Buffer : Empty \o b = b /\ b \o Empty = b
  /\ <<Empty>>[1] = Empty
  /\ \A pointer \in Spares : pointer \in Seq(Buffer) /\ Len(pointer) <= 1
  /\ \A b \in Buffer : <<b>> \in Seq(Buffer) /\ Len(<<b>>) = 1 /\ <<b>>[1] = b
<1>1. Empty \in Buffer /\ Len(Empty) = 0
  BY EmptySeq DEF Buffer, Empty
<1>2. \A b \in Buffer : <<b>> \in Seq(Buffer) /\ Len(<<b>>) = 1 /\ <<b>>[1] = b
  OBVIOUS
<1>3. Nothing \in Seq(Buffer) /\ Len(Nothing) = 0
  BY EmptySeq DEF Nothing
<1>4. \A b \in Buffer : Empty \o b = b /\ b \o Empty = b
  BY ConcatEmptySeq DEF Buffer, Empty
<1> QED BY <1>1, <1>2, <1>3, <1>4 DEF Spares

\* One more buffer.
LEMMA AppendBuffer ==
  \A q \in Seq(Buffer), b \in Buffer :
    /\ Append(q, b) \in Seq(Buffer) /\ Append(q, b) # <<>> /\ Len(Append(q, b)) = Len(q) + 1
    /\ q \o <<b>> = Append(q, b)
    /\ FlattenSeq(q) \in Buffer
    /\ FlattenSeq(Append(q, b)) = FlattenSeq(q) \o b
<1> SUFFICES ASSUME NEW q \in Seq(Buffer), NEW b \in Buffer
             PROVE  /\ Append(q, b) \in Seq(Buffer) /\ Append(q, b) # <<>>
                    /\ Len(Append(q, b)) = Len(q) + 1
                    /\ q \o <<b>> = Append(q, b)
                    /\ FlattenSeq(q) \in Buffer
                    /\ FlattenSeq(Append(q, b)) = FlattenSeq(q) \o b
  OBVIOUS
<1>1. FlattenSeq(q) \in Buffer /\ FlattenSeq(Append(q, b)) = FlattenSeq(q) \o b
  BY FlattenType, FlattenAppend DEF Buffer
<1>2. Append(q, b) \in Seq(Buffer) /\ Len(Append(q, b)) = Len(q) + 1 /\ Len(q) \in Nat
  BY AppendProperties
<1>3. q \o <<b>> = Append(q, b)
  OBVIOUS
<1>4. Append(q, b) # <<>>
  BY <1>2, EmptySeq
<1> QED BY <1>1, <1>2, <1>3, <1>4

\* active_buffers: the full buffers, and the current one behind them.
LEMMA ActiveIs ==
  ASSUME BuffersInv
  PROVE  /\ current[1] \in Buffer /\ buffers \in Seq(Buffer)
         /\ Active = Append(buffers, current[1])
         /\ Active \in Seq(Buffer) /\ Len(Active) = Len(buffers) + 1
         /\ FlattenSeq(Active) = FlattenSeq(buffers) \o current[1]
         /\ FlattenSeq(buffers) \in Buffer /\ FlattenSeq(Active) \in Buffer
<1>1. current \in Seq(Buffer) /\ Len(current) = 1 /\ buffers \in Seq(Buffer)
  BY DEF BuffersInv, TypeOK
<1>2. \A p \in Seq(Buffer) : Len(p) = 1 => p[1] \in Buffer /\ p = <<p[1]>>
  OBVIOUS
<1>3. current[1] \in Buffer /\ current = <<current[1]>>
  BY <1>1, <1>2
<1> DEFINE c == current[1]
<1>4. Active = buffers \o <<c>> /\ c \in Buffer
  BY <1>3 DEF Active
<1> HIDE DEF c
<1>5. /\ buffers \o <<c>> = Append(buffers, c) /\ Append(buffers, c) \in Seq(Buffer)
      /\ Len(Append(buffers, c)) = Len(buffers) + 1
      /\ FlattenSeq(Append(buffers, c)) = FlattenSeq(buffers) \o c
      /\ FlattenSeq(buffers) \in Buffer
  BY <1>1, <1>4, AppendBuffer
<1>6. Active = Append(buffers, c) /\ Active \in Seq(Buffer)
  BY <1>4, <1>5
<1>7. FlattenSeq(Active) \in Buffer
  BY <1>6, FlattenType DEF Buffer
<1> QED BY <1>1, <1>4, <1>5, <1>6, <1>7 DEF c

\* FixedBuffer::append takes the whole line, or nothing of it.
LEMMA PutTakes ==
  ASSUME NEW buffer \in Buffer, Len(buffer) <= BufferSize, NEW line \in Buffer
  PROVE  /\ Put(buffer, line) \in Buffer /\ Len(Put(buffer, line)) <= BufferSize
         /\ Avail(buffer) \in 0 .. BufferSize
         /\ \/ Put(buffer, line) = buffer \o line
            \/ Put(buffer, line) = buffer /\ Len(line) >= Avail(buffer)
<1>1. Len(buffer) \in Nat /\ Len(line) \in Nat /\ BufferSize \in Nat
  BY LogAssumption, LenProperties DEF Buffer
<1>2. buffer \o line \in Buffer /\ Len(buffer \o line) = Len(buffer) + Len(line)
  BY ConcatProperties DEF Buffer
<1> QED BY <1>1, <1>2 DEF Put, Avail

\* The line that is appended next.
NextLine(len) == [i \in 1 .. len |-> Len(lines) + 1]

LEMMA NextLineType ==
  ASSUME BuffersInv, NEW len \in 1 .. MaxLine, Len(lines) < MaxLines
  PROVE  /\ NextLine(len) \in Buffer /\ Len(NextLine(len)) = len
         /\ Len(lines) \in Nat /\ len \in Nat /\ len <= BufferSize
<1>1. len \in Nat /\ len <= BufferSize
  BY LogAssumption
<1>2. Len(lines) \in Nat
  BY LenProperties DEF BuffersInv, TypeOK
<1>3. Len(lines) + 1 \in 1 .. MaxLines
  BY <1>2, LogAssumption
<1>4. \A n \in 1 .. MaxLines :
        [i \in 1 .. len |-> n] \in Seq(1 .. MaxLines) /\ Len([i \in 1 .. len |-> n]) = len
  BY <1>1
<1> QED BY <1>1, <1>2, <1>3, <1>4 DEF NextLine, Buffer

\* A front end's step: current_ takes the line, or gives way to next_ or to a
\* new buffer, which takes it; a line that would fill a buffer is dropped.
LEMMA AppendLineStores ==
  ASSUME BuffersInv, NEW len \in 1 .. MaxLine, AppendLine(len)
  PROVE  /\ BuffersInv'
         /\ \/ FlattenSeq(Active)' = FlattenSeq(Active) \o NextLine(len)
            \/ /\ FlattenSeq(Active)' = FlattenSeq(Active)
               /\ len \in {Avail(current[1]), BufferSize}
<1> DEFINE c    == current[1]
           line == NextLine(len)
<1>1. /\ c \in Buffer /\ Len(c) <= BufferSize /\ buffers \in Seq(Buffer)
      /\ Active = Append(buffers, c) /\ Active \in Seq(Buffer)
      /\ FlattenSeq(Active) = FlattenSeq(buffers) \o c
      /\ FlattenSeq(buffers) \in Buffer /\ FlattenSeq(Active) \in Buffer
  BY ActiveIs DEF BuffersInv
<1>2. Len(lines) < MaxLines
  BY DEF AppendLine
<1>3. /\ line \in Buffer /\ Len(line) = len /\ Len(lines) \in Nat /\ len \in Nat
      /\ len <= BufferSize
  BY <1>2, NextLineType
<1>4. /\ UNCHANGED <<owner, running, back, newCurrent, newNext, files, flushed>>
      /\ lines' = Append(lines, [len |-> len, room |-> Avail(c)])
  BY DEF AppendLine
<1>5. \/ /\ Avail(c) >= len
         /\ current' = <<Put(c, line)>> /\ UNCHANGED <<buffers, next>>
      \/ /\ buffers' = Active
         /\ current' = <<Put(Empty, line)>>
         /\ next' = Nothing
  <2>1. (IF next # Nothing THEN next[1] ELSE Empty) = Empty
    BY SpareProperties DEF BuffersInv, Spares
  <2> QED BY <2>1 DEF AppendLine, NextLine, Active
<1> HIDE DEF line, c
<1>6. /\ Put(c, line) \in Buffer /\ Len(Put(c, line)) <= BufferSize
      /\ Avail(c) \in 0 .. BufferSize
      /\ \/ Put(c, line) = c \o line
         \/ Put(c, line) = c /\ len >= Avail(c)
  BY <1>1, <1>3, PutTakes
<1>7. /\ Put(Empty, line) \in Buffer /\ Len(Put(Empty, line)) <= BufferSize
      /\ \/ Put(Empty, line) = line
         \/ Put(Empty, line) = Empty /\ len = BufferSize
  <2>1. Empty \in Buffer /\ Len(Empty) = 0 /\ BufferSize \in Nat
    BY SpareProperties, LogAssumption
  <2>2. Avail(Empty) = BufferSize
    BY <2>1 DEF Avail
  <2>3. Empty \o line = line
    BY <1>3, SpareProperties
  <2>4. /\ Put(Empty, line) \in Buffer /\ Len(Put(Empty, line)) <= BufferSize
        /\ \/ Put(Empty, line) = Empty \o line
           \/ Put(Empty, line) = Empty /\ len >= Avail(Empty)
    BY <1>3, <2>1, PutTakes
  <2> QED BY <1>3, <2>1, <2>2, <2>3, <2>4
<1>8. lines' \in Seq([len : 1 .. MaxLine, room : 0 .. BufferSize]) /\ Len(lines') <= MaxLines
  <2>1. [len |-> len, room |-> Avail(c)] \in [len : 1 .. MaxLine, room : 0 .. BufferSize]
    BY <1>6
  <2>2. lines \in Seq([len : 1 .. MaxLine, room : 0 .. BufferSize])
    BY DEF BuffersInv, TypeOK
  <2>3. /\ lines' \in Seq([len : 1 .. MaxLine, room : 0 .. BufferSize])
        /\ Len(lines') = Len(lines) + 1
    BY <1>4, <2>1, <2>2, AppendProperties
  <2> QED BY <1>2, <1>3, <2>3, LogAssumption
<1>9. /\ current' \in Seq(Buffer) /\ Len(current') = 1 /\ current'[1] \in Buffer
      /\ Len(current'[1]) <= BufferSize
      /\ next' \in Spares
      /\ buffers' \in Seq(Buffer) /\ (next' = Nothing => buffers' # <<>>)
  <2>1. Active # <<>>
    BY <1>1
  <2> QED BY <1>1, <1>5, <1>6, <1>7, <2>1, SpareProperties DEF BuffersInv, Spares
<1>10. BuffersInv'
  BY <1>4, <1>8, <1>9, SpareProperties DEF BuffersInv, TypeOK
<1>11. /\ Active' = Append(buffers', current'[1])
       /\ FlattenSeq(Active)' = FlattenSeq(buffers') \o current'[1]
  <2>1. Active' = buffers' \o current' /\ current' = <<current'[1]>>
    BY <1>5, <1>9 DEF Active
  <2>2. \A b \in Buffer : /\ buffers' \o <<b>> = Append(buffers', b)
                          /\ FlattenSeq(Append(buffers', b)) = FlattenSeq(buffers') \o b
    BY <1>9, AppendBuffer
  <2> QED BY <1>9, <2>1, <2>2
<1>12. \A a, b, x \in Buffer : a \o (b \o x) = (a \o b) \o x
  BY BuffersAssociate
<1>13. CASE Avail(c) >= len /\ current' = <<Put(c, line)>> /\ UNCHANGED <<buffers, next>>
  <2>1. FlattenSeq(Active)' = FlattenSeq(buffers) \o Put(c, line)
    BY <1>6, <1>11, <1>13
  <2>2. CASE Put(c, line) = c \o line
    <3>1. FlattenSeq(Active)' = FlattenSeq(Active) \o line
      <4> DEFINE a == FlattenSeq(buffers)
      <4>1. a \in Buffer
        BY <1>1
      <4> HIDE DEF a
      <4>2. a \o (c \o line) = (a \o c) \o line
        BY <1>1, <1>3, <1>12, <4>1
      <4> QED BY <1>1, <2>1, <2>2, <4>2 DEF a
    <3> QED BY <1>10, <3>1 DEF line
  <2>3. CASE Put(c, line) = c /\ len >= Avail(c)
    <3>1. FlattenSeq(Active)' = FlattenSeq(Active)
      BY <1>1, <2>1, <2>3
    <3>2. len = Avail(c)
      BY <1>3, <1>6, <1>13, <2>3
    <3> QED BY <1>10, <3>1, <3>2 DEF c
  <2> QED BY <1>6, <2>2, <2>3
<1>14. CASE /\ buffers' = Active
            /\ current' = <<Put(Empty, line)>>
            /\ next' = Nothing
  <2>1. FlattenSeq(Active)' = FlattenSeq(Active) \o Put(Empty, line)
    BY <1>7, <1>11, <1>14
  <2>2. FlattenSeq(Active) \o Empty = FlattenSeq(Active)
    BY <1>1, SpareProperties
  <2> QED BY <1>7, <1>10, <2>1, <2>2 DEF line
<1> QED BY <1>5, <1>13, <1>14

\* What is flushed is a number of bytes.
LEMMA FlushedType ==
  ASSUME BuffersInv
  PROVE  /\ FlushAll \in Nat
         /\ \A last \in 0 .. Len(Active) : Flushed(last) \in Nat
<1>1. files \in Seq(Buffer) /\ files # <<>> /\ flushed \in Nat
  BY DEF BuffersInv, TypeOK
<1>2. \A q \in Seq(Buffer) : q # <<>> => q[Len(q)] \in Buffer
  OBVIOUS
<1>3. \A b \in Buffer : Len(b) \in Nat
  BY DEF Buffer
<1>4. Len(Last(files)) \in Nat
  BY <1>1, <1>2, <1>3 DEF Last
<1>5. Active \in Seq(Buffer)
  BY ActiveIs
<1>6. ASSUME NEW last \in 0 .. Len(Active)
      PROVE  Flushed(last) \in Nat
  <2>1. \A q \in Seq(Buffer) : \A k \in 0 .. Len(q) : SubSeq(q, 1, k) \in Seq(Buffer)
    OBVIOUS
  <2>2. SubSeq(Active, 1, last) \in Seq(Buffer)
    BY <1>5, <2>1
  <2>3. FlattenSeq(SubSeq(Active, 1, last)) \in Buffer
    BY <2>2, FlattenType DEF Buffer
  <2>4. Len(FlattenSeq(SubSeq(Active, 1, last))) \in Nat
    BY <1>3, <2>3
  <2> QED BY <1>1, <1>4, <2>4 DEF Flushed
<1> QED BY <1>4, <1>6 DEF FlushAll

\* The back end's step: the file takes all that was appended, the buffers are
\* empty again, and for each spare buffer that was used one comes back.
LEMMA WriteOutStores ==
  ASSUME BuffersInv, WriteOut, back \in {"test", "waiting"}
  PROVE  BuffersInv' /\ Stored' = Stored /\ UNCHANGED lines
<1>1. /\ Active \in Seq(Buffer) /\ Len(Active) = Len(buffers) + 1 /\ buffers \in Seq(Buffer)
      /\ FlattenSeq(Active) \in Buffer
  BY ActiveIs
<1>2. Len(Kept(Active)) >= 1 /\ (next = Nothing => Len(Kept(Active)) >= 2)
  <2>1. \A p \in Seq(Buffer) : /\ Len(p) \in Nat /\ (p # <<>> => Len(p) >= 1)
                               /\ Len(p) > 2 => Len(SubSeq(p, 1, 2)) = 2
    OBVIOUS
  <2>2. Len(buffers) \in Nat /\ (next = Nothing => Len(buffers) >= 1)
    BY <1>1, <2>1 DEF BuffersInv
  <2> QED BY <1>1, <2>1, <2>2 DEF Kept
<1>3. newCurrent = <<Empty>> /\ newNext = <<Empty>>
  BY DEF BuffersInv, Spares
<1>4. current' = <<Empty>> /\ next' = <<Empty>> /\ newCurrent' = <<Empty>>
  BY <1>2, <1>3 DEF WriteOut, BuffersInv, Spares, Refill
<1>5. newNext' = <<Empty>>
  <2>1. CASE next = Nothing
    BY <1>2, <2>1 DEF WriteOut, Refill
  <2>2. CASE next # Nothing
    BY <1>3, <2>2, SpareProperties DEF WriteOut, Refill
  <2> QED BY <2>1, <2>2
<1>6. buffers' = <<>> /\ back' = "test" /\ UNCHANGED <<owner, running, lines>>
  BY DEF WriteOut
<1>7. files' = Written
  BY DEF WriteOut
<1> DEFINE file == Last(files) \o FlattenSeq(Active)
           done == Append(Front(files), file)
<1>8. /\ Front(files) \in Seq(Buffer) /\ Last(files) \in Buffer
      /\ files = Append(Front(files), Last(files))
  <2>1. files \in Seq(Buffer) /\ files # <<>>
    BY DEF BuffersInv, TypeOK
  <2>2. \A q \in Seq(Buffer) : q # <<>> =>
          /\ SubSeq(q, 1, Len(q) - 1) \in Seq(Buffer) /\ q[Len(q)] \in Buffer
          /\ q = Append(SubSeq(q, 1, Len(q) - 1), q[Len(q)])
    OBVIOUS
  <2> QED BY <2>1, <2>2 DEF Front, Last
<1>9. file \in Buffer /\ done \in Seq(Buffer) /\ done # <<>>
  <2>1. \A a, b \in Buffer : a \o b \in Buffer
    BY ConcatProperties DEF Buffer
  <2>2. file \in Buffer
    BY <1>1, <1>8, <2>1
  <2> HIDE DEF file
  <2> QED BY <1>8, <2>2, AppendBuffer
<1>10. FlattenSeq(done) = FlattenSeq(files) \o FlattenSeq(Active)
  <2> DEFINE first == Front(files)
             last  == Last(files)
             all   == FlattenSeq(Active)
  <2>1. first \in Seq(Buffer) /\ last \in Buffer /\ all \in Buffer /\ files = Append(first, last)
    BY <1>1, <1>8
  <2>2. done = Append(first, last \o all) /\ last \o all \in Buffer
    BY <1>9
  <2> HIDE DEF first, last, all, done
  <2>3. \A a, b, x \in Buffer : a \o (b \o x) = (a \o b) \o x
    BY BuffersAssociate
  <2>4. /\ FlattenSeq(files) = FlattenSeq(first) \o last /\ FlattenSeq(first) \in Buffer
        /\ FlattenSeq(done) = FlattenSeq(first) \o (last \o all)
    BY <2>1, <2>2, AppendBuffer
  <2>5. FlattenSeq(first) \o (last \o all) = (FlattenSeq(first) \o last) \o all
    BY <2>1, <2>3, <2>4
  <2> QED BY <2>4, <2>5 DEF all
<1>11. Written \in {done, Append(done, Empty)}
  <2> HIDE DEF file
  <2>1. Front(files) \o <<file>> = Append(Front(files), file)
    BY <1>8, <1>9, AppendBuffer
  <2> QED BY <2>1 DEF Written, OpenFile, file
<1> HIDE DEF done
<1>12. /\ files' \in Seq(Buffer) /\ files' # <<>>
       /\ FlattenSeq(files') = FlattenSeq(files) \o FlattenSeq(Active)
  <2>1. /\ Append(done, Empty) \in Seq(Buffer) /\ Append(done, Empty) # <<>>
        /\ FlattenSeq(Append(done, Empty)) = FlattenSeq(done) \o Empty
        /\ FlattenSeq(done) \in Buffer
    BY <1>9, SpareProperties, AppendBuffer
  <2>2. FlattenSeq(done) \o Empty = FlattenSeq(done)
    BY <2>1, SpareProperties
  <2> QED BY <1>7, <1>9, <1>10, <1>11, <2>1, <2>2
<1>13. FlattenSeq(Active)' = Empty
  <2>1. Active' = <<>> \o <<Empty>>
    BY <1>4, <1>6 DEF Active
  <2>2. FlattenSeq(<<>>) = Empty
    BY DEF FlattenSeq, Empty
  <2>3. \A q \in Seq(Buffer) : FlattenSeq(q) = Empty => FlattenSeq(q \o <<Empty>>) = Empty
    <3>1. Empty \in Buffer /\ Empty \o Empty = Empty
      BY SpareProperties
    <3>2. \A q \in Seq(Buffer) :
            /\ q \o <<Empty>> = Append(q, Empty)
            /\ FlattenSeq(Append(q, Empty)) = FlattenSeq(q) \o Empty
      BY <3>1, AppendBuffer
    <3> QED BY <3>1, <3>2
  <2>4. <<>> \in Seq(Buffer)
    BY EmptySeq
  <2> QED BY <2>1, <2>2, <2>3, <2>4
<1>14. Stored' = Stored
  <2>1. Stored = FlattenSeq(files) \o FlattenSeq(Active) /\ Stored \in Buffer
    <3>1. FlattenSeq(files) \in Buffer
      BY FlattenType DEF BuffersInv, TypeOK, Buffer
    <3> QED BY <1>1, <3>1, ConcatProperties DEF Stored, File, Buffer
  <2>2. Stored' = FlattenSeq(files') \o Empty
    BY <1>13 DEF Stored, File
  <2> QED BY <1>12, <2>1, <2>2, SpareProperties
<1>15. flushed' \in Nat
  BY FlushedType DEF WriteOut
<1>16. BuffersInv'
  BY <1>4, <1>5, <1>6, <1>12, <1>15, SpareProperties, EmptySeq, LogAssumption
     DEF BuffersInv, TypeOK, Spares
<1> QED BY <1>6, <1>14, <1>16

\* A step of the back end or of the owner that moves no buffer.
LEMMA QuietKeepsBuffers ==
  ASSUME BuffersInv, BackBegins \/ BeginWait \/ BackEnds \/ Start \/ Stop \/ Join
  PROVE  BuffersInv' /\ UNCHANGED <<current, buffers, files, lines>>
<1>1. CASE BackBegins
  <2>1. /\ newCurrent' = <<Empty>> /\ newNext' = <<Empty>> /\ back' = "test" /\ owner' = "started"
        /\ UNCHANGED <<running, current, next, buffers, lines, files, flushed>>
    BY <1>1 DEF BackBegins, front
  <2> QED BY <2>1, SpareProperties DEF BuffersInv, TypeOK, Spares
<1>2. CASE BeginWait \/ BackEnds
  BY <1>2, FlushedType DEF BeginWait, BackEnds, front, BuffersInv, TypeOK
<1>3. CASE Start \/ Stop \/ Join
  BY <1>3 DEF Start, Stop, Join, front, BuffersInv, TypeOK
<1> QED BY <1>1, <1>2, <1>3

-----------------------------------------------------------------------------
(* The lines                                                               *)

\* The lines whose bytes were kept; LinesInOrder says that these are stored.
Whole == [i \in DOMAIN lines |-> IF i \in Present THEN Line(i) ELSE <<>>]

\* Nothing is stored but bytes of the lines appended, and these are in order.
LinesInv == Stored \in Seq(1 .. Len(lines)) /\ LinesInOrder

\* The lines that are present have bytes of their own there.
LEMMA PresentIs ==
  ASSUME NEW S, NEW q \in Seq(S), NEW x \in Seq(S)
  PROVE  Range(q) \subseteq S /\ Range(q \o x) = Range(q) \cup Range(x)
<1>1. /\ q \o x \in Seq(S) /\ Len(q \o x) = Len(q) + Len(x)
      /\ Len(q) \in Nat /\ Len(x) \in Nat
      /\ \A i \in 1 .. Len(q) + Len(x) : (q \o x)[i] = IF i <= Len(q) THEN q[i] ELSE x[i - Len(q)]
  BY ConcatProperties
<1>2. \A p \in Seq(S) : DOMAIN p = 1 .. Len(p) /\ \A i \in 1 .. Len(p) : p[i] \in S
  OBVIOUS
<1>3. Range(q \o x) = {(q \o x)[i] : i \in 1 .. Len(q) + Len(x)}
  BY <1>1, <1>2 DEF Range
<1>4. Range(q) = {q[i] : i \in 1 .. Len(q)} /\ Range(x) = {x[i] : i \in 1 .. Len(x)}
  BY <1>2 DEF Range
<1>5. ASSUME NEW i \in 1 .. Len(q) PROVE q[i] \in Range(q \o x)
  <2>1. i \in 1 .. Len(q) + Len(x) /\ (q \o x)[i] = q[i]
    BY <1>1
  <2> QED BY <1>3, <2>1
<1>6. ASSUME NEW i \in 1 .. Len(x) PROVE x[i] \in Range(q \o x)
  <2>1. /\ i + Len(q) \in 1 .. Len(q) + Len(x) /\ ~(i + Len(q) <= Len(q))
        /\ (i + Len(q)) - Len(q) = i
    BY <1>1
  <2>2. (q \o x)[i + Len(q)] = x[(i + Len(q)) - Len(q)]
    BY <1>1, <2>1
  <2> QED BY <1>3, <2>1, <2>2
<1>7. ASSUME NEW i \in 1 .. Len(q) + Len(x) PROVE (q \o x)[i] \in Range(q) \cup Range(x)
  <2>1. CASE i <= Len(q)
    BY <1>1, <1>4, <2>1
  <2>2. CASE ~(i <= Len(q))
    <3>1. i - Len(q) \in 1 .. Len(x)
      BY <1>1, <2>2
    <3> QED BY <1>1, <1>4, <2>2, <3>1
  <2> QED BY <2>1, <2>2
<1>8. Range(q \o x) \subseteq Range(q) \cup Range(x)
  BY <1>3, <1>7
<1>9. Range(q) \subseteq Range(q \o x) /\ Range(x) \subseteq Range(q \o x)
  BY <1>4, <1>5, <1>6
<1>10. Range(q) \subseteq S
  BY <1>2, <1>4
<1> QED BY <1>8, <1>9, <1>10

\* How lines grows.
LEMMA LinesGrow ==
  ASSUME BuffersInv, NEW len \in 1 .. MaxLine, AppendLine(len)
  PROVE  LET n == Len(lines) + 1
         IN  /\ Len(lines) \in Nat /\ DOMAIN lines = 1 .. Len(lines)
             /\ Len(lines') = n /\ DOMAIN lines' = 1 .. n
             /\ lines'[n] = [len |-> len, room |-> Avail(current[1])]
             /\ \A i \in 1 .. Len(lines) : lines'[i] = lines[i]
             /\ \A i \in 1 .. Len(lines) : lines[i].len \in Nat
<1> DEFINE r == [len |-> len, room |-> Avail(current[1])]
           T == [len : 1 .. MaxLine, room : 0 .. BufferSize]
<1>1. lines \in Seq(T) /\ MaxLine \in Nat
  BY LogAssumption DEF BuffersInv, TypeOK
<1>2. lines' = Append(lines, r)
  BY DEF AppendLine
<1> HIDE DEF r
<1>3. \A S : \A q \in Seq(S) :
        /\ Len(q) \in Nat /\ DOMAIN q = 1 .. Len(q)
        /\ Len(Append(q, r)) = Len(q) + 1 /\ DOMAIN Append(q, r) = 1 .. Len(q) + 1
        /\ Append(q, r)[Len(q) + 1] = r
        /\ \A i \in 1 .. Len(q) : Append(q, r)[i] = q[i]
  OBVIOUS
<1>4. \A i \in 1 .. Len(lines) : lines[i].len \in Nat
  <2>1. \A i \in 1 .. Len(lines) : lines[i] \in T
    BY <1>1, ElementOfSeq
  <2> QED BY <1>1, <2>1
<1> HIDE DEF T
<1> QED BY <1>1, <1>2, <1>3, <1>4 DEF r

\* A line goes behind all that is stored, as a whole or not at all.
LEMMA AppendKeepsLines ==
  ASSUME BuffersInv, LinesInv, NEW len \in 1 .. MaxLine, AppendLine(len)
  PROVE  LinesInv'
<1> DEFINE n    == Len(lines) + 1
           line == NextLine(len)
           S    == 1 .. n
<1>1. /\ Len(lines) \in Nat /\ DOMAIN lines = 1 .. Len(lines)
      /\ Len(lines') = n /\ DOMAIN lines' = 1 .. n
      /\ lines'[n] = [len |-> len, room |-> Avail(current[1])]
      /\ \A i \in 1 .. Len(lines) : lines'[i] = lines[i]
      /\ \A i \in 1 .. Len(lines) : lines[i].len \in Nat
  BY LinesGrow
<1>2. \/ FlattenSeq(Active)' = FlattenSeq(Active) \o line
      \/ FlattenSeq(Active)' = FlattenSeq(Active) /\ len \in {Avail(current[1]), BufferSize}
  BY AppendLineStores
<1>3. /\ FlattenSeq(Active) \in Buffer /\ File \in Buffer /\ line \in Buffer
      /\ len \in Nat /\ len >= 1
  <2>1. Len(lines) < MaxLines
    BY DEF AppendLine
  <2>2. FlattenSeq(files) \in Buffer
    BY FlattenType DEF BuffersInv, TypeOK, Buffer
  <2> QED BY <2>1, <2>2, ActiveIs, NextLineType DEF File
<1>4. \/ Stored' = Stored \o line
      \/ Stored' = Stored /\ len \in {Avail(current[1]), BufferSize}
  <2>1. Stored' = File \o FlattenSeq(Active)' /\ Stored = File \o FlattenSeq(Active)
    BY DEF AppendLine, Stored, File
  <2>2. \A a, b, x \in Buffer : a \o (b \o x) = (a \o b) \o x
    BY BuffersAssociate
  <2> HIDE DEF line
  <2>3. File \o (FlattenSeq(Active) \o line) = (File \o FlattenSeq(Active)) \o line
    BY <1>3, <2>2
  <2> QED BY <1>2, <2>1, <2>3
<1>5. Stored \in Seq(1 .. Len(lines)) /\ Stored \in Seq(S) /\ line \in Seq(S) /\ <<>> \in Seq(S)
  <2>1. Stored \in Seq(1 .. Len(lines))
    BY DEF LinesInv
  <2>2. 1 .. Len(lines) \subseteq S
    BY <1>1
  <2>3. \A k \in S : [i \in 1 .. len |-> k] \in Seq(S)
    BY <1>3
  <2>4. n \in S
    BY <1>1
  <2> QED BY <2>1, <2>2, <2>3, <2>4, SeqMonotonic, EmptySeq DEF NextLine
<1>6. Range(line) = {n} /\ Present \subseteq 1 .. Len(lines) /\ n \notin Present
  <2>1. Range(line) = {n}
    <3>1. DOMAIN line = 1 .. len /\ \A i \in 1 .. len : line[i] = n
      BY DEF NextLine
    <3>2. 1 \in 1 .. len
      BY <1>3
    <3> QED BY <3>1, <3>2 DEF Range
  <2>2. Present \subseteq 1 .. Len(lines)
    <3>1. <<>> \in Seq(1 .. Len(lines))
      BY EmptySeq
    <3> QED BY <1>5, <3>1, PresentIs DEF Present
  <2> QED BY <1>1, <2>1, <2>2
<1> DEFINE x == IF n \in Present' THEN line ELSE <<>>
<1>7. /\ Stored' = Stored \o x /\ Stored' \in Seq(S) /\ x \in Seq(S)
      /\ Present' = Present \cup (IF n \in Present' THEN {n} ELSE {})
      /\ n \notin Present' => len \in {Avail(current[1]), BufferSize}
  <2>1. CASE Stored' = Stored \o line
    <3>1. Present' = Present \cup {n}
      BY <1>5, <1>6, <2>1, PresentIs DEF Present
    <3> QED BY <1>5, <2>1, <3>1, ConcatProperties
  <2>2. CASE Stored' = Stored /\ len \in {Avail(current[1]), BufferSize}
    <3>1. Present' = Present
      BY <2>2 DEF Present
    <3>2. Stored \o <<>> = Stored
      BY <1>5, ConcatEmptySeq
    <3> QED BY <1>5, <1>6, <2>2, <3>1, <3>2
  <2> QED BY <1>4, <2>1, <2>2
<1>8. Whole \in Seq(Seq(S)) /\ Len(Whole) = Len(lines)
  <2>1. ASSUME NEW i \in 1 .. Len(lines)
        PROVE  (IF i \in Present THEN Line(i) ELSE <<>>) \in Seq(S)
    <3>1. lines[i].len \in Nat /\ i \in S
      BY <1>1
    <3>2. \A k \in Nat : [j \in 1 .. k |-> i] \in Seq(S)
      BY <3>1
    <3> QED BY <1>5, <3>1, <3>2 DEF Line
  <2> QED BY <1>1, <2>1 DEF Whole
<1>9. Whole' = Append(Whole, x)
  <2> DEFINE Grown(i) == IF i \in Present' THEN [j \in 1 .. lines'[i].len |-> i] ELSE <<>>
  <2>1. Whole' = [i \in 1 .. n |-> Grown(i)]
    BY <1>1 DEF Whole, Line
  <2>2. ASSUME NEW i \in 1 .. Len(lines)
        PROVE  Grown(i) = Whole[i]
    <3>1. i # n /\ lines'[i] = lines[i] /\ i \in DOMAIN lines
      BY <1>1
    <3>2. i \in Present' <=> i \in Present
      BY <1>7, <3>1
    <3>3. Whole[i] = IF i \in Present THEN [j \in 1 .. lines[i].len |-> i] ELSE <<>>
      BY <3>1 DEF Whole, Line
    <3> QED BY <3>1, <3>2, <3>3
  <2>3. Grown(n) = x
    <3>1. lines'[n].len = len
      BY <1>1
    <3>2. line = [j \in 1 .. len |-> n]
      BY DEF NextLine
    <3> QED BY <3>1, <3>2
  <2> HIDE DEF x, Grown
  <2>4. ASSUME NEW T, NEW q \in Seq(T), NEW e \in T
        PROVE  Append(q, e) = [i \in 1 .. Len(q) + 1 |-> IF i = Len(q) + 1 THEN e ELSE q[i]]
    <3> DEFINE f == [i \in 1 .. Len(q) + 1 |-> IF i = Len(q) + 1 THEN e ELSE q[i]]
    <3>1. Append(q, e) \in Seq(T) /\ Len(Append(q, e)) = Len(q) + 1 /\ Len(q) \in Nat
      BY AppendProperties
    <3> DEFINE a == Append(q, e)
    <3> HIDE DEF a
    <3>2. PICK k \in Nat : a \in [1 .. k -> T]
      <4>1. a \in UNION {[1 .. k -> T] : k \in Nat}
        BY <3>1, SeqDef DEF a
      <4> QED BY <4>1
    <3>3. k = Len(q) + 1
      <4>1. Len(a) = k
        BY <3>2
      <4> QED BY <3>1, <4>1 DEF a
    <3>4. \A i \in 1 .. Len(q) + 1 : f[i] = Append(q, e)[i]
      BY <3>1, AppendProperties
    <3>5. a = f
      BY <3>2, <3>3, <3>4 DEF a
    <3> QED BY <3>5 DEF a
  <2>5. Append(Whole, x) = [i \in 1 .. n |-> IF i = n THEN x ELSE Whole[i]]
    BY <1>7, <1>8, <2>4
  <2>6. ASSUME NEW i \in 1 .. n
        PROVE  Grown(i) = IF i = n THEN x ELSE Whole[i]
    <3>1. i = n \/ i \in 1 .. Len(lines)
      BY <1>1
    <3>2. CASE i = n
      BY <2>3, <3>2
    <3>3. CASE i # n
      BY <2>2, <3>1, <3>3
    <3> QED BY <3>2, <3>3
  <2> HIDE DEF n
  <2> QED BY <2>1, <2>5, <2>6
<1>10. Stored' = FlattenSeq(Whole')
  <2>1. Stored = FlattenSeq(Whole)
    BY DEF LinesInv, LinesInOrder, Whole
  <2> HIDE DEF x
  <2> QED BY <1>7, <1>8, <1>9, <2>1, FlattenAppend
<1>11. ASSUME NEW i \in 1 .. n, i \notin Present'
       PROVE  lines'[i].len \in {lines'[i].room, BufferSize}
  <2>1. CASE i = n
    BY <1>1, <1>7, <1>11, <2>1
  <2>2. CASE i # n
    <3>1. i \in 1 .. Len(lines) /\ lines'[i] = lines[i]
      BY <1>1, <1>11, <2>2
    <3>2. i \notin Present
      <4> HIDE DEF x, n
      <4> QED BY <1>7, <1>11
    <3> QED BY <1>1, <3>1, <3>2 DEF LinesInv, LinesInOrder
  <2> QED BY <2>1, <2>2
<1> QED BY <1>1, <1>7, <1>10, <1>11 DEF LinesInv, LinesInOrder, Whole

\* What is stored stays where it is while the back end writes, and no other
\* step touches it.
LEMMA LinesInit == Init => BuffersInv /\ LinesInv
<1> SUFFICES ASSUME Init PROVE BuffersInv /\ LinesInv
  OBVIOUS
<1>1. /\ owner = "new" /\ running = FALSE /\ back = "none"
      /\ current = <<Empty>> /\ next = <<Empty>> /\ buffers = <<>>
      /\ newCurrent = Nothing /\ newNext = Nothing
      /\ files = <<Empty>> /\ flushed = 0 /\ lines = <<>>
  BY DEF Init
<1>2. BuffersInv
  <2>1. lines \in Seq([len : 1 .. MaxLine, room : 0 .. BufferSize]) /\ Len(lines) = 0
    BY <1>1, EmptySeq
  <2>2. buffers \in Seq(Buffer) /\ files \in Seq(Buffer) /\ files # <<>>
    BY <1>1, SpareProperties, EmptySeq
  <2>3. <<Empty>> \in Spares /\ Nothing \in Spares
    BY DEF Spares
  <2>4. <<Empty>> \in Seq(Buffer) /\ Len(<<Empty>>) = 1 /\ <<Empty>>[1] = Empty
        /\ Nothing \in Seq(Buffer) /\ Len(Nothing) <= 1 /\ Len(Empty) = 0
        /\ Nothing # <<Empty>>
    BY <2>3, SpareProperties
  <2>5. TypeOK
    <3>1. \A pointer \in {current, next, newCurrent, newNext} : pointer \in Spares
      BY <1>1, <2>3
    <3>2. \A pointer \in {current, next, newCurrent, newNext} :
            pointer \in Seq(Buffer) /\ Len(pointer) <= 1
      BY <3>1, SpareProperties
    <3>3. /\ owner \in {"new", "starting", "started", "joining", "stopped"}
          /\ running \in BOOLEAN /\ back \in {"none", "test", "waiting", "ended"}
          /\ flushed \in Nat
      BY <1>1
    <3> QED BY <2>1, <2>2, <3>2, <3>3 DEF TypeOK
  <2>6. Len(current) = 1 /\ Len(current[1]) <= BufferSize /\ Len(lines) <= MaxLines
    BY <1>1, <2>1, <2>4, LogAssumption
  <2>7. next # Nothing /\ back \notin {"test", "waiting", "ended"}
    BY <1>1, <2>4
  <2> QED BY <1>1, <2>3, <2>5, <2>6, <2>7 DEF BuffersInv
<1>3. <<>> \in Seq(Buffer) /\ FlattenSeq(<<>>) = Empty
  BY EmptySeq DEF FlattenSeq, Empty
<1>4. \A q \in Seq(Buffer) : FlattenSeq(q) = Empty => FlattenSeq(q \o <<Empty>>) = Empty
  <2>1. Empty \in Buffer /\ Empty \o Empty = Empty
    BY SpareProperties
  <2>2. \A q \in Seq(Buffer) : /\ q \o <<Empty>> = Append(q, Empty)
                               /\ FlattenSeq(Append(q, Empty)) = FlattenSeq(q) \o Empty
    BY <2>1, AppendBuffer
  <2> QED BY <2>1, <2>2
<1>5. <<>> \o <<Empty>> = <<Empty>>
  BY SpareProperties, ConcatEmptySeq
<1>6. FlattenSeq(<<Empty>>) = Empty
  BY <1>3, <1>4, <1>5
<1>7. Stored = <<>>
  <2>1. Active = <<Empty>>
    BY <1>1, <1>5 DEF Active
  <2> QED BY <1>1, <1>6, <2>1, SpareProperties DEF Stored, File, Empty
<1>8. DOMAIN lines = {}
  BY <1>1
<1>9. Stored = FlattenSeq(Whole)
  <2>1. Whole = <<>>
    BY <1>8 DEF Whole
  <2> QED BY <1>3, <1>7, <2>1 DEF Empty
<1>10. Stored \in Seq(1 .. Len(lines))
  BY <1>7, EmptySeq
<1> QED BY <1>2, <1>8, <1>9, <1>10 DEF LinesInv, LinesInOrder, Whole

LEMMA StoredKeepsLines ==
  ASSUME LinesInv, Stored' = Stored, UNCHANGED lines
  PROVE  LinesInv'
<1>1. Present' = Present
  BY DEF Present
<1>2. Whole' = Whole
  BY <1>1 DEF Whole, Line
<1> QED BY <1>1, <1>2 DEF LinesInv, LinesInOrder, Whole

LEMMA LinesNext == BuffersInv /\ LinesInv /\ [Next]_vars => BuffersInv' /\ LinesInv'
<1> SUFFICES ASSUME BuffersInv, LinesInv, [Next]_vars
             PROVE  BuffersInv' /\ LinesInv'
  OBVIOUS
<1>1. CASE \E len \in 1 .. MaxLine : AppendLine(len)
  BY <1>1, AppendLineStores, AppendKeepsLines
<1>2. CASE WriteFull \/ WriteAfterWait
  <2>1. WriteOut /\ back \in {"test", "waiting"}
    BY <1>2 DEF WriteFull, WriteAfterWait
  <2> QED BY <2>1, WriteOutStores, StoredKeepsLines
<1>3. CASE BackBegins \/ BeginWait \/ BackEnds \/ Start \/ Stop \/ Join
  <2>1. BuffersInv' /\ UNCHANGED <<current, buffers, files, lines>>
    BY <1>3, QuietKeepsBuffers
  <2>2. Stored' = Stored
    BY <2>1 DEF Stored, File, Active
  <2> QED BY <2>1, <2>2, StoredKeepsLines
<1>4. CASE UNCHANGED vars
  <2>1. Stored' = Stored /\ UNCHANGED lines
    BY <1>4 DEF vars, Stored, File, Active
  <2>2. BuffersInv'
    BY <1>4 DEF vars, BuffersInv, TypeOK
  <2> QED BY <2>1, <2>2, StoredKeepsLines
<1> QED BY <1>1, <1>2, <1>3, <1>4 DEF Next, BackEnd

-----------------------------------------------------------------------------

\* ThreadFunc follows no null pointer and asks no empty vector for its last
\* element, however many buffers the front ends use up between two swaps.
THEOREM SparesAlwaysSuffice == Spec => []LogInv
<1>1. BuffersInv => LogInv
  <2> SUFFICES ASSUME BuffersInv PROVE LogInv
    OBVIOUS
  <2>1. current # Nothing
    BY SpareProperties DEF BuffersInv, Nothing
  <2> QED BY <2>1 DEF BuffersInv, LogInv, SparesSuffice
<1> QED BY <1>1, LinesInit, LinesNext, PTL DEF Spec

\* The lines are stored whole, once and in order, and none is missing but one
\* that would have filled a buffer to the last byte, whatever the size of the
\* buffers and the files and whoever swaps what when.
THEOREM LinesStayInOrder == Spec => []LinesInOrder
<1>1. LinesInv => LinesInOrder
  BY DEF LinesInv
<1> QED BY <1>1, LinesInit, LinesNext, PTL DEF Spec
=============================================================================
