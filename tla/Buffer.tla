------------------------------- MODULE Buffer ------------------------------
(***************************************************************************)
(* The byte buffer of a connection (l4lb/src/net/Buffer.cpp): one vector   *)
(* with a prepend area, the bytes that can be read, and room to write.     *)
(*                                                                         *)
(*     0 .. prepend area .. reader .. readable .. writer .. room .. size   *)
(*                                                                         *)
(* A byte's value is its number in the stream that is put in.              *)
(***************************************************************************)
EXTENDS Naturals, Sequences

CONSTANTS
  CheapPrepend,   \* kCheapPrepend
  InitialSize,    \* the constructor's initial_size
  MaxPiece,       \* longest piece that is appended at once
  MaxBytes        \* bytes put in at most (bounds the behaviours)

ASSUME BufferAssumption ==
  /\ CheapPrepend \in Nat
  /\ InitialSize \in Nat
  /\ MaxPiece \in Nat \ {0}
  /\ MaxBytes \in Nat

VARIABLES
  storage,   \* storage_, from index 0; 0 is a byte that was never written
  reader,    \* reader_index_
  writer,    \* writer_index_
  made,      \* bytes put in so far
  peak       \* most bytes that had to be held at once

bufferVars == <<storage, reader, writer, made, peak>>

Size(s) == Len(s)

\* Byte i of the vector, counted from 0.
At(s, i) == s[i + 1]

BufferTypeOK ==
  /\ storage \in Seq(Nat)
  /\ reader \in Nat /\ writer \in Nat
  /\ CheapPrepend <= reader /\ reader <= writer /\ writer <= Size(storage)
  /\ made \in 0 .. MaxBytes
  /\ peak \in Nat

BufferInit ==
  /\ storage = [i \in 1 .. CheapPrepend + InitialSize |-> 0]
  /\ reader = CheapPrepend /\ writer = CheapPrepend
  /\ made = 0
  /\ peak = 0

ReadableBytes == writer - reader
WritableBytes == Size(storage) - writer
PrependableBytes == reader

-----------------------------------------------------------------------------
(* Room to write                                                           *)

\* What a call leaves of the vector and its indices.
Shape(s, r, w) == [storage |-> s, reader |-> r, writer |-> w]

Unmoved == Shape(storage, reader, writer)

\* resize(): the bytes stay, the new ones are zero.
Resized(n) ==
  [i \in 1 .. n |-> IF i <= Len(storage) THEN storage[i] ELSE 0]

\* memmove of what can be read to the end of the prepend area.
Compacted ==
  [i \in 1 .. Len(storage) |->
     IF i > CheapPrepend /\ i <= CheapPrepend + ReadableBytes
     THEN storage[i - CheapPrepend + reader]
     ELSE storage[i]]

\* Wrong: the vector grows whatever could be had by moving.
AlwaysGrows(n) == TRUE

\* Is there too little room, even after moving?
TooSmall(n) == WritableBytes + PrependableBytes - CheapPrepend < n

\* Wrong: the bytes stay where they are and only the indices move.
IndicesOnly(n) ==
  IF TooSmall(n) THEN Shape(Resized(writer + n), reader, writer)
  ELSE Shape(storage, CheapPrepend, CheapPrepend + ReadableBytes)

MakeSpace(n) ==
  IF TooSmall(n) THEN Shape(Resized(writer + n), reader, writer)
  ELSE Shape(Compacted, CheapPrepend, CheapPrepend + ReadableBytes)

EnsureWritableBytes(n) == IF WritableBytes < n THEN MakeSpace(n) ELSE Unmoved

Larger(a, b) == IF a < b THEN b ELSE a

-----------------------------------------------------------------------------

\* Append makes room, copies and advances writer_index_.
AppendBytes(n) ==
  LET room == EnsureWritableBytes(n)
  IN  /\ made + n <= MaxBytes
      /\ storage' = [i \in 1 .. Len(room.storage) |->
                       IF i > room.writer /\ i <= room.writer + n
                       THEN made + (i - room.writer)
                       ELSE room.storage[i]]
      /\ reader' = room.reader
      /\ writer' = room.writer + n
      /\ made' = made + n
      /\ peak' = Larger(peak, ReadableBytes + n)

\* EnsureWritableBytes on its own: room is made for bytes that may never come.
Reserve(n) ==
  LET room == EnsureWritableBytes(n)
  IN  /\ storage' = room.storage /\ reader' = room.reader /\ writer' = room.writer
      /\ peak' = Larger(peak, ReadableBytes + n)
      /\ UNCHANGED made

\* A caller writes at BeginWrite() itself; HasWritten throws if there is no room.
HasWritten(n) ==
  /\ n <= WritableBytes /\ made + n <= MaxBytes
  /\ storage' = [i \in 1 .. Size(storage) |->
                   IF i > writer /\ i <= writer + n THEN made + (i - writer) ELSE storage[i]]
  /\ writer' = writer + n
  /\ made' = made + n
  /\ peak' = Larger(peak, ReadableBytes + n)
  /\ UNCHANGED reader

\* Retrieve, RetrieveAll and RetrieveAsString; more than can be read throws.
Retrieve(n) ==
  /\ n <= ReadableBytes
  /\ reader' = IF n = ReadableBytes THEN CheapPrepend ELSE reader + n
  /\ writer' = IF n = ReadableBytes THEN CheapPrepend ELSE writer
  /\ UNCHANGED <<storage, made, peak>>

BufferNext ==
  \/ \E n \in 1 .. MaxPiece : AppendBytes(n) \/ Reserve(n) \/ HasWritten(n)
  \/ \E n \in 0 .. ReadableBytes : Retrieve(n)

BufferSpec == BufferInit /\ [][BufferNext]_bufferVars

-----------------------------------------------------------------------------
(* Safety                                                                  *)

\* The vector grows with the most that had to be held at once, never with the
\* length of the stream, though a resize does not move the bytes down first.
StorageIsBounded ==
  Size(storage) <= CheapPrepend + Larger(InitialSize, 2 * peak)

\* The indices in their order, and storage that follows the backlog.
BufferInv == BufferTypeOK /\ StorageIsBounded

\* Peek() .. BeginWrite().
Content == [i \in 1 .. ReadableBytes |-> At(storage, reader + i - 1)]

Promise == INSTANCE ByteQueue WITH MaxLength <- MaxPiece, queue <- Content

\* What is read is what was appended, in order and once, through resizes,
\* moves and resets of the indices.
ImplementsByteQueue == Promise!SafeSpec
=============================================================================
