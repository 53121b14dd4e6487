----------------------------- MODULE ByteQueue -----------------------------
(***************************************************************************)
(* What Buffer promises: a queue of bytes, put in at one end and taken out *)
(* at the other, in order and once.                                        *)
(***************************************************************************)
EXTENDS Naturals, Sequences

CONSTANT MaxLength   \* longest piece put in at once

VARIABLES
  queue,   \* the bytes that can be read
  made     \* bytes put in so far; a byte's value is its number

vars == <<queue, made>>

Init == queue = <<>> /\ made = 0

Put(n) ==
  /\ queue' = queue \o [i \in 1 .. n |-> made + i]
  /\ made' = made + n

Take(n) ==
  /\ n <= Len(queue)
  /\ queue' = SubSeq(queue, n + 1, Len(queue))
  /\ UNCHANGED made

Next ==
  \/ \E n \in 1 .. MaxLength : Put(n)
  \/ \E n \in 0 .. Len(queue) : Take(n)

SafeSpec == Init /\ [][Next]_vars
=============================================================================
