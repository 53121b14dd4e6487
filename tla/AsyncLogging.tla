---------------------------- MODULE AsyncLogging ---------------------------
(***************************************************************************)
(* The asynchronous log of the course library (code/day29/log): front ends *)
(* append lines to a buffer in memory, a back-end thread swaps the buffers *)
(* out every three seconds, or when some are full, and writes them.        *)
(*                                                                         *)
(* The mutex covers the whole of Append, and the whole of an iteration of  *)
(* ThreadFunc but for the wait: each is a step here.  running_, the latch  *)
(* and the join are not under it, and Stop() may come between any two.     *)
(*                                                                         *)
(* A line is a run of bytes that carry its number, a buffer a sequence of  *)
(* bytes, and a unique_ptr a sequence of at most one buffer.  What LogFile *)
(* has been given is not on disk: stdio keeps it until the next fflush.    *)
(***************************************************************************)
EXTENDS Naturals, Sequences, SequencesExt

CONSTANTS
  BufferSize,  \* FixedLargeBuffferSize
  FileSize,    \* FileMaximumSize
  MaxLine,     \* the longest line, no longer than a buffer
  MaxLines     \* lines appended (bounds the behaviours)

ASSUME LogAssumption ==
  /\ BufferSize \in Nat \ {0}
  /\ FileSize \in Nat
  /\ MaxLine \in 1 .. BufferSize
  /\ MaxLines \in Nat

VARIABLES
  owner,       \* where Start() and Stop() are
  running,     \* running_
  back,        \* where ThreadFunc() is
  current,     \* current_
  next,        \* next_
  buffers,     \* buffers_
  newCurrent,  \* ThreadFunc's new_current
  newNext,     \* ThreadFunc's new_next
  files,       \* what each LogFile was given, the open one last
  flushed,     \* how much of that the open file's last fflush passed on
  lines        \* history: the length of each line, and current_'s room for it

front == <<current, next, buffers, lines>>
vars == <<owner, running, back, current, next, buffers, newCurrent, newNext,
          files, flushed, lines>>

Nothing == <<>>
Empty == <<>>
Buffer == Seq(1 .. MaxLines)
Pointer == {Nothing} \cup {<<buffer>> : buffer \in Buffer}

TypeOK ==
  /\ owner \in {"new", "starting", "started", "joining", "stopped"}
  /\ running \in BOOLEAN
  /\ back \in {"none", "test", "waiting", "ended"}
  /\ \A pointer \in {current, next, newCurrent, newNext} :
       pointer \in Seq(Buffer) /\ Len(pointer) <= 1
  /\ buffers \in Seq(Buffer)
  /\ files \in Seq(Buffer) /\ files # <<>>
  /\ flushed \in Nat
  /\ lines \in Seq([len : 1 .. MaxLine, room : 0 .. BufferSize])

Init ==
  /\ owner = "new" /\ running = FALSE /\ back = "none"
  /\ current = <<Empty>> /\ next = <<Empty>> /\ buffers = <<>>
  /\ newCurrent = Nothing /\ newNext = Nothing
  /\ files = <<Empty>> /\ flushed = 0
  /\ lines = <<>>

-----------------------------------------------------------------------------
(* The front ends                                                          *)

Avail(buffer) == BufferSize - Len(buffer)

\* FixedBuffer::append; what does not fit, or fits exactly, is dropped.
Put(buffer, line) == IF Avail(buffer) > Len(line) THEN buffer \o line ELSE buffer

\* Append of the next line, by whichever thread holds the mutex.
AppendLine(len) ==
  LET line == [i \in 1 .. len |-> Len(lines) + 1]
      room == Avail(current[1])
      spare == IF next # Nothing THEN next[1] ELSE Empty
  IN  /\ Len(lines) < MaxLines
      /\ lines' = Append(lines, [len |-> len, room |-> room])
      /\ IF room >= len
         THEN current' = <<Put(current[1], line)>> /\ UNCHANGED <<buffers, next>>
         ELSE /\ buffers' = buffers \o current
              /\ current' = <<Put(spare, line)>>
              /\ next' = Nothing
      /\ UNCHANGED <<owner, running, back, newCurrent, newNext, files, flushed>>

-----------------------------------------------------------------------------
(* The back end                                                            *)

\* The thread has started: the latch lets Start() return.
BackBegins ==
  /\ owner = "starting" /\ back = "none"
  /\ back' = "test"
  /\ owner' = "started"
  /\ newCurrent' = <<Empty>> /\ newNext' = <<Empty>>
  /\ UNCHANGED <<running, front, files, flushed>>

\* Wrong: the wait ends with a notification and a full buffer only.
FullBuffer == buffers # <<>>

\* wait_until's predicate is never true: nothing but the three seconds ends it.
Timeout == TRUE

\* Wrong: the current buffer goes before the full ones.
CurrentFirst == current \o buffers

\* Everything that was appended, in order: active_buffers after the swap.
Active == buffers \o current

\* Wrong: one buffer is kept for reuse.
KeepOne(active) == IF Len(active) > 1 THEN SubSeq(active, 1, 1) ELSE active

\* At most two written buffers are kept for reuse.
Kept(active) == IF Len(active) > 2 THEN SubSeq(active, 1, 2) ELSE active

\* The n-th buffer from the end, emptied, for a spare one that was used.
Refill(pointer, kept, n) ==
  IF pointer # Nothing THEN pointer
  ELSE IF Len(kept) >= n THEN <<Empty>> ELSE Nothing

\* The open file with all buffers in it.
OpenFile == Last(files) \o FlattenSeq(Active)

\* The next write goes to a new file if this one is full.
IsFull == Len(OpenFile) >= FileSize

\* The files after the writes of one iteration.
Written ==
  LET done == Front(files) \o <<OpenFile>>
  IN  IF IsFull THEN Append(done, Empty) ELSE done

\* Write flushes when it is given something more than FlushInterval after the last
\* flush: which one does is up to the clock, but the first one to a file, whose
\* lastflush_ is 0, always does.  `last` is the last of the writes that does, if any.
MayFlush(last) ==
  IF last = 0 THEN Last(files) # Empty \/ FlattenSeq(Active) = Empty
  ELSE Active[last] # Empty

\* What is certain to have left stdio then (a full stdio buffer may have taken more
\* with it); the destructor has flushed a file that was full.
Flushed(last) ==
  IF IsFull THEN 0
  ELSE IF last = 0 THEN flushed
  ELSE Len(Last(files)) + Len(FlattenSeq(SubSeq(Active, 1, last)))

\* From the swap to the end of the iteration, under the mutex.
WriteOut ==
  /\ files' = Written
  /\ \E last \in 0 .. Len(Active) : MayFlush(last) /\ flushed' = Flushed(last)
  /\ buffers' = <<>>
  /\ current' = newCurrent
  /\ next' = IF next = Nothing THEN newNext ELSE next
  /\ newCurrent' = Refill(Nothing, Kept(Active), 1)
  /\ newNext' = Refill(IF next = Nothing THEN Nothing ELSE newNext, Kept(Active), 2)
  /\ back' = "test"
  /\ UNCHANGED <<owner, running, lines>>

\* The loop's test of running_, and the lock.
BeginWait ==
  /\ back = "test" /\ running
  /\ buffers = <<>>
  /\ back' = "waiting"
  /\ UNCHANGED <<owner, running, front, newCurrent, newNext, files, flushed>>

WriteFull ==
  /\ back = "test" /\ running
  /\ buffers # <<>>
  /\ WriteOut

WriteAfterWait ==
  /\ back = "waiting"
  /\ Timeout
  /\ WriteOut

\* Wrong: what is in stdio when the thread ends stays there.
KeepInStdio == flushed

\* ~LogFile flushes.
FlushAll == Len(Last(files))

\* The thread's LogFile goes with it.
BackEnds ==
  /\ back = "test" /\ ~running
  /\ back' = "ended"
  /\ flushed' = FlushAll
  /\ UNCHANGED <<owner, running, front, newCurrent, newNext, files>>

-----------------------------------------------------------------------------
(* The owner                                                               *)

Start ==
  /\ owner = "new"
  /\ owner' = "starting"
  /\ running' = TRUE
  /\ UNCHANGED <<back, front, newCurrent, newNext, files, flushed>>

\* Stop(), or the destructor; the notification changes nothing.
Stop ==
  /\ owner = "started"
  /\ owner' = "joining"
  /\ running' = FALSE
  /\ UNCHANGED <<back, front, newCurrent, newNext, files, flushed>>

Join ==
  /\ owner = "joining" /\ back = "ended"
  /\ owner' = "stopped"
  /\ UNCHANGED <<running, back, front, newCurrent, newNext, files, flushed>>

-----------------------------------------------------------------------------

BackEnd == BackBegins \/ BeginWait \/ WriteFull \/ WriteAfterWait \/ BackEnds

Next ==
  \/ \E len \in 1 .. MaxLine : AppendLine(len)
  \/ BackEnd
  \/ Start \/ Stop \/ Join

Spec == Init /\ [][Next]_vars

\* The back-end thread is scheduled, its wait ends, and so does the join.
FairSpec == Spec /\ WF_vars(BackEnd) /\ WF_vars(Join)

-----------------------------------------------------------------------------
(* Safety                                                                  *)

\* No null pointer is followed and no empty vector asked for its last element:
\* ThreadFunc always has two spare buffers to hand over, though it moves them
\* away and gets back only what the front ends filled since.
SparesSuffice ==
  /\ current # Nothing
  /\ back \in {"test", "waiting", "ended"} =>
       /\ newCurrent # Nothing /\ newNext # Nothing
       /\ next = Nothing => buffers # <<>>

LogInv == TypeOK /\ SparesSuffice

\* The bytes given to the files and in memory, oldest first.
File == FlattenSeq(files)
Stored == File \o FlattenSeq(Active)

\* The lines that have a byte there.
Present == Range(Stored)

Line(i) == [j \in 1 .. lines[i].len |-> i]

\* Files and buffers together hold whole lines, once and in order, whoever
\* swapped what when; a line is missing only if it would have filled a buffer
\* to the last byte: Append's test takes it, FixedBuffer::append drops it.
LinesInOrder ==
  /\ Stored = FlattenSeq([i \in DOMAIN lines |-> IF i \in Present THEN Line(i) ELSE <<>>])
  /\ \A i \in DOMAIN lines :
       i \notin Present => lines[i].len \in {lines[i].room, BufferSize}

-----------------------------------------------------------------------------
(* Liveness                                                                *)

\* How many bytes are on disk: those of the files that were closed, and of the
\* open one what was flushed.
OnDisk == Len(FlattenSeq(Front(files))) + flushed

\* What is appended is handed to the log file as long as the log is not stopped,
\* though it may stay in stdio for ever if no line follows; a Stop() that finds the
\* back end in its wait leaves nothing behind in memory or in stdio, over as many
\* files as it takes; and Stop() returns.
StopDrainsTheLog ==
  /\ \A n \in 1 .. MaxLines * MaxLine :
       /\ owner = "started" /\ Len(Stored) >= n ~> Len(File) >= n \/ ~running
       /\ owner = "joining" /\ back = "waiting" /\ Len(Stored) >= n ~> OnDisk >= n
  /\ owner = "joining" ~> owner = "stopped"
=============================================================================
