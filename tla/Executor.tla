------------------------------ MODULE Executor -----------------------------
(***************************************************************************)
(* What EventLoop promises to those who hand it functors: it calls them    *)
(* one at a time and once each, in the order in which they were queued,    *)
(* until it stops; then it calls no more.                                  *)
(***************************************************************************)
EXTENDS Naturals, Sequences

CONSTANTS
  Functors,
  NoFunctor

VARIABLES
  queue,     \* functors that were queued and not called yet
  running,   \* the functor that is being called
  stopped

vars == <<queue, running, stopped>>

Init == queue = <<>> /\ running = NoFunctor /\ stopped = FALSE

Queue(f) ==
  /\ \A i \in DOMAIN queue : queue[i] # f
  /\ queue' = Append(queue, f)
  /\ UNCHANGED <<running, stopped>>

Call ==
  /\ ~stopped
  /\ queue # <<>> /\ running = NoFunctor
  /\ running' = Head(queue)
  /\ queue' = Tail(queue)
  /\ UNCHANGED stopped

Return ==
  /\ running # NoFunctor
  /\ running' = NoFunctor
  /\ UNCHANGED <<queue, stopped>>

\* A functor that throws ends the loop; what was to be called is dropped.
Throw ==
  /\ running # NoFunctor
  /\ running' = NoFunctor
  /\ stopped' = TRUE
  /\ \E n \in 0 .. Len(queue) : queue' = SubSeq(queue, n + 1, Len(queue))

Stop ==
  /\ running = NoFunctor
  /\ stopped' = TRUE
  /\ UNCHANGED <<queue, running>>

Next == Call \/ Return \/ Throw \/ Stop \/ \E f \in Functors : Queue(f)

SafeSpec == Init /\ [][Next]_vars

\* The head of the queue is called unless the executor stops.
Fairness == \A f \in Functors :
  []((\E i \in DOMAIN queue : queue[i] = f) => <>(running = f \/ stopped))

Spec == SafeSpec /\ Fairness
=============================================================================
