----------------------------- MODULE EventLoop -----------------------------
(***************************************************************************)
(* The event loop and the threads that hand it work                        *)
(* (l4lb/src/net/EventLoop.cpp: Loop, QueueInLoop, RunInLoop, Quit and the *)
(* eventfd that wakes it).  The channels of sockets and timers are seen    *)
(* only as "some other event"; what they do is in the other modules.       *)
(*                                                                         *)
(* A thread other than the loop's does QueueInLoop in two steps, the push  *)
(* under the mutex and the write to the eventfd, and Quit in two, too; the *)
(* loop's thread steps from one system call or lock to the next.           *)
(*                                                                         *)
(* Its names are none of TimerQueue's: ReactorProofs extends both.         *)
(***************************************************************************)
EXTENDS Naturals, Sequences, FiniteSets

CONSTANTS
  Threads,    \* the threads other than the loop's
  Self,       \* the loop's thread
  MaxPosts,   \* functors a thread queues (bounds the behaviours)
  MaxCount,   \* where the eventfd's counter is full
  NoFunctor

ASSUME LoopAssumption ==
  /\ IsFiniteSet(Threads) /\ Self \notin Threads
  /\ MaxPosts \in Nat
  /\ MaxCount \in Nat \ {0}

\* A functor that the loop's thread queues, and queues anew as often as it likes.
Again == <<Self, 0>>

\* The functors of the other threads are numbered.
Functors == (Threads \X (1 .. MaxPosts)) \cup {Again}

ASSUME FunctorAssumption == NoFunctor \notin Functors

VARIABLES
  pending,   \* pending_functors_
  quit,      \* quit_
  counter,   \* the eventfd's counter
  stage,     \* where Loop() is
  wakeup,    \* the eventfd's channel waits in the current batch
  functors,  \* RunPendingFunctors' functors, those not called yet
  current,   \* the functor that is being called
  pc,        \* each thread: "idle", or on its way to Wakeup()
  posted     \* functors each thread has queued

loopVars == <<pending, quit, counter, stage, wakeup, functors, current, pc, posted>>

LoopTypeOK ==
  /\ pending \in Seq(Functors) /\ functors \in Seq(Functors)
  /\ quit \in BOOLEAN /\ wakeup \in BOOLEAN
  /\ counter \in 0 .. MaxCount
  /\ stage \in {"before", "test", "poll", "dispatch", "swap", "run", "call", "exited"}
  /\ current \in Functors \cup {NoFunctor}
  /\ pc \in [Threads -> {"idle", "wake"}]
  /\ posted \in [Threads -> 0 .. MaxPosts]

LoopInit ==
  /\ pending = <<>> /\ functors = <<>>
  /\ quit = FALSE /\ wakeup = FALSE
  /\ counter = 0
  /\ stage = "before"
  /\ current = NoFunctor
  /\ pc = [t \in Threads |-> "idle"]
  /\ posted = [t \in Threads |-> 0]

-----------------------------------------------------------------------------
(* Other threads                                                           *)

\* write() adds one to the counter; when it is full, EAGAIN is ignored.
Wakeup == counter' = IF counter = MaxCount THEN counter ELSE counter + 1

\* QueueInLoop, and RunInLoop, from thread t: the push ...
Push(t) ==
  /\ pc[t] = "idle" /\ posted[t] < MaxPosts
  /\ posted' = [posted EXCEPT ![t] = @ + 1]
  /\ pending' = Append(pending, <<t, posted[t] + 1>>)
  /\ pc' = [pc EXCEPT ![t] = "wake"]
  /\ UNCHANGED <<quit, counter, stage, wakeup, functors, current>>

\* Wrong: Quit only sets the flag.
QuitSilently(t) ==
  /\ pc[t] = "idle" /\ ~quit
  /\ quit' = TRUE
  /\ UNCHANGED <<pending, counter, stage, wakeup, functors, current, pc, posted>>

\* Quit from thread t: the flag ...
QuitFrom(t) ==
  /\ pc[t] = "idle" /\ ~quit
  /\ quit' = TRUE
  /\ pc' = [pc EXCEPT ![t] = "wake"]
  /\ UNCHANGED <<pending, counter, stage, wakeup, functors, current, posted>>

\* ... and for both the Wakeup that follows.
Wake(t) ==
  /\ pc[t] = "wake"
  /\ Wakeup
  /\ pc' = [pc EXCEPT ![t] = "idle"]
  /\ UNCHANGED <<pending, quit, stage, wakeup, functors, current, posted>>

-----------------------------------------------------------------------------
(* The loop's thread                                                       *)

At(label) == stage = label /\ UNCHANGED <<quit, pc, posted>>

Goto(label) == stage' = label

StartLoop ==
  /\ At("before")
  /\ Goto("test")
  /\ UNCHANGED <<pending, counter, wakeup, functors, current>>

Test ==
  /\ At("test")
  /\ IF quit THEN Goto("exited") ELSE Goto("poll")
  /\ UNCHANGED <<pending, counter, wakeup, functors, current>>

\* epoll_wait(-1) returns for the eventfd ...
PollWakeup ==
  /\ At("poll") /\ counter > 0
  /\ Goto("dispatch") /\ wakeup' = TRUE
  /\ UNCHANGED <<pending, counter, functors, current>>

\* ... or for a socket, a timer or a signal.
PollOther ==
  /\ At("poll")
  /\ Goto("dispatch") /\ wakeup' = (counter > 0)
  /\ UNCHANGED <<pending, counter, functors, current>>

\* HandleWakeup reads until EAGAIN.
HandleWakeup ==
  /\ At("dispatch") /\ wakeup
  /\ counter' = 0
  /\ wakeup' = (counter > 0)
  /\ UNCHANGED <<pending, stage, functors, current>>

DispatchDone ==
  /\ At("dispatch") /\ ~wakeup
  /\ Goto("swap")
  /\ UNCHANGED <<pending, counter, wakeup, functors, current>>

\* RunPendingFunctors takes what is queued, under the mutex.
SwapPending ==
  /\ At("swap")
  /\ functors' = pending /\ pending' = <<>>
  /\ Goto("run")
  /\ UNCHANGED <<counter, wakeup, current>>

\* Wrong: what is queued meanwhile is taken along.
CallUntilEmpty ==
  /\ At("run") /\ functors \o pending # <<>>
  /\ current' = Head(functors \o pending)
  /\ functors' = Tail(functors \o pending) /\ pending' = <<>>
  /\ Goto("call")
  /\ UNCHANGED <<counter, wakeup>>

\* Wrong: the vector is emptied from its end.
CallLast ==
  /\ At("run") /\ functors # <<>>
  /\ current' = functors[Len(functors)]
  /\ functors' = SubSeq(functors, 1, Len(functors) - 1)
  /\ Goto("call")
  /\ UNCHANGED <<pending, counter, wakeup>>

CallFunctor ==
  /\ At("run") /\ functors # <<>>
  /\ current' = Head(functors) /\ functors' = Tail(functors)
  /\ Goto("call")
  /\ UNCHANGED <<pending, counter, wakeup>>

FunctorReturns ==
  /\ At("call")
  /\ current' = NoFunctor
  /\ Goto("run")
  /\ UNCHANGED <<pending, counter, wakeup, functors>>

\* The exception leaves Loop(), and with it what RunPendingFunctors held.
FunctorThrows ==
  /\ At("call")
  /\ current' = NoFunctor /\ functors' = <<>>
  /\ Goto("exited")
  /\ UNCHANGED <<pending, counter, wakeup>>

RunDone ==
  /\ At("run") /\ functors = <<>>
  /\ Goto("test")
  /\ UNCHANGED <<pending, counter, wakeup, functors, current>>

-----------------------------------------------------------------------------
(* What callbacks and functors do in the loop's thread                     *)

InLoopThread == stage \in {"before", "dispatch", "call"}

\* Wrong: the loop's own thread does not wake the loop.
QueueSilently ==
  /\ InLoopThread
  /\ \A i \in DOMAIN pending : pending[i] # Again
  /\ \A i \in DOMAIN functors : functors[i] # Again
  /\ pending' = Append(pending, Again)
  /\ UNCHANGED <<quit, counter, stage, wakeup, functors, current, pc, posted>>

\* QueueInLoop from the loop's own thread: before Loop(), or from a callback or a functor.
QueueAgain ==
  /\ InLoopThread
  /\ \A i \in DOMAIN pending : pending[i] # Again
  /\ \A i \in DOMAIN functors : functors[i] # Again
  /\ pending' = Append(pending, Again)
  /\ Wakeup
  /\ UNCHANGED <<quit, stage, wakeup, functors, current, pc, posted>>

\* Quit from the loop's own thread needs no wake-up.
QuitHere ==
  /\ InLoopThread /\ ~quit
  /\ quit' = TRUE
  /\ UNCHANGED <<pending, counter, stage, wakeup, functors, current, pc, posted>>

-----------------------------------------------------------------------------

Loop ==
  \/ StartLoop \/ Test \/ PollWakeup \/ HandleWakeup \/ DispatchDone
  \/ SwapPending \/ CallFunctor \/ FunctorReturns \/ RunDone

Thread(t) == Push(t) \/ QuitFrom(t) \/ Wake(t)

LoopNext ==
  \/ Loop
  \/ PollOther \/ FunctorThrows
  \/ QueueAgain \/ QuitHere
  \/ \E t \in Threads : Thread(t)

LoopSpec == LoopInit /\ [][LoopNext]_loopVars

\* Every thread goes on once it has begun; the loop is started, functors
\* return, and nobody but the eventfd needs to wake it.
FairLoopSpec ==
  /\ LoopSpec
  /\ WF_loopVars(Loop)
  /\ \A t \in Threads : WF_loopVars(Wake(t))

-----------------------------------------------------------------------------
(* Safety                                                                  *)

Asleep == stage = "poll" /\ counter = 0

\* No lost wake-up: while the loop sleeps with a functor queued or its end
\* requested, some thread is about to write to the eventfd; a push that comes
\* between HandleWakeup's read and the swap included.
NoLostWakeup ==
  Asleep /\ (pending # <<>> \/ quit) => \E t \in Threads : pc[t] = "wake"

\* The loop's invariant.
LoopInv == LoopTypeOK /\ NoLostWakeup

\* What the executor sees: one queue across both vectors.
Promise == INSTANCE Executor WITH
  queue   <- functors \o pending,
  running <- current,
  stopped <- stage = "exited"

\* Functors are called once each and in the order of their pushes, even those
\* that functors queue; and every one is called, unless the loop ends first.
ImplementsExecutor == Promise!Spec

-----------------------------------------------------------------------------
(* Liveness                                                                *)

\* The loop goes back to epoll however functors queue more: I/O is not starved.
IoIsNotStarved == []<>(stage \in {"poll", "exited"})

\* Quit, from whatever thread and however deep the loop sleeps, ends it.
QuitEndsLoop == quit ~> stage = "exited"
=============================================================================
