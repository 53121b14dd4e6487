---------------------------- MODULE TimerQueue -----------------------------
(***************************************************************************)
(* The timers of an event loop (l4lb/src/net/TimerQueue.cpp, TimerId.cpp,  *)
(* EventLoop::RunAfter and RunEvery): a queue ordered by expiration, one   *)
(* timerfd armed for its first entry, and handles that cancel by a flag.   *)
(*                                                                         *)
(* Time is relative: an entry counts the ticks left to its expiration, and *)
(* 0 stands for every time that has passed, since the code never tells two *)
(* such times apart except by their order in the queue, which is kept.     *)
(* The clock may tick between any two steps, also between the three times  *)
(* AddTimer reads it and while a callback runs.                            *)
(***************************************************************************)
EXTENDS Naturals, Sequences, FiniteSets

CONSTANTS
  Timers,    \* the calls of RunAfter and RunEvery, one TimerId each
  NoTimer,
  MaxDelay   \* longest delay and interval (bounds the behaviours)

ASSUME TimerAssumption ==
  /\ NoTimer \notin Timers
  /\ MaxDelay \in Nat \ {0}

VARIABLES
  timers,     \* timers_, in the order of its keys
  alarm,      \* ticks until the timerfd expires; 0 when it is disarmed
  readable,   \* the timerfd has an expiration that was not read
  due,        \* the timerfd's channel is in the current epoll batch
  phase,      \* where HandleRead is, "idle" outside of it
  expired,    \* HandleRead's expired
  pos,        \* the entry of expired whose turn it is
  running,    \* the timer whose callback runs
  adding,     \* the AddTimer in progress: its entry, its test, its progress
  handle,     \* each TimerId: not created yet, live, or cancelled
  plan,       \* what each timer was created with
  fired,      \* has each timer's callback been called?
  age         \* ticks since a timer was created or last called, up to MaxDelay

queue   == <<timers, alarm, readable>>
batch   == <<due, phase, expired, pos, running>>
history == <<plan, fired, age>>
vars    == <<queue, batch, adding, handle, history>>

Entry == [id : Timers, left : 0 .. MaxDelay, interval : 0 .. MaxDelay]

\* No AddTimer is in progress.
Idle == [step |-> "none"]

Call == [step : {"measured", "inserted"}, id : Timers, reset : BOOLEAN]

TypeOK ==
  /\ timers \in Seq(Entry) /\ expired \in Seq(Entry)
  /\ alarm \in 0 .. MaxDelay
  /\ readable \in BOOLEAN /\ due \in BOOLEAN
  /\ phase \in {"idle", "batch", "callback", "rearm"}
  /\ pos \in Nat
  /\ running \in Timers \cup {NoTimer}
  /\ adding \in Call \cup {Idle}
  /\ handle \in [Timers -> {"new", "live", "cancelled"}]
  /\ plan \in [Timers -> [delay : 0 .. MaxDelay, interval : 0 .. MaxDelay]]
  /\ fired \in [Timers -> BOOLEAN]
  /\ age \in [Timers -> 0 .. MaxDelay]

Init ==
  /\ timers = <<>> /\ expired = <<>>
  /\ alarm = 0 /\ readable = FALSE /\ due = FALSE
  /\ phase = "idle" /\ pos = 0 /\ running = NoTimer
  /\ adding = Idle
  /\ handle = [t \in Timers |-> "new"]
  /\ plan = [t \in Timers |-> [delay |-> 0, interval |-> 0]]
  /\ fired = [t \in Timers |-> FALSE]
  /\ age = [t \in Timers |-> 0]

-----------------------------------------------------------------------------
(* The map and the timerfd                                                 *)

\* A new key comes behind every key that is not later: its sequence is larger.
Insert(q, entry) ==
  LET k == Cardinality({i \in DOMAIN q : q[i].left <= entry.left})
  IN  SubSeq(q, 1, k) \o <<entry>> \o SubSeq(q, k + 1, Len(q))

\* Wrong: a time that has passed disarms the timerfd.
Unclamped(left) == left

\* ToTimespec: a zero would disarm the timerfd.
ToTimespec(left) == IF left = 0 THEN 1 ELSE left

\* timerfd_settime also takes back an expiration that was not read.
ResetTimerFd(q) ==
  /\ alarm' = IF q = <<>> THEN 0 ELSE ToTimespec(Head(q).left)
  /\ readable' = FALSE

\* The clock ticks and the timerfd, when its time has come, becomes readable.
Tick ==
  /\ timers' = [i \in DOMAIN timers |->
                  [timers[i] EXCEPT !.left = IF @ = 0 THEN 0 ELSE @ - 1]]
  /\ alarm' = IF alarm = 0 THEN 0 ELSE alarm - 1
  /\ readable' = (readable \/ alarm = 1)
  /\ age' = [t \in Timers |-> IF age[t] = MaxDelay THEN MaxDelay ELSE age[t] + 1]
  /\ UNCHANGED <<batch, adding, handle, plan, fired>>

-----------------------------------------------------------------------------
(* What callbacks do: those of timers, and those of other channels         *)

InCallback == phase \in {"idle", "callback"} /\ adding = Idle

\* Wrong: the alarm is set only for the first entry of an empty queue.
OnlyWhenEmpty(delay) == timers = <<>>

\* Wrong: the alarm is also set for a timer that expires with the first one.
NotLater(delay) == timers = <<>> \/ delay <= Head(timers).left

\* Is the new timer to expire before all others?
ResetEarliest(delay) == timers = <<>> \/ delay < Head(timers).left

\* AddTimer compares the new expiration with the earliest, ...
AddTimer(t, delay, interval) ==
  /\ InCallback
  /\ handle[t] = "new"
  /\ adding' = [step |-> "measured", id |-> t, reset |-> ResetEarliest(delay)]
  /\ plan' = [plan EXCEPT ![t] = [delay |-> delay, interval |-> interval]]
  /\ age' = [age EXCEPT ![t] = 0]
  /\ UNCHANGED <<queue, batch, handle, fired>>

RunAfter(t) == \E delay \in 0 .. MaxDelay : AddTimer(t, delay, 0)

RunEvery(t) == \E interval \in 1 .. MaxDelay : AddTimer(t, interval, interval)

\* ... inserts the entry, its time taken from a second reading of the clock, ...
AddInserts ==
  /\ adding.step = "measured"
  /\ LET t == adding.id
     IN  timers' = Insert(timers, [id |-> t, left |-> plan[t].delay,
                                   interval |-> plan[t].interval])
  /\ adding' = [adding EXCEPT !.step = "inserted"]
  /\ UNCHANGED <<alarm, readable, batch, handle, history>>

\* ... arms the timerfd from a third one, and returns the handle.
AddReturns ==
  /\ adding.step = "inserted"
  /\ IF adding.reset THEN ResetTimerFd(timers) ELSE UNCHANGED <<alarm, readable>>
  /\ handle' = [handle EXCEPT ![adding.id] = "live"]
  /\ adding' = Idle
  /\ UNCHANGED <<timers, batch, history>>

\* TimerId::Cancel, or the end of a TimerId: the entry stays where it is.
Cancel(t) ==
  /\ InCallback
  /\ handle[t] = "live"
  /\ handle' = [handle EXCEPT ![t] = "cancelled"]
  /\ UNCHANGED <<queue, batch, adding, history>>

-----------------------------------------------------------------------------
(* HandleRead                                                              *)

\* epoll_wait reports the timerfd; other callbacks of the batch may come first.
PollTimer ==
  /\ phase = "idle" /\ adding = Idle
  /\ readable /\ ~due
  /\ due' = TRUE
  /\ UNCHANGED <<queue, phase, expired, pos, running, adding, handle, history>>

\* Wrong: what expires within a tick is called with the rest.
ExpiresSoon(entry) == entry.left <= 1

IsExpired(entry) == entry.left = 0

\* read() finds the expiration, or EAGAIN if it was taken back.  What has
\* expired, the entries before upper_bound, leaves the queue before the first
\* callback runs.
HandleRead ==
  /\ phase = "idle" /\ adding = Idle
  /\ due
  /\ due' = FALSE
  /\ readable' = FALSE
  /\ IF readable
     THEN /\ LET n == Cardinality({i \in DOMAIN timers : IsExpired(timers[i])})
             IN  /\ expired' = SubSeq(timers, 1, n)
                 /\ timers' = SubSeq(timers, n + 1, Len(timers))
          /\ pos' = 1 /\ phase' = "batch"
     ELSE UNCHANGED <<expired, timers, pos, phase>>
  /\ UNCHANGED <<alarm, running, adding, handle, history>>

Cancelled(entry) == handle[entry.id] = "cancelled"

\* A timer that an earlier callback of the batch has cancelled is passed over.
SkipCancelled ==
  /\ phase = "batch" /\ pos <= Len(expired)
  /\ Cancelled(expired[pos])
  /\ pos' = pos + 1
  /\ UNCHANGED <<queue, due, phase, expired, running, adding, handle, history>>

\* Wrong: the flag is not looked at again when the timer's turn has come.
CallAnyway ==
  /\ phase = "batch" /\ pos <= Len(expired)
  /\ LET t == expired[pos].id
     IN  /\ running' = t
         /\ fired' = [fired EXCEPT ![t] = TRUE]
         /\ age' = [age EXCEPT ![t] = 0]
  /\ phase' = "callback"
  /\ UNCHANGED <<queue, due, expired, pos, adding, handle, plan>>

CallTimer ==
  /\ phase = "batch" /\ pos <= Len(expired)
  /\ ~Cancelled(expired[pos])
  /\ LET t == expired[pos].id
     IN  /\ running' = t
         /\ fired' = [fired EXCEPT ![t] = TRUE]
         /\ age' = [age EXCEPT ![t] = 0]
  /\ phase' = "callback"
  /\ UNCHANGED <<queue, due, expired, pos, adding, handle, plan>>

CallReturns ==
  /\ phase = "callback" /\ adding = Idle
  /\ phase' = "batch" /\ pos' = pos + 1 /\ running' = NoTimer
  /\ UNCHANGED <<queue, due, expired, adding, handle, history>>

Repeats(entry) == entry.interval > 0 /\ ~Cancelled(entry)

Restarted(entry) == [entry EXCEPT !.left = entry.interval]

\* The queue once the first n entries of expired were looked at.
Reinserted[n \in 0 .. Len(expired)] ==
  IF n = 0 THEN timers
  ELSE IF Repeats(expired[n]) THEN Insert(Reinserted[n - 1], Restarted(expired[n]))
  ELSE Reinserted[n - 1]

\* Repeating timers go back into the queue, counted from one restart_time.
Reinsert ==
  /\ phase = "batch" /\ pos > Len(expired)
  /\ timers' = Reinserted[Len(expired)]
  /\ expired' = <<>> /\ pos' = 0
  /\ phase' = "rearm"
  /\ UNCHANGED <<alarm, readable, due, running, adding, handle, history>>

Rearm ==
  /\ phase = "rearm"
  /\ ResetTimerFd(timers)
  /\ phase' = "idle"
  /\ UNCHANGED <<timers, due, expired, pos, running, adding, handle, history>>

-----------------------------------------------------------------------------

LoopStep ==
  \/ AddInserts \/ AddReturns
  \/ PollTimer \/ HandleRead
  \/ SkipCancelled \/ CallTimer \/ CallReturns
  \/ Reinsert \/ Rearm

User == \E t \in Timers : RunAfter(t) \/ RunEvery(t) \/ Cancel(t)

Next == LoopStep \/ User \/ Tick

Spec == Init /\ [][Next]_vars

\* The loop's thread keeps running, callbacks return, and time passes.
FairSpec == Spec /\ WF_vars(LoopStep) /\ WF_vars(Tick)

-----------------------------------------------------------------------------
(* Safety                                                                  *)

\* Whenever the loop may go to sleep, the timerfd wakes it in time for the
\* first entry: whatever was added by which callback, however the clock moved
\* between AddTimer's readings, and though settime takes expirations back.
AlarmCoversQueue ==
  phase = "idle" /\ adding = Idle /\ timers # <<>> =>
    readable \/ (alarm > 0 /\ alarm <= ToTimespec(Head(timers).left))

\* A dispatch of the timerfd is never in vain: no settime of an earlier
\* callback of the batch takes the expiration back.
DispatchFindsExpired ==
  due => readable /\ timers # <<>> /\ IsExpired(Head(timers))

\* What HandleRead's second loop still has to put back.
Places(t) ==
  Cardinality({i \in DOMAIN timers : timers[i].id = t})
  + Cardinality({i \in DOMAIN expired :
                   expired[i].id = t /\ (i >= pos \/ expired[i].interval > 0)})

\* Every timer that is to fire is held exactly once, by the queue or by the
\* batch; a one-shot timer is gone once its callback has returned.
NoTimerIsLost ==
  \A t \in Timers :
    handle[t] = "live" =>
      Places(t) = IF plan[t].interval > 0 \/ ~fired[t] \/ running = t THEN 1 ELSE 0

\* The queue's invariant, batch and timerfd included.
TimerInv == TypeOK /\ NoTimerIsLost /\ DispatchFindsExpired

\* A callback never starts before the time asked for has passed since the call
\* of RunAfter or RunEvery, or since its previous start.
NeverEarly ==
  [][\A t \in Timers :
       running' = t /\ running # t =>
         age[t] >= IF fired[t] THEN plan[t].interval ELSE plan[t].delay]_vars

\* Cancel is final: no callback starts after it, though the entry stays in the
\* queue, in the batch, or is the one whose callback cancels itself.
CancelIsFinal ==
  [][\A t \in Timers : handle[t] = "cancelled" => running' # t \/ running = t]_vars

-----------------------------------------------------------------------------
(* Liveness                                                                *)

\* A one-shot timer fires, a repeating one fires again and again, unless it
\* is cancelled; then its entry, and what its callback holds, is given back.
TimersAreServed ==
  \A t \in Timers :
    /\ [](handle[t] = "live" /\ (plan[t].interval > 0 \/ ~fired[t]) =>
            <>(running = t \/ handle[t] = "cancelled"))
    /\ handle[t] = "cancelled" ~> [](Places(t) = 0)
=============================================================================
