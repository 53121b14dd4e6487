\* Two timers with delays and intervals up to three ticks.
SPECIFICATION FairSpec
CONSTANTS
  t1 = t1
  t2 = t2
  Timers = {t1, t2}
  NoTimer = NoTimer
  MaxDelay = 3
INVARIANTS
  TimerInv
  AlarmCoversQueue
PROPERTIES
  NeverEarly
  CancelIsFinal
  TimersAreServed
CHECK_DEADLOCK FALSE
