\* Two threads with two functors each, and an eventfd that is full at two.
CONSTANTS
  a = a
  b = b
  Threads = {a, b}
  Self = Self
  MaxPosts = 2
  MaxCount = 2
  NoFunctor = NoFunctor
SPECIFICATION FairLoopSpec
INVARIANT LoopInv
PROPERTIES
  ImplementsExecutor
  IoIsNotStarved
  QuitEndsLoop
CHECK_DEADLOCK FALSE
