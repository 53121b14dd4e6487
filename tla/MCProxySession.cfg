\* A batch of two, and room for one byte in a peer's receive path, so that
\* writes are partial and both directions can be paused at once.
SPECIFICATION FairSpec
CONSTANTS
  MaxBytes <- MCBytes
  RcvCap = 2
  SndCap = 1
  BatchSize = 2
  PeerMayReset = TRUE
  SocketMayFail = TRUE
INVARIANTS
  TypeOK
  StreamIntact
  CleanClose
  FlowControl
  BatchIsAlive
  DestroyedIsUnregistered
PROPERTIES
  ClosedIsInert
  ImplementsRelay
  DeliversEverything
  SessionEnds
  ConnectIsDecided
  NoCrossBlocking
CHECK_DEADLOCK FALSE
