\* Four clients, three backends, and descriptors for the reserve, two sessions
\* and a half, so that each way of running out of them occurs.
SPECIFICATION FairSpec
CONSTANTS
  c1 = c1
  c2 = c2
  c3 = c3
  c4 = c4
  Clients = {c1, c2, c3, c4}
  NoClient = NoClient
  NumBackends = 3
  NumFds = 6
  EdgeTriggered = FALSE
INVARIANTS
  BalancerInv
  BackendsTakeTurns
PROPERTIES
  RefusedOnlyWhenFull
  NobodyIsForgotten
  StopCompletes
CHECK_DEADLOCK FALSE
