\* Two clients, one of which sends; no sub-reactor, one, or two; both
\* descriptors are used at once, and one again after the other.
SPECIFICATION FairSpec
CONSTANTS
  c1 = c1
  c2 = c2
  Conns = {c1, c2}
  NumFds = 2
  MaxThreads = 2
  AutoClose = TRUE
  Talkers = {c1}
  None = None
INVARIANT ServerInv
PROPERTY NothingIsOverlooked
CHECK_DEADLOCK FALSE
