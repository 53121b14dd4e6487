\* Room for one session and a half: the second client's backend gets no socket.
CONSTANTS
  c1 = c1
  c2 = c2
  c3 = c3
  c4 = c4
  Clients = {c1, c2, c3}
  NoClient = NoClient
  NumBackends = 2
  NumFds = 4
  EdgeTriggered = FALSE
SPECIFICATION Spec
INVARIANT OpenIsAttended
CHECK_DEADLOCK FALSE
