\* The instance of MCTcpServer.cfg, for the assertion of HandleCloseInLoop.
SPECIFICATION Spec
CONSTANTS
  c1 = c1
  c2 = c2
  Conns = {c1, c2}
  NumFds = 2
  MaxThreads = 2
  AutoClose = TRUE
  Talkers = {c1}
  None = None
INVARIANT CloseFindsEntry
CHECK_DEADLOCK FALSE
