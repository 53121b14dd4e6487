\* Five lines of up to three bytes in buffers of three: lines that fit, that
\* fit exactly and that do not, and up to five full buffers between two swaps.
SPECIFICATION FairSpec
CONSTANTS
  BufferSize = 3
  FileSize = 4
  MaxLine = 3
  MaxLines = 5
INVARIANTS
  LogInv
  LinesInOrder
PROPERTY StopDrainsTheLog
CHECK_DEADLOCK FALSE
