\* Eight bytes in pieces of up to three, from a vector of two bytes and a
\* prepend area of two.
CONSTANTS
  CheapPrepend = 2
  InitialSize = 2
  MaxPiece = 3
  MaxBytes = 8
SPECIFICATION BufferSpec
INVARIANTS
  BufferInv
PROPERTY ImplementsByteQueue
CHECK_DEADLOCK FALSE
