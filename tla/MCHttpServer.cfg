\* Two of nine requests one after the other, cut anywhere; a page and a file that
\* the send buffer takes at once, and one of each that it takes in parts.
SPECIFICATION FairHttpSpec
CONSTANTS
  Number <- MCNumber
  Requests <- MCRequests
  MaxRequests = 2
  PageLens = {2, 5}
  FileLens = {1, 4}
  HeadLen = 1
  SndCap = 2
INVARIANTS
  HttpInv
  AnswersInOrder
PROPERTY WholeRequestIsAnswered
CHECK_DEADLOCK FALSE
