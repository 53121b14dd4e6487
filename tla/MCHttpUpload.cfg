\* The instance of MCHttpServer.cfg, for bodies that come in any number of reads.
SPECIFICATION FairHttpSpec
CONSTANTS
  Number <- MCNumber
  Requests <- MCRequests
  MaxRequests = 2
  PageLens = {2, 5}
  FileLens = {1, 4}
  HeadLen = 1
  SndCap = 2
PROPERTY UploadIsAnswered
CHECK_DEADLOCK FALSE
