\* Four bytes in chunks of up to two, over a send buffer of one byte.
CONSTANTS
  MaxGiven = 4
  MaxLength = 2
  SndCap = 1
SPECIFICATION FairSpec
INVARIANTS
  EndpointInv
  PausedOutlivesHangup
PROPERTIES
  CallbacksAreOrdered
  EverythingIsDelivered
CHECK_DEADLOCK FALSE
