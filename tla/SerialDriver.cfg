SPECIFICATION FairSpec
CONSTANTS
  FifoSize = 2
  uxQueueLength = 1
  Lengths <- MCLengths
  MaxPut = 6
  MaxReceived = 3
\* The bytes put and received are bounded: the run may end with nothing to do.
CHECK_DEADLOCK FALSE
INVARIANTS
  TypeOK
  StringIsKept
  ReceivedInOrder
PROPERTIES
  SentInOrder
  PutsReturn
  BytesAreTaken
