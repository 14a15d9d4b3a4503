SPECIFICATION FairSpec
CONSTANTS
  NumRegs = 1
  Values <- MCOneRegValues
  CodecAcks <- MCMayNack
  Paced = TRUE
  MaxOps = 3
INVARIANTS
  DoneMeansWritten
  MissesAreReal
  PairsStayTogether
  NoUnderflow
PROPERTIES
  OnlyTheWriteWrites
  OperationsEnd
\* The client may stop asking.
CHECK_DEADLOCK FALSE
