SPECIFICATION Spec
CONSTANTS
  NumRegs = 2
  Values <- MCValues
  CodecAcks <- MCAlwaysAcks
  Paced = FALSE
  MaxOps = 3
INVARIANTS
  DoneMeansWritten
\* The client may stop asking.
CHECK_DEADLOCK FALSE
