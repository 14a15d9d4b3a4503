SPECIFICATION FairSpec
CONSTANTS
  NumRegs = 2
  Values <- MCValues
  CodecAcks <- MCAlwaysAcks
  Paced = TRUE
  MaxOps = 3
INVARIANTS
  TypeOK
PROPERTIES
  ImplementsPort
\* The client may stop asking.
CHECK_DEADLOCK FALSE
