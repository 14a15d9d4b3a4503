SPECIFICATION Spec
CONSTANTS
  NumRegs = 2
  Values <- MCValues
  CodecAcks <- MCMayNack
  Paced = TRUE
  MaxOps = 2
INVARIANTS
  ReadGivesTheRegister
\* The client may stop asking.
CHECK_DEADLOCK FALSE
