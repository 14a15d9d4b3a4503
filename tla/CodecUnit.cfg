SPECIFICATION FairSpec
CONSTANTS
  r0 = r0
  r1 = r1
  va = va
  vb = vb
  Zero = Zero
  Cafe = Cafe
  Regs <- MCRegs
  Value <- MCValue
  LowByte <- MCLowByte
  InitReg = r0
  MissedOutcomes <- MCMaybe
  Drivers <- MCBoth
  Calls <- MCAll
  AxiGap = 3
  MinXfer = 4
  MaxCalls = 3
INVARIANTS
  TypeOK
  ReturnIsItsOwn
  OrderlyReturnMeansDone
PROPERTIES
  RequestsAreTaken
  NoValidLost
  CallsReturn
\* The driver may never be called again.
CHECK_DEADLOCK FALSE
