SPECIFICATION FairSpec
CONSTANTS
  high = high
  low = low
  sender = sender
  Tasks = {high, low, sender}
  Idle = idle
  Priority <- MCPriority
  Requests <- MCRequests
  Items = {1, 2}
  uxLength = 2
  MaxPosts = 3
  NoCall = NoCall
INVARIANTS
  TypeOK
  HighestRuns
  NoLostWakeup
  WaitersSorted
PROPERTIES
  ImplementsQueue
  TopTaskReturns
