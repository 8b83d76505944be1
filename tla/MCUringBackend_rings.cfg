CONSTANTS
  SqEntries = 2
  CqEntries = 4
  U32 = 16
  BufCounts = {0, 1, 3}
  MaxFlows = 3
  MaxShots = 2
  MaxOutstanding = 6
  EnterFaults = {"error", "partial"}
  Cares = {TRUE, FALSE}
SPECIFICATION FairSpec
INVARIANTS AccountExact EndsOnce FifoOrder
PROPERTY Progress
