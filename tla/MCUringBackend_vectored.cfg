CONSTANTS
  SqEntries = 2
  CqEntries = 4
  U32 = 16
  BufCounts = {2}
  MaxFlows = 2
  MaxShots = 0
  MaxOutstanding = 3
  EnterFaults = {}
  Cares = {FALSE}
SPECIFICATION Spec
INVARIANT HandedOver
