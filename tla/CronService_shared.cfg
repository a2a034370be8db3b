SPECIFICATION FairSpec
CONSTANTS
  rep = rep
  once = once
  del = del
  sys = sys
  None = None
  Jobs = {rep, once}
  Kind <- MCKind
  At <- MCAt
  System = {}
  Stored = {rep}
  Ops = {"start", "stop", "run", "remove", "otherAdd", "other"}
  Ticks = {k1, k2}
  SlowCancel = TRUE
  MaxSleep = 2
  MaxNow = 2
  MaxCalls = 4
PROPERTIES
  DueJobRuns
