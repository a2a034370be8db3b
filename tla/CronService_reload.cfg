SPECIFICATION Spec
CONSTANTS
  rep = rep
  once = once
  del = del
  sys = sys
  None = None
  Jobs = {rep}
  Kind <- MCKind
  At <- MCAt
  System = {}
  Stored = {rep}
  Ops = {"start", "list", "run"}
  Ticks = {k1, k2}
  SlowCancel = FALSE
  MaxSleep = 9
  MaxNow = 2
  MaxCalls = 3
INVARIANTS
  RunsRecorded
