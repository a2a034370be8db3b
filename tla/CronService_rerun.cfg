SPECIFICATION Spec
CONSTANTS
  rep = rep
  once = once
  del = del
  sys = sys
  None = None
  Jobs = {rep, once}
  Kind <- MCKind
  At <- MCAt
  System = {}
  Stored = {rep, once}
  Ops = {"start", "enable", "run"}
  Ticks = {k1, k2}
  SlowCancel = FALSE
  MaxSleep = 9
  MaxNow = 2
  MaxCalls = 4
PROPERTIES
  OneShotOnce
