SPECIFICATION Spec
CONSTANTS
  rep = rep
  once = once
  del = del
  sys = sys
  None = None
  Jobs = {rep, once, del, sys}
  Kind <- MCKind
  At <- MCAt
  System = {sys}
  Stored = {rep, sys}
  Ops = {"start", "list", "add", "remove", "enable", "update", "register", "crash", "crashInMerge"}
  Ticks = {k1, k2}
  SlowCancel = FALSE
  MaxSleep = 9
  MaxNow = 3
  MaxCalls = 4
INVARIANTS
  EditsKept
  RunsRecorded
  TimerCoversNextJob
PROPERTIES
  OneShotOnce
