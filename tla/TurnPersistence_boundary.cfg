SPECIFICATION Spec
CONSTANTS
  m1 = m1
  m2 = m2
  m3 = m3
  sub = sub
  new = new
  None = None
  Messages = {m1, m2, m3}
  Kind <- MCKind
  Ops = {"maxIterations"}
  PendingQueue = TRUE
  InjectLimit = 2
  MaxCycles = 2
  MaxIterations = 2
INVARIANTS
  NoOrphanResult
