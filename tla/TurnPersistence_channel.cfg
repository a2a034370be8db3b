SPECIFICATION Spec
CONSTANTS
  m1 = m1
  m2 = m2
  m3 = m3
  sub = sub
  new = new
  None = None
  Messages = {m1, m2, sub, new}
  Kind <- MCKind
  Ops = {"ask", "interrupt", "crash", "inlineNew"}
  PendingQueue = TRUE
  InjectLimit = 2
  MaxCycles = 2
  MaxIterations = 3
INVARIANTS
  TypeOK
  HeldMessagesSaved
  NoOrphanResult
  StepsOnce
  PromptsAlternate
