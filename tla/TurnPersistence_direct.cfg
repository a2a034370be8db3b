SPECIFICATION FairSpec
CONSTANTS
  m1 = m1
  m2 = m2
  m3 = m3
  sub = sub
  new = new
  None = None
  Messages = {m1, m2, new}
  Kind <- MCKind
  Ops = {"ask", "interrupt", "noAnswer", "retry", "toolError", "maxIterations"}
  PendingQueue = FALSE
  InjectLimit = 2
  MaxCycles = 2
  MaxIterations = 3
INVARIANTS
  PromptsSaved
PROPERTIES
  TurnEnds
