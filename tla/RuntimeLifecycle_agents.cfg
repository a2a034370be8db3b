SPECIFICATION FairSpec
CONSTANTS
  None = None
  Agents = {ann, bob}
  Rooms = {r1}
  BuildFails = {"team"}
  Reverts = FALSE
  MaxEdits = 2
  MaxControls = 2
INVARIANTS
  OneLoopAtRest
  NothingRunsAfterStop
PROPERTIES
  CatchesUp
