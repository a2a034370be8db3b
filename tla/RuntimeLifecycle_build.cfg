SPECIFICATION FairSpec
CONSTANTS
  None = None
  Agents = {ann}
  Rooms = {r1}
  BuildFails = {"team", "solo"}
  Reverts = FALSE
  MaxEdits = 1
  MaxControls = 0
PROPERTIES
  CatchesUp
