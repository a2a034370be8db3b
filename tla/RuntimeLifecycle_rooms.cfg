SPECIFICATION FairSpec
CONSTANTS
  None = None
  Agents = {ann}
  Rooms = {r1, r2}
  BuildFails = {"team"}
  Reverts = FALSE
  MaxEdits = 1
  MaxControls = 0
PROPERTIES
  ServesItsRoom
