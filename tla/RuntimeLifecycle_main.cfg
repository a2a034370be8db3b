SPECIFICATION Spec
CONSTANTS
  None = None
  Agents = {ann}
  Rooms = {r1}
  BuildFails = {}
  Reverts = FALSE
  MaxEdits = 0
  MaxControls = 4
INVARIANTS
  OneMainLoop
