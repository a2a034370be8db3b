SPECIFICATION Spec
CONSTANTS
  j1 = j1
  j2 = j2
  None = None
  Lanes = {"dispatch", "direct"}
  Jobs = {j1, j2}
  Plans <- MCDeletePlans
  Keep = 2
  MaxRounds = 2
  MaxRows = 6
  MaxOps = 2
INVARIANTS
  DeletedStaysDeleted
