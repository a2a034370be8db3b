SPECIFICATION FairSpec
CONSTANTS
  j1 = j1
  j2 = j2
  None = None
  Lanes = {"dispatch", "direct"}
  Jobs = {j1, j2}
  Plans <- MCPlans
  Keep = 2
  MaxRounds = 2
  MaxRows = 8
  MaxOps = 1
INVARIANTS
  RowsKept
  HiddenRowsAreArchived
  ArchivedOnce
  DeletedStaysDeleted
  CutsBetweenTurns
PROPERTIES
  TurnsProceed
