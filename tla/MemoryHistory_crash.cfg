SPECIFICATION Spec
CONSTANTS
  Empty = Empty
  Runs = {cron, dream}
  CronRun = cron
  Legacy = 0
  MaxEntries = 5
  MaxHistory = 3
  BatchSize = 2
  Backlog = 3
  Faults = {"append"}
  MaxCrashes = 2
INVARIANTS
  NothingPassedOver
