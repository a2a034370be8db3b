SPECIFICATION FairSpec
CONSTANTS
  Empty = Empty
  Runs = {cron, dream}
  CronRun = cron
  Legacy = 1
  MaxEntries = 5
  MaxHistory = 3
  BatchSize = 2
  Backlog = 3
  Faults = {"counter", "dreamCursor", "migration"}
  MaxCrashes = 2
INVARIANTS
  NothingPassedOver
PROPERTIES
  EveryEntryDreamt
