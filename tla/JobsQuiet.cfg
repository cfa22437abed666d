SPECIFICATION FairSpec
CONSTANTS
  Hosts = {tui, cli}
  Questions = {volume}
  MaxAttempts = 2
  Backoff <- MCBackoff
  MaxPerRun = 1
  Hosting = "quiet"
  RowIds = {1}
  MaxJobs = 2
  MaxMishaps = 2
INVARIANTS
  NoDuplicateWork
  SnapshotCurrent
  AttemptsBounded
PROPERTIES
  SettledForGood
  JobsSettle
  DrainEnds
