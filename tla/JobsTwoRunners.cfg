SPECIFICATION Spec
CONSTANTS
  Hosts = {tui, cli}
  Questions = {volume}
  MaxAttempts = 3
  Backoff <- MCBackoff
  MaxPerRun = 2
  Hosting = "free"
  RowIds = {1}
  MaxJobs = 2
  MaxMishaps = 2
INVARIANTS
  NoDuplicateWork
