SPECIFICATION FairSpec
CONSTANTS
  volume = volume
  suggest = suggest
  ranks = ranks
  None = None
  Hosts = {tui, cli}
  Questions = {volume, ranks}
  MaxAttempts = 2
  Backoff <- MCBackoff
  MaxPerRun = 1
  Hosting = "exclusive"
  MaxJobs = 2
  MaxMishaps = 1
  Estimate <- MCEstimate
  Charges <- MCCharges
  TTL <- MCTTL
  Validated = {volume, ranks}
  Credentialed = {volume, ranks}
  Ceiling = 3
  FreeConcurrency = 1
  MonthLength = 1
  MaxTime = 1
  MaxRows = 3
  MaxFaults = 1
INVARIANTS
  DoneIsAnswered
  OnePurchasePerQuestion
  CeilingHolds
PROPERTIES
  JobsSettle
CHECK_DEADLOCK FALSE
