SPECIFICATION FairSpec
CONSTANTS
  runner = runner
  command = command
  other = other
  tui = tui
  cli = cli
  volume = volume
  suggest = suggest
  ranks = ranks
  None = None
  Callers = {runner, command}
  Hosts = {tui}
  Questions = {volume, suggest, ranks}
  HostOf <- MCHostOf
  Estimate <- MCEstimate
  Charges <- MCCharges
  TTL <- MCTTL
  Validated = {volume, ranks}
  Credentialed = {volume, suggest}
  Ceiling = 3
  FreeConcurrency = 1
  MonthLength = 2
  MaxTime = 2
  MaxRows = 2
  MaxMishaps = 1
PROPERTIES
  EveryCallReturns
  ImplementsLedger
CHECK_DEADLOCK FALSE
