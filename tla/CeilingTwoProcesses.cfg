SPECIFICATION Spec
CONSTANTS
  runner = runner
  command = command
  other = other
  tui = tui
  cli = cli
  volume = volume
  suggest = suggest
  ranks = ranks
  None = None
  Callers = {runner, other}
  Hosts = {tui, cli}
  Questions = {volume}
  HostOf <- MCHostOf
  Estimate <- MCEstimate
  Charges <- MCCharges
  TTL <- MCTTL
  Validated = {volume}
  Credentialed = {volume}
  Ceiling = 3
  FreeConcurrency = 1
  MonthLength = 2
  MaxTime = 1
  MaxRows = 2
  MaxMishaps = 0
INVARIANTS
  CeilingHolds
CHECK_DEADLOCK FALSE
