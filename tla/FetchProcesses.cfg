SPECIFICATION Spec
CONSTANTS
  runner = runner
  command = command
  other = other
  tui = tui
  cli = cli
  volume = volume
  suggest = suggest
  ranks = ranks
  None = None
  Callers = {runner, command, other}
  Hosts = {tui, cli}
  Questions = {volume, suggest}
  HostOf <- MCHostOf
  Estimate <- MCEstimate
  Charges <- MCCharges
  TTL <- MCTTL
  Validated = {volume}
  Credentialed = {volume, suggest}
  Ceiling = 3
  FreeConcurrency = 1
  MonthLength = 2
  MaxTime = 2
  MaxRows = 2
  MaxMishaps = 1
INVARIANTS
  TypeOK
  PaidSerial
  GuardsBalanced
  NoVendorErrorStored
  RepurchaseOnlyByOverlap
  PaidAnswersKept
CHECK_DEADLOCK FALSE
