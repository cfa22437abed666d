SPECIFICATION Spec
CONSTANTS
  tui = tui
  cli = cli
  own = own
  rival = rival
  Spenders = {tui, cli}
  Tui = tui
  Ceiling = 4
  MaxCharge = 4
  Overrun = 1
  Keywords = {1, 2}
  Words = {0, 1, 2, 3}
  Cleaned <- MCCleaned
  Blank = 0
  Typed <- MCTyped
  Domains = {own, rival, 0}
  RanksAsked = {own, 0}
  GapsAsked <- MCGaps
  Limits = {1, 3}
  MaxKeywordsPerCall = 1
  MaxSeeds = 1
  MaxLimit = 2
  BaseUsd = 1
  PerRowUsd = 1
  IdeasUsd = 2
  Threshold = 3
  Excess = {1}
  Answers = {{1}}
  TTL <- MCTTL
  MonthLength = 2
  MaxTime = 2
  MaxDecisions = 2
  MaxMishaps = 1
INVARIANTS
  Overshoot
  ConsentGiven
  NothingOwnedIsRebought
CHECK_DEADLOCK FALSE
