SPECIFICATION FairSpec
CONSTANTS
  tui = tui
  cli = cli
  own = own
  rival = rival
  Spenders = {tui, cli}
  Tui = tui
  Ceiling = 4
  MaxCharge = 3
  Overrun = 1
  Keywords = {1, 2}
  Words = {0, 1, 2, 3}
  Cleaned <- MCCleaned
  Blank = 0
  Typed <- MCTyped
  Domains = {own, rival, 0}
  RanksAsked = {own, 0}
  GapsAsked <- MCGaps
  Limits = {1, 3}
  MaxKeywordsPerCall = 1
  MaxSeeds = 1
  MaxLimit = 2
  BaseUsd = 1
  PerRowUsd = 1
  IdeasUsd = 2
  Threshold = 3
  Excess = {1}
  Answers <- MCAnswers
  TTL <- MCTTL
  MonthLength = 2
  MaxTime = 0
  MaxDecisions = 1
  MaxMishaps = 1
PROPERTIES
  QueueDrains
CHECK_DEADLOCK FALSE
