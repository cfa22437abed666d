SPECIFICATION PeripherySpec
CONSTANTS
  Tasks = {t1, t2, t3}
  PerMinute = 1
  Window = 2
  MaxWait = 4
  MaxTime = 3
  MaxSends = 5
  first = first
  second = second
  site = site
  rival = rival
  response = response
  domainTable = domainTable
  queryTable = queryTable
  Nothing = Nothing
  Words = {1, 2}
  Sites = {site}
  Pairs = {rival}
  KnownFor <- MCKnownFor
  QueryOf <- MCQueryOf
  Plainness <- MCPlainness
  Responses = {response}
  SourceOf <- MCSourceOf
  Tables = {domainTable, queryTable}
  Produced <- MCProduced
  TableView <- MCTableView
  Searched = {2}
  Terms <- MCTerms
  Rankings <- MCRankings
  Nobody = Nobody
  Openers = {first, second}
  Releases = {2, 3}
  Idempotent = {2}
  MaxLosses = 1
  Importers = {i1, i2}
  Extent <- MCExtent
  MaxPages = 2
  DayLength = 2
  PageTTL = 2
  Lifetime = 2
  Margin = 1
  MaxClock = 2
  MaxPulls = 2
  MaxConsents = 2
  MaxTroubles = 1
PROPERTIES
  MarksConsumedByUse
CHECK_DEADLOCK FALSE
