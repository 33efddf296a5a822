SPECIFICATION Spec
CONSTANTS
  c1 = c1
  c2 = c2
  Client <- TwoClients
  LastDay = 5
  HoursPerDay = 1
  Published <- ThreeTables
  MaxDelay = 0
  SeriesStart = 1
  AliasAge = 2
  Staleness = 1
  Chunk = 2
  Request <- Requests
  MonthEnd <- TwoMonthEnds
  Currency <- OneCurrency
  Quotes <- MostlyQuoted
  Reference <- TwoReferences
  MaxSwitches = 1
  MaxLookups = 2
SYMMETRY AnyClient
INVARIANTS
  CacheIsTrue
  MemoIsCurrent
  AnswersAreTrue
  
PROPERTIES
  NothingForgotten
CHECK_DEADLOCK FALSE
