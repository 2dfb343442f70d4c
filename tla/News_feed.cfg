SPECIFICATION FairSpec
CONSTANTS
  aapl = aapl
  spy = spy
  poller = poller
  l1 = l1
  None = None
  Poller = poller
  Tickers <- TwoTickers
  MaxArticles = 2
  SymbolsOf <- Mixed
  Loads <- OneLoad
  PerTicker = 1
  FetchLimit = 3
  LoadLimit = 2
  Multiplier = 2
  MaxMishaps = 1
CHECK_DEADLOCK FALSE
INVARIANTS
  RepeatsBounded
  SeenIsDelivered
  CallsBounded
PROPERTIES
  LatestAreShown
