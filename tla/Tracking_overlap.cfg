SPECIFICATION Spec
CONSTANTS
  aapl = aapl
  bbca = bbca
  spy = spy
  r1 = r1
  r2 = r2
  a1 = a1
  None = None
  Tickers <- ThreeTickers
  Reqs <- TwoRequests
  Alerts <- OneAlert
  MaxHoldings = 1
  MaxWatchlist = 1
  MaxFailures = 0
  MaxCrashes = 1
SYMMETRY Symmetry
INVARIANTS
  ListsBounded
  OneList
  StreamsExactly
  NoOrphanAlert
PROPERTIES
  BootRepairs
  ImplementsTrackedSet
