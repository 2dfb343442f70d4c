SPECIFICATION FairSpec
CONSTANTS
  aapl = aapl
  bbca = bbca
  spy = spy
  r1 = r1
  r2 = r2
  a1 = a1
  None = None
  Tickers <- TwoTickers
  Reqs <- TwoRequests
  Alerts <- NoAlerts
  MaxHoldings = 1
  MaxWatchlist = 1
  MaxFailures = 1
  MaxCrashes = 0
INVARIANTS
  TypeOK
  NoLeak
PROPERTIES
  Settles
