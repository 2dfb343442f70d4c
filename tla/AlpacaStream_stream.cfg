SPECIFICATION FairStreamSpec
CONSTANTS
  aapl = aapl
  spy = spy
  k1 = k1
  k2 = k2
  Tickers <- TwoTickers
  Calls <- TwoCalls
  MaxStreams = 3
CHECK_DEADLOCK FALSE
INVARIANTS
  InSync
PROPERTIES
  StopEndsPublished
