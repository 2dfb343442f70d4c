SPECIFICATION AnalyticsSpec
CONSTANTS
  u1 = u1
  u2 = u2
  r1 = r1
  Tickers = {u1, u2, r1}
  Rupiah = {r1}
  Lot <- MCLot
  Prices <- MCPrices
  Retention = 3
  HistoryDays = 2
  Window = 1
  MaxSnapshots = 3
CHECK_DEADLOCK FALSE
INVARIANTS
  WaterfallBalances
  
  PerformersAgree
