SPECIFICATION PanelSpec
CONSTANTS
  t1 = t1
  t2 = t2
  Tickers = {t1, t2}
  MaxClock = 3
  SymbolsOf <- MCSymbolsOf
  Undated = {t2}
  TickSets <- MCTickSets
  PriceAt <- MCPriceAt
  MaxItems = 1
  MaxHistory = 2
  Pad = 0
  LoadLimit = 1
  Multiplier = 2
  All = All
CHECK_DEADLOCK FALSE
INVARIANTS
  RecordIsShown
  TabsAgree
  ChartRight
PROPERTIES
  LoadEnds
