SPECIFICATION Spec
CONSTANTS
  Tickers = {h1, w1}
  Watched = {w1}
  Rupiah = {h1}
  Prices = {1, 2}
  PrevClose <- MCPrevClose
  Lots <- MCLots
  Alerts = {a1}
  MaxHistory = 1
  AutoDismiss = 1
  MaxFrames = 1
CHECK_DEADLOCK FALSE
INVARIANTS
  TypeOK
  RowsCoherent
PROPERTIES
  CatchesUp
  ToastsGo
