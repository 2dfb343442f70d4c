SPECIFICATION Spec
CONSTANTS
  Tickers = {t1}
  Alerts = {a1}
  None = None
  MaxInFlight = 2
CHECK_DEADLOCK FALSE
INVARIANTS
  RowsAgree
  AlertsAgree
