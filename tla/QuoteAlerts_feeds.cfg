SPECIFICATION Spec
CONSTANTS
  k1 = k1
  k2 = k2
  a1 = a1
  a2 = a2
  None = None
  Tasks <- TwoTasks
  Prices <- ThreePrices
  Alerts <- TwoAlerts
  Target <- MiddleTarget
  Feeds <- BothFeeds
  MaxTicks = 3
  MaxMoves = 2
  MaxRaises = 1
CHECK_DEADLOCK FALSE
SYMMETRY Symmetry
INVARIANTS
  PushesBounded
  NoMissedCrossing
  LatestPrice
  TriggeredIsPushed
