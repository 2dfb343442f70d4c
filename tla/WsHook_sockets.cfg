SPECIFICATION FairSpec
CONSTANTS
  MaxSockets = 6
  MaxUrls = 3
CHECK_DEADLOCK FALSE

  
PROPERTIES
  Reconnects
