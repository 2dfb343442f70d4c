SPECIFICATION FanoutSpec
CONSTANTS
  c1 = c1
  c2 = c2
  c3 = c3
  s1 = s1
  s2 = s2
  None = None
  Clients <- ThreeClients
  Senders <- TwoSenders
  MaxCasts = 3
CHECK_DEADLOCK FALSE
SYMMETRY Symmetry
INVARIANTS
  MembersAreConnected
PROPERTIES
  CalmCastsReachAll
