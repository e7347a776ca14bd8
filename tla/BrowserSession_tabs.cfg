SPECIFICATION Spec
CONSTANTS
  t1 = t1
  t2 = t2
  u1 = u1
  u2 = u2
  NoUser = NoUser
  Tabs <- TwoTabs
  Users <- OneUser
  Lives <- Long
  Window = 1
  Soon = 1
  Tolerance = 2
  TxLife = 2
  MaxTime = 1
  MaxTokens = 3
  MaxLogins = 1
  MaxEvents = 1
  MaxFaults = 1
INVARIANTS TypeOK OneRefreshAhead RefreshTokenUsable
PROPERTIES SignedOutStays
SYMMETRY TabSymmetry
CHECK_DEADLOCK FALSE
