SPECIFICATION Spec
CONSTANTS
  c1 = c1
  c2 = c2
  v1 = v1
  v2 = v2
  k1 = k1
  Creates = {c1, c2}
  Views = {v1, v2}
  Tokens = {k1}
  TokenOf <- MCTokenOf
  Limit = 2
  Window = 1
  PerDay = 1
  Day = 2
  Skews = {0, 1}
  MaxRequests = 3
  MaxClock = 2
SYMMETRY Symmetry
INVARIANTS TypeOK BurstBounded RefusalsEarned DailyBounded CreateOnce TokenOnce
CHECK_DEADLOCK FALSE
