SPECIFICATION Spec
CONSTANTS
  u1 = u1
  u2 = u2
  Users = {u1, u2}
  MaxTrx = 1
  Writes = 2
  Plan <- MCPlan
  MaxDecs = 1
  MaxRetries = 4
  MaxLosses = 2
  MaxStops = 1
  LoseBusy = FALSE
INVARIANTS
  PoolIsExact
  EveryValueOnce
PROPERTIES
  ImplementsStore
  EveryCallEnds
CHECK_DEADLOCK FALSE
