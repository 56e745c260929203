SPECIFICATION FlowSpec
CONSTANTS
  Prog <- OrderProg
  Roots = {"order"}
  SplitSizes = {1, 2}
  WaitItems = {"a", "b"}
  MaxAborts = 1
  MaxRepairs = 2
  MaxMoves = 1
  MaxRemovals = 1
  MayDisturb = FALSE
  MaxCrashes = 1
  MaxTroubles = 3

  
  
PROPERTIES
  
  EveryProcessSettles
CHECK_DEADLOCK FALSE
