CONSTANTS
  NumThreads = 3
  MaxConns = 5
  Hasty = FALSE
  OthersQuit = TRUE
SPECIFICATION PoolFairSpec
INVARIANTS PointerValid
PROPERTIES StartReturns DestroyReturns
CHECK_DEADLOCK FALSE
