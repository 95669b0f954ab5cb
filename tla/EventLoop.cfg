CONSTANTS
  c1 = c1
  c2 = c2
  f1 = f1
  f2 = f2
  f3 = f3
  Loop = loop
  Callers <- TwoCallers
  Functors <- ThreeFunctors
  TidCached = TRUE
  EarlyQueue = FALSE
  MaxQuits = 2
SPECIFICATION FairSpec
INVARIANTS PromptWake
PROPERTIES ImplementsTaskQueue EveryFunctorRuns QuitStops
CHECK_DEADLOCK FALSE
