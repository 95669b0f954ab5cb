CONSTANTS
  k1 = k1
  k2 = k2
  k3 = k3
  s1 = s1
  s2 = s2
  Base = base
  Clients <- ThreeClients
  SubLoops <- OneSubLoop
  MaxFds = 2
  Stops = TRUE
SPECIFICATION FairSpec
INVARIANTS Tracked
PROPERTIES ImplementsLife ClosedIsRemoved EveryClientAccepted
CHECK_DEADLOCK FALSE
