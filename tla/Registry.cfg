CONSTANTS
  p1 = p1
  p2 = p2
  c1 = c1
  m1 = m1
  m2 = m2
  Providers <- TwoProviders
  Callers <- OneCaller
  Methods <- TwoMethods
  Placements <- ApartOrTogether
  Serves <- ServiceMaps
  Service = service
  NoNode = NoNode
  MaxConnects <- Reconnects
SPECIFICATION FairSpec
INVARIANTS ListedOrWarned ConnectedServes
PROPERTIES ImplementsDirectory StartReturns
CHECK_DEADLOCK FALSE
