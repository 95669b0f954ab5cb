CONSTANTS
  c1 = c1
  m1 = m1
  m2 = m2
  Loop = loop
  Junk = junk
  Callers <- OneCaller
  Messages <- TwoMessages
  TidCached = TRUE
  MsgLen = 2
  MaxRequests = 0
  PeerResets = TRUE
  ServerStops = TRUE
  CompletionSet = FALSE
SPECIFICATION Spec
INVARIANTS Registered WatchesOutput Untorn FinAfterOutput
CHECK_DEADLOCK FALSE
