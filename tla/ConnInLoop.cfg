CONSTANTS
  c1 = c1
  m1 = m1
  m2 = m2
  Loop = loop
  Junk = junk
  Callers <- NoCallers
  Messages <- TwoMessages
  TidCached = TRUE
  MsgLen = 2
  MaxRequests = 2
  PeerResets = TRUE
  ServerStops = FALSE
  CompletionSet = TRUE
SPECIFICATION FairSpec
INVARIANTS KeepsReply NeverFatal
PROPERTIES ImplementsLife ShutdownEnds Removed
CHECK_DEADLOCK FALSE
