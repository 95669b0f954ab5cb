CONSTANTS
  k1 = k1
  k2 = k2
  Calls <- TwoCalls
  Served <- OneCall
  SizeLen = 2
  HeaderLen = 3
  ArgsLen = 3
  Cuts <- FieldBoundaries
  MaxReply = 3
  RecvMax = 2
  Segments = TRUE
  Crashes = TRUE
SPECIFICATION FairSpec
INVARIANTS WholeSuccessIsAnswer OneReply
PROPERTIES CallReturns
CHECK_DEADLOCK FALSE
