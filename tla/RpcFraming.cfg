CONSTANTS
  k1 = k1
  k2 = k2
  Calls <- TwoCalls
  Served <- OneCall
  SizeLen = 2
  HeaderLen = 3
  ArgsLen = 3
  Cuts <- FieldBoundaries
  MaxReply = 1
  RecvMax = 2
  Segments = TRUE
  Crashes = FALSE
SPECIFICATION Spec
INVARIANTS SuccessIsAnswer
CHECK_DEADLOCK FALSE
