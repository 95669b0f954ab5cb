CONSTANTS
  Base = 32
  Unit = 64
  SerializeToString <- Serialize
  ByteSize <- ByteSizeLong
  MergeFromString <- InternalParse
  Text <- Units
  Asks <- Questions
  MaxCalls = 2
  RecvLen = 9
SPECIFICATION DataSpec
INVARIANTS SizeIsLength WholeRequestRuns OnlyCutIsDropped AnswerIsService
CHECK_DEADLOCK FALSE
