CONSTANTS
  t1 = t1
  t2 = t2
  a = a
  b = b
  c = c
  Threads <- TwoThreads
  Messages <- ThreeMessages
  LevelOf <- OneFatal
  NoMessage = NoMessage
  Closed = Closed
  MaxDay = 2
  n1 = n1
  NetLogs <- OneNetLog
SPECIFICATION FairSpec
INVARIANTS LabelIsRecent MisfiledOnce
PROPERTIES ImplementsLogFile EveryMessageWritten
CHECK_DEADLOCK FALSE
