CONSTANTS
  Byte <- MCByte
  Zero = 0
  Data <- MCData
  CheapPrepend = 1
  InitialSize = 2
  ExtraSize = 2
  MaxReadable = 4
SPECIFICATION Spec
INVARIANTS MemoryBounded
PROPERTIES ImplementsByteQueue
