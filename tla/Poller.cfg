CONSTANTS
  Channels <- ThreeChannels
  Fds <- ThreeFds
  NoFd = NoFd
  Outside <- First
  NoChannel = 0
  InitEventListSize = 2
SPECIFICATION FairSpec
INVARIANTS TableAgrees ActiveAlive
PROPERTIES EveryInputRead
CHECK_DEADLOCK FALSE
