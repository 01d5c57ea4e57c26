SPECIFICATION FairSpec
CONSTANTS
  Threads = {t1, t2}
  NumAcceptors = 1
  Conns = {c1, c2}
  MaxFds = 3
  ListenBacklog = 1
  MaxEvents = 10
  MaxConnection = 2
  NoThread = NoThread
  NoConn = NoConn
PROPERTIES
  QueuedIsAccepted
  ClosedIsDestroyed
  StopEnds
CHECK_DEADLOCK FALSE
