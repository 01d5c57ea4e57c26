SPECIFICATION Spec
CONSTANTS
  Threads = {t1, t2}
  NumAcceptors = 2
  Conns = {c1, c2, c3}
  MaxFds = 2
  ListenBacklog = 2
  MaxEvents = 2
  MaxConnection = 1
  NoThread = NoThread
  NoConn = NoConn
SYMMETRY WorkersAndClients
INVARIANTS
  ServantHoldsLock
  NoAbandonedLock
  NoLostAcceptor
  NoDanglingReference
  HomeThread
  ListExactUntilRace
  ExhaustionTrapsWorker
PROPERTIES
  ServiceSpec
CHECK_DEADLOCK FALSE
