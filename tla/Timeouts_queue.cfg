SPECIFICATION ConnSpec
CONSTANTS
  Timers = {1, 2, 3}
  Stamps = {}
  Kilo = 2
  MinDelay = 1
  MaxNow = 7
  Timeout = 2
INVARIANT QueueIsOpenConnections
PROPERTY ReportIsDrained
CHECK_DEADLOCK FALSE
