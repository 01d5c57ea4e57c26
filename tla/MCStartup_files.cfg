SPECIFICATION SmallSpec
CONSTANTS
  Nprocs = 2
  Ints <- SomeInts
  EndpointLists <- TwoEndpoints
  Hosts <- AllHosts
  PortMod = 64
  FixedAddr = "192.168.89.134"
  FixedPort = 50
  Threads = 2
  MaxStarts = 2
INVARIANTS LimitsInRange ReadyMeansServing ReturnsStopped
PROPERTY StopEndsStart
CHECK_DEADLOCK FALSE
