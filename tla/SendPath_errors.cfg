SPECIFICATION Spec
CONSTANTS
  SizeMax = 256
  Garbage = Garbage
  InitSize = 3
  Sizes = {0, 1, 2, 4}
  MaxSent = 9
  MaxErrors = 2
INVARIANTS
  NothingLost
  MemorySafeUntilFailure
PROPERTIES
  StreamSpec
CHECK_DEADLOCK FALSE
