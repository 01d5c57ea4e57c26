SPECIFICATION Spec
CONSTANTS
  SizeMax = 256
  Garbage = Garbage
  InitSize = 3
  Sizes = {1, 2, 4}
  MaxSent = 9
  MaxErrors = 0
INVARIANTS
  WireIntact
CHECK_DEADLOCK FALSE
