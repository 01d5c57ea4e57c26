SPECIFICATION FdSpec
CONSTANTS
  Workers = {w1, w2}
  MaxFd = 5
INVARIANTS OneOwner NeverZero
CHECK_DEADLOCK FALSE
