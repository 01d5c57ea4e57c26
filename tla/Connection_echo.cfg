SPECIFICATION Spec
CONSTANTS
  PkgLen = 2
  Packets = {1, 2, 3}
  MaxAsked = 10
INVARIANTS EndLosesOnlyPending KilledByUnanswered
PROPERTIES WaitsOnlyForPending GoesWithClient
CHECK_DEADLOCK FALSE
