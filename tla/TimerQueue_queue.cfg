SPECIFICATION Spec
CONSTANTS
  Timers = {1, 2, 3}
  Stamps = {0, 4}
  Kilo = 2
  MinDelay = 1
  MaxNow = 5
INVARIANT MisuseTakesAConstructor
PROPERTY NeverWokenEarly
CHECK_DEADLOCK FALSE
