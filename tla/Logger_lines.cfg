SPECIFICATION Spec
CONSTANTS
  Threads = {t1, t2, t3}
  Level = 3
  MaxLines = 2
  NoThread = none
INVARIANT LinesWhole
PROPERTY FatalIsPrinted
CHECK_DEADLOCK FALSE
