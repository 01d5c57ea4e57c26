SPECIFICATION LoopSpec
CONSTANTS
  Worker = w
  Others = {p}
  Sources = {s, u}
  Awakener = awakener
  QueueLen = 2
  MaxPosts = 3
 
PROPERTIES PostReturns EventsServed
CHECK_DEADLOCK FALSE
