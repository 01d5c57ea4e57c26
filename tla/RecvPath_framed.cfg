SPECIFICATION Spec
CONSTANTS
  SizeMax = 256
  Garbage = Garbage
  InitSize = 2
  Reserve = 3
  Common = 4
  RcvBuf = 9
  PkgLen = 3
  MaxBytes = 24
INVARIANTS
  NothingLost
  NoPacketWaits
  SizeBounded
PROPERTIES
  StreamSpec
CHECK_DEADLOCK FALSE
