SPECIFICATION TimelySpec
CONSTANTS
  RingSize = 2
  SubBuf = 1
  PipeCap = 1
  Buf = 1
  Slots = {1, 2}
  MaxStale = 1
  MaxSeq = 2
  MaxOdd = 1
  MaxDrops = 1
PROPERTIES
  EventArrives
  EndsWhenClosed
CHECK_DEADLOCK FALSE
