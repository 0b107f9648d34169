SPECIFICATION Spec
CONSTANTS
  RingSize = 2
  SubBuf = 1
  PipeCap = 1
  Buf = 1
  Slots = {a1, a2}
  MaxStale = 1
  MaxSeq = 3
  MaxOdd = 1
  MaxDrops = 1
INVARIANTS
  TypeOK
  NeverBlocks
  Gapless
PROPERTIES
  ReadsInOrder
SYMMETRY ForwarderSymmetry
CHECK_DEADLOCK FALSE
