SPECIFICATION Spec
CONSTANTS
  b1 = b1
  b2 = b2
  b3 = b3
  b4 = b4
  Block = {b1, b2, b3}
  InitLive = {}
  Threads = 1
  SpecDepth = 1
  Writer = {0}
  Size = 2
  Buffers = 4
  Frequency = 1
  MaxAlloc = 3
  MaxTs = 4
SYMMETRY Symmetry
INVARIANT NoDangling
CHECK_DEADLOCK FALSE
