SPECIFICATION Spec
CONSTANTS
  b1 = b1
  b2 = b2
  b3 = b3
  b4 = b4
  Block = {b1, b2}
  InitLive = {b1, b2}
  Threads = 2
  SpecDepth = 1
  Writer = {0, 1}
  Size = 1
  Buffers = 4
  Frequency = 1
  MaxAlloc = 0
  MaxTs = 4
SYMMETRY Symmetry
INVARIANT NoDangling
 
CHECK_DEADLOCK FALSE
