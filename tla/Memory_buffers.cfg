SPECIFICATION Spec
CONSTANTS
  b1 = b1
  b2 = b2
  b3 = b3
  b4 = b4
  Block = {b1, b2, b3, b4}
  InitLive = {b1, b2, b3}
  Threads = 1
  SpecDepth = 2
  Writer = {0}
  Size = 2
  Buffers = 4
  Frequency = 1
  MaxAlloc = 1
  MaxTs = 4
SYMMETRY Symmetry
INVARIANT NoDangling
INVARIANT FreedOnce
INVARIANT NoLeak
INVARIANT OldestLast
CHECK_DEADLOCK FALSE
