SPECIFICATION Spec
CONSTANTS
  NThreads = 2
  SpecDepth = 2
  Stripes = 2
  Txs = 2
  MAXIMUM_TS = 3
  NULL = NULL
PROPERTY RestartEnds
CHECK_DEADLOCK FALSE
