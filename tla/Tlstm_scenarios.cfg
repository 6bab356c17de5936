SPECIFICATION SpecOne
CONSTANTS
  p1 = p1
  p2 = p2
  x = x
  y = y
  z = z
  w = w
  NULL = NULL
  MaxTs = 4
  NThreads = 3
  Addr = {x, y, z}
  Stripe = {"xy", "z"}
  StripeOf <- Shared
  Code <- Conflicting
  CmAccessThreshold = 0
  MAXIMUM_TS = 9
  UnsignedSize = 100
  MaxEpochs = 0
INVARIANTS StacksHold OutcomeIsSerial ReadersGoOn
INVARIANTS TypeOK Opacity SerialCommits NothingLost ReadLocksOwned LocksLogged QuietRestart
PROPERTIES TasksInOrder EveryoneCommits
CHECK_DEADLOCK FALSE
