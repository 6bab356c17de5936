SPECIFICATION Spec
CONSTANTS
  p1 = p1
  p2 = p2
  x = x
  y = y
  z = z
  w = w
  NULL = NULL
  NThreads = 2
  Addr = {x, y, z}
  Stripe = {x, y, z}
  StripeOf <- OneToOne
  Code <- Late
  CmAccessThreshold = 9
  MAXIMUM_TS = 4
  UnsignedSize = 100
  MaxEpochs = 1
INVARIANT SerialCommits
CHECK_DEADLOCK FALSE
