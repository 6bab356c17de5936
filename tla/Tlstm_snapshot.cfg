SPECIFICATION Spec
CONSTANTS
  p1 = p1
  p2 = p2
  x = x
  y = y
  z = z
  w = w
  NULL = NULL
  Thread = {p1, p2}
  Addr = {x, y, z, w}
  Stripe = {x, y, z, w}
  StripeOf <- OneToOne
  SpecDepth = 2
  Code <- Snapshot
  CmAccessThreshold = 1
  LogSize = 2
  MaxTs = 4
INVARIANT Serializable
CHECK_DEADLOCK FALSE
