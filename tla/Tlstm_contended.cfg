SPECIFICATION Spec
CONSTANTS
  p1 = p1
  p2 = p2
  x = x
  y = y
  z = z
  w = w
  NULL = NULL
  Thread = {p1, p2}
  Addr = {x, y}
  Stripe = {x, y}
  StripeOf <- OneToOne
  SpecDepth = 2
  Code <- Contended
  CmAccessThreshold = 1
  LogSize = 2
  MaxTs = 4
INVARIANT NoAbortDeadlock
CHECK_DEADLOCK FALSE
