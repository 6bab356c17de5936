SPECIFICATION Spec
CONSTANTS
  p1 = p1
  p2 = p2
  x = x
  y = y
  z = z
  w = w
  NULL = NULL
  Thread = {p1}
  Addr = {x, y}
  Stripe = {x, y}
  StripeOf <- OneToOne
  SpecDepth = 3
  Code <- Conditional
  CmAccessThreshold = 1
  LogSize = 2
  MaxTs = 4
PROPERTY Atomicity
CHECK_DEADLOCK FALSE
