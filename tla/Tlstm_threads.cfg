SPECIFICATION Spec
CONSTANTS
  p1 = p1
  p2 = p2
  x = x
  y = y
  z = z
  w = w
  NULL = NULL
  Thread = {p1, p2}
  Addr = {x}
  Stripe = {x}
  StripeOf <- OneToOne
  SpecDepth = 2
  Code <- Stacked
  CmAccessThreshold = 0
  LogSize = 1
  MaxTs = 4
INVARIANT TypeOK
INVARIANT LockChains
INVARIANT ReadLocksHeld
INVARIANT WorkIsAhead
INVARIANT InOrder
INVARIANT OneInTurn
INVARIANT SignalsAreAwaited
INVARIANT Serializable
CHECK_DEADLOCK FALSE
