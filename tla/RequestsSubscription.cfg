SPECIFICATION Spec
CONSTANTS
  r1 = r1
  r2 = r2
  r3 = r3
  c1 = c1
  c2 = c2
  Requests <- MCRequests
  Clients = {c1, c2}
  ClientOf <- MCClientOf
  KindsOf <- MCSubscribing
  Workers = {w1, w2}
  Reactors = {x1, x2}
CHECK_DEADLOCK FALSE
INVARIANTS SubscriptionsProcessed
