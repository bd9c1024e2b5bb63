SPECIFICATION Spec
CONSTANTS
  Sizes = {1}
  MaxEnvelopes = 2
  MaxCrashes = 0
  Clients = {c1}
  ServerMaxBytes = 9
  ServerMaxEnvelopes = 3
  RequestLimits <- MCUnlimited
  Word = 256
CHECK_DEADLOCK FALSE
INVARIANTS DeliveredAreSent
