SPECIFICATION FairSpec
CONSTANTS
  Sizes = {1, 2}
  MaxEnvelopes = 3
  MaxCrashes = 1
  Clients = {c1}
  ServerMaxBytes = 9
  ServerMaxEnvelopes = 3
  RequestLimits <- MCLimits
  Word = 256
CHECK_DEADLOCK FALSE
INVARIANTS TypeOK GaplessFetch FetchedIsOnDisk SegmentBudget
PROPERTIES RequestAnswered ImplementsLog
