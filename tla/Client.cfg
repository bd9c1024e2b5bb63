SPECIFICATION FairSpec
CONSTANTS
  Dispatched = {p1, p2}
  Dropped = {b1}
  Subscribes = {s1}
  Timed = {p1, s1}
  Ttls = {0, 30}
  RenewalOffset = 5000
  Word = 65536
  MaxDepth = 3
CHECK_DEADLOCK FALSE
INVARIANTS TypeOK TrueMeansFilled NoUnknownAnswer
PROPERTIES GivesUpEmptyHanded CallsReturn
