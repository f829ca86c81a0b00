SPECIFICATION Spec
CONSTANTS
  w1 = w1
  w2 = w2
  w3 = w3
  Requests = {w1, w2, w3}
  Null = Null
  Ids <- MCIds
  Metadata = {"sorted", "unsorted"}
  Offsets = {0, 1}
  MinGap = 0
  PageSize = 1
  Retention = 1
  MaxClock = 3
SYMMETRY MCSymmetry
INVARIANTS TypeOK ChainFollowsTime NoFalseAlarm TamperEvident
CHECK_DEADLOCK FALSE
