SPECIFICATION Spec
CONSTANTS
  w1 = w1
  w2 = w2
  Requests = {w1, w2}
  Null = Null
  Ids <- MCIds
  Metadata = {"none", "unsorted"}
  Offsets = {0}
  MinGap = 1
  PageSize = 2
  Retention = 1
  MaxClock = 3
INVARIANTS IntactVerifies
CHECK_DEADLOCK FALSE
