SPECIFICATION FairSpec
CONSTANTS
  w1 = w1
  w2 = w2
  Requests = {w1, w2}
  Null = Null
  Ids <- MCIds
  Metadata = {"none"}
  Offsets = {0}
  MinGap = 1
  PageSize = 2
  Retention = 1
  MaxClock = 2
PROPERTIES AuditSettles
CHECK_DEADLOCK FALSE
