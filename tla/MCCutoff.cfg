SPECIFICATION AccountSpec
CONSTANTS
  r1 = r1
  r2 = r2
  r3 = r3
  s1 = s1
  s2 = s2
  b1 = b1
  b2 = b2
  Null = Null
  i1 = i1
  i2 = i2
  Identities = {i1, i2}
  Requests = {r1, r2, r3}
  Secrets = {s1, s2}
  Batches = {b1, b2}
  Offers <- CutoffOffers
  VisibleBound = 3
  MaxFailed = 3
  FailedBound = 4
  CrashBound = 1
  HistorySize = 2
  PasswordBound = 3
  TokenBound = 2
  ClockBound = 3
SYMMETRY MCSymmetry
INVARIANTS NewLoginWorks
