SPECIFICATION Spec
CONSTANTS
  p1 = p1
  p2 = p2
  b1 = b1
  b2 = b2
  r1 = r1
  r2 = r2
  google = google
  github = github
  k1 = k1
  k2 = k2
  x1 = x1
  x2 = x2
  Null = Null
  Processes = {p1, p2}
  Browsers = {b1, b2}
  Requests = {r1, r2}
  Providers = {google, github}
  Kids = {k1, k2}
  Keys = {x1, x2}
  FirstKid = k1
  FirstKey = x1
  AccessLife = 2
  ShortLife = 1
  TokenBound = 2
  ClockBound = 2
SYMMETRY MCSymmetry
INVARIANTS KeysTypeOK TokensHonoured CallbackIsOwn
