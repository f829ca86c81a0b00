SPECIFICATION Spec
CONSTANTS
  r1 = r1
  r2 = r2
  x1 = x1
  x2 = x2
  g1 = g1
  g2 = g2
  c1 = c1
  Null = Null
  Feature = Feature
  Requests = {r1, r2}
  Roles = {x1, x2}
  Global = {g1}
  Custom = {c1}
  Ttl = 2
  WriteBound = 2
  ClockBound = 6
  Offers <- MCOffers
SYMMETRY MCSymmetry
INVARIANTS RbacTypeOK WithdrawnStays RoleIsItsList AssignKeeps AdminRecovers
