SPECIFICATION Spec
CONSTANTS
  u1 = u1
  u2 = u2
  r1 = r1
  r2 = r2
  r3 = r3
  Null = Null
  Users = {u1, u2}
  Requests = {r1, r2, r3}
  Offered = {"transfer", "remove", "setRole", "invite", "accept", "revoke", "delete"}
  Granted = {"Admin"}
SYMMETRY MCSymmetry
INVARIANTS OwnerStays
CHECK_DEADLOCK FALSE
