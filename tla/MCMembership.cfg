SPECIFICATION Spec
CONSTANTS
  u1 = u1
  u2 = u2
  u3 = u3
  r1 = r1
  r2 = r2
  r3 = r3
  Null = Null
  Users = {u1, u2, u3}
  Requests = {r1, r2, r3}
  Offered = {"transfer", "remove", "setRole", "invite", "accept", "revoke", "delete"}
  Granted = {"Admin"}
SYMMETRY MCSymmetry
INVARIANTS TypeOK OwnerHolds SpentInvitation
PROPERTIES RemovedStaysOut
CHECK_DEADLOCK FALSE
