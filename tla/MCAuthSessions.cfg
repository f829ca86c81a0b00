SPECIFICATION Spec
CONSTANTS
  u1 = u1
  s1 = s1
  s2 = s2
  r1 = r1
  r2 = r2
  r3 = r3
  NoUser = NoUser
  NoSession = NoSession
  Users = {u1}
  Keys = {s1, s2}
  Readers = {r1, r2, r3}
  Writers = {r1, r2, r3}
  MaxRow = 4
  MaxNsver = 4
  Offered <- MCOffered
  Expiring = {s1}
INVARIANTS AuthTypeOK RevocationHolds RotationOrder LogoutCoversAll
CHECK_DEADLOCK FALSE
