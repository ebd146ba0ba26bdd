\* Three requests under three keys.
SPECIFICATION Spec
CONSTANTS
  r1 = r1 r2 = r2 r3 = r3
  k1 = k1 k2 = k2 k3 = k3
  u1 = u1 u2 = u2 s1 = s1 s2 = s2
  None = None
  Requests = {r1, r2, r3}
  Keys = {k1, k2, k3}
  UserIds = {u1, u2}
  StoreIds = {s1, s2}
  KnownUsers = {u1}
  KnownStores = {s1}
  Roles = {"owner", "admin"}
SYMMETRY Symmetry
INVARIANTS TypeOK AccessIsRecorded AnswersMatchLedger
PROPERTIES AccessIsAtomic
CHECK_DEADLOCK FALSE
