\* Three requests, two keys, one store registered before and two ids to come.
SPECIFICATION Spec
CONSTANTS
  r1 = r1 r2 = r2 r3 = r3
  k1 = k1 k2 = k2
  s1 = s1 s2 = s2 s3 = s3 w1 = w1 w2 = w2 v1 = v1 v2 = v2
  None = None
  Requests = {r1, r2, r3}
  Keys = {k1, k2}
  StoreIds = {s1, s2, s3}
  Registered = {s1}
  WalmartKeys = {w1, w2}
  Values = {v1, v2}
  Scopes <- NoScope
  Calls <- MixedCalls
SYMMETRY Symmetry
INVARIANTS TypeOK StoresAreRecorded BeforeWasReal AnswersMatchLedger
PROPERTIES RegistryIsAtomic
CHECK_DEADLOCK FALSE
