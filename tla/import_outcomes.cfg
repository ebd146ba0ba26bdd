\* Every outcome of a run, on a store that is ready, inactive or not
\* configured, while the clock advances and the store is reconfigured.
SPECIFICATION Spec
CONSTANTS
  r1 = r1 r2 = r2 r3 = r3
  k1 = k1 k2 = k2 k3 = k3
  s1 = s1 s2 = s2 o1 = o1 o2 = o2 a = a b = b
  None = None NoDate = NoDate
  Requests = {r1, r2}
  Keys = {k1, k2}
  Stores = {s1}
  OrderIds = {o1, o2}
  Skus = {a, b}
  Bodies <- OutcomeBodies
  Scopes <- SomeOrNone
  TimeZones <- UtcOnly
  Boundaries <- FirstDayOrNever
  Settings <- AnyStores
  MaxNow = 1
SYMMETRY CallSymmetry
CONSTRAINT OneChange
INVARIANTS TypeOK RunsBalance OutOfScopeIsNotFound ViewMatchesLedger
PROPERTIES CommittedIsKept LatestRunShows
CHECK_DEADLOCK FALSE
