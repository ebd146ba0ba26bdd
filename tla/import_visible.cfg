\* A refresh of a store without a timezone.
SPECIFICATION Spec
CONSTANTS
  r1 = r1 r2 = r2 r3 = r3
  k1 = k1 k2 = k2 k3 = k3
  s1 = s1 s2 = s2 o1 = o1 o2 = o2 a = a b = b
  None = None NoDate = NoDate
  Requests = {r1, r2}
  Keys = {k1, k2}
  Stores = {s1}
  OrderIds = {o1, o2}
  Skus = {a, b}
  Bodies <- OutcomeBodies
  Scopes <- WholeScope
  TimeZones <- UtcOnly
  Boundaries <- FirstDayOrNever
  Settings <- AnyStores
  MaxNow = 0
INVARIANTS FailedRefreshIsVisible
CHECK_DEADLOCK FALSE
