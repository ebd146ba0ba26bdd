\* An order imported, its store moved to another zone, the order refreshed.
SPECIFICATION Spec
CONSTANTS
  r1 = r1 r2 = r2 r3 = r3
  k1 = k1 k2 = k2 k3 = k3
  s1 = s1 s2 = s2 o1 = o1 o2 = o2 a = a b = b
  None = None NoDate = NoDate
  Requests = {r1, r2}
  Keys = {k1, k2, k3}
  Stores = {s1}
  OrderIds = {o1, o2}
  Skus = {a, b}
  Bodies <- OneBody
  Scopes <- WholeScope
  TimeZones <- ZonesUsed
  Boundaries <- FirstDay
  Settings <- ReadyStores
  MaxNow = 0
PROPERTIES DatesStayAssigned
CHECK_DEADLOCK FALSE
