\* Two imports, of one store or of two under one key, beside a viewer who
\* asks for pages again and again, under fairness.
SPECIFICATION FairScreenSpec
CONSTANTS
  r1 = r1 r2 = r2 k1 = k1 k2 = k2
  s1 = s1 s2 = s2 o1 = o1 o2 = o2 a = a b = b v1 = v1
  None = None NoDate = NoDate
  Requests = {r1, r2}
  Keys = {k1, k2}
  Stores = {s1, s2}
  OrderIds = {o1, o2}
  Skus = {a, b}
  Bodies <- ScreenBodies
  Scopes <- AllScope
  TimeZones <- UtcOnly
  Boundaries <- FirstDay
  Settings <- ReadyStores
  Viewers = {v1}
  ViewScope <- OneStore
  MaxNow = 1
CONSTRAINT SentInOrder
INVARIANTS AnswersAreDurable PageIsCoherent FreshnessCoversItsRuns
PROPERTIES EveryCallEnds
CHECK_DEADLOCK FALSE
