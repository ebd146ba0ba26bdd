\* Three runners, each with any of five checkouts.
SPECIFICATION Spec
CONSTANTS
  r1 = r1 r2 = r2 r3 = r3
  base = base base2 = base2 fill = fill orders = orders imports = imports txn = txn
  stores = stores order_rows = order_rows batches = batches
  Runners = {r1, r2, r3}
  Names = {1, 2, 3}
  Texts = {base, base2, fill, orders, imports, txn}
  Objects = {stores, order_rows, batches}
  Script <- Scripts
  Controls = {txn}
  Checkouts <- Releases
  None = None
INVARIANTS TypeOK EffectsMatchTracking DoneMeansCurrent RefusedForCause
PROPERTIES RunIsAtomic EveryRunnerEnds
CHECK_DEADLOCK FALSE
