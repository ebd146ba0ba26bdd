\* Three saves under two keys, and imports that change what they read.
SPECIFICATION Spec
CONSTANTS
  r1 = r1 r2 = r2 r3 = r3
  k1 = k1 k2 = k2 k3 = k3
  o1 = o1 o2 = o2 s1 = s1
  None = None Malformed = Malformed
  Requests = {r1, r2, r3}
  Keys = {k1, k2, k3}
  Orders = {o1, o2}
  Stores = {s1}
  StoreOf <- OneStore
  Figures <- TwoFigures
  OrdersAtStart <- FirstOrder
  Imports <- OrdersSent
  Calls <- MixedCalls
  ContextDigits = 4
  MostDigits = 8
  ColumnLimit = 300000
  Amounts <- BothSigns
  Sums <- SmallSums
SYMMETRY Symmetry
INVARIANTS TypeOK ProfileIsLastSave FiguresBelongTogether AnswersMatchLedger MoneyLaws
PROPERTIES CostsMoveWithTheirEvents
CHECK_DEADLOCK FALSE
