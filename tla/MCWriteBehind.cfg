CONSTANTS
  t1 = t1
  t2 = t2
  k1 = k1
  k2 = k2
  None = None
  Threads = {t1, t2}
  Keys = {k1, k2}
  MaxOrders = 2
  Qty <- MCQty
  MaxTrades = 1
  MaxRevs <- MCMaxRevs
  MaxFailures = 1
  OrderCap = 2
  MaxOthers <- MCMaxOthers
  TradeCap = 1
  BatchMax = 2
SPECIFICATION Spec
INVARIANTS
  TypeOK
  NothingForgotten
  SingleWriterIsExact
  IndexedTradesAreStored
PROPERTIES
  ImplementsDurableStore
CHECK_DEADLOCK FALSE
