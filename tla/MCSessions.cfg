CONSTANTS
  t1 = t1
  t2 = t2
  alice = alice
  bob = bob
  sym = sym
  c1 = c1
  c2 = c2
  c3 = c3
  None = None
  Threads = {t1, t2}
  Users = {alice, bob}
  Symbols = {sym}
  ClOrdIDs = {c1, c2, c3}
  Prices = {1, 2}
  MaxQty = 2
  MaxOrders = 5
  MaxRequests <- MCMaxRequests
  Requests <- MCRequests
SPECIFICATION FairSpec
INVARIANTS
  EngineInvariant
  MonitorDiscipline
  BookWellFormed
  RestingIsOpen
PROPERTIES
  LimitRespected
  ImplementsLedger
  EveryRequestAnswered
