CONSTANTS
  desk = desk
  alice = alice
  bob = bob
  sym = sym
  other = other
  c1 = c1
  c2 = c2
  c3 = c3
  None = None
  Threads = {desk}
  Users = {alice, bob}
  Symbols = {sym, other}
  ClOrdIDs = {c1, c2, c3}
  Prices = {1, 2}
  MaxQty = 3
  MaxOrders = 5
  MaxRequests <- MCMaxRequests
  Requests <- MCRequests
SPECIFICATION Spec
INVARIANTS
  TypeOK
  Uncrossed
  OpenOrdersRest
  OpenOrdersAreFound
  NoInternalError
PROPERTIES
  PriorityRespected
  TerminalIsFinal
