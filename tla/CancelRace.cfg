CONSTANTS
  tcp = tcp
  rest = rest
  alice = alice
  bob = bob
  sym = sym
  c1 = c1
  c2 = c2
  None = None
  Threads = {tcp, rest}
  Users = {alice, bob}
  Symbols = {sym}
  ClOrdIDs = {c1, c2}
  Prices = {1, 2}
  MaxQty = 2
  MaxOrders = 5
  MaxRequests <- MCMaxRequests
  Requests <- RaceRequests
SPECIFICATION FairSpec
PROPERTIES
  TerminalIsFinal
