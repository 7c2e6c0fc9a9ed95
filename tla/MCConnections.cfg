CONSTANTS
  a = a
  b = b
  c = c
  alice = alice
  bob = bob
  None = None
  Clients = {a, b, c}
  Users = {alice, bob}
  MaxConnections = 2
  MaxLogins <- MCMaxLogins
SPECIFICATION Spec
INVARIANTS
  TypeOK
  RegistryIsLive
  OrdersAreSignedIn
  NamesAreReleased
  ExecutionsReachTheUser
PROPERTIES
  ConnectionsEnd
CHECK_DEADLOCK FALSE
