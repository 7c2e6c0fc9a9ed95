CONSTANTS
  a = a
  b = b
  c = c
  alice = alice
  bob = bob
  None = None
  Clients = {a, b, c}
  Users = {alice, bob}
  MaxConnections = 2
  MaxLogins <- MCMaxLogins
SPECIFICATION Spec
INVARIANT OneSessionPerUser
CHECK_DEADLOCK FALSE
