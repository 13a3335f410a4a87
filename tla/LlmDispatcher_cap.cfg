SPECIFICATION Spec
CONSTANTS
  a1 = a1
  a2 = a2
  b1 = b1
  b2 = b2
  alice = alice
  bob = bob
  Calls = {a1, a2, b1, b2}
  Users = {alice, bob}
  UserOf <- MCUserOf
  PriorityOf <- MCPriorityOf
  Limits = {1}
PROPERTY CapRespected
