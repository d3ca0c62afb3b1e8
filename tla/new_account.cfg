CONSTANTS
  r1 = r1
  r2 = r2
  r3 = r3
  r4 = r4
  r5 = r5
  Requests = {r1, r2}
  Accounts <- MCAccounts
  AddressOf <- MCAddressOf
  World = "world"
  None = None
  Unbounded = Unbounded
  Cmd <- NewAccountCmd
  Genesis <- NoGenesis
  HashLogs = FALSE
  PoolSize = 5
  MaxId = 8
  MaxResends = 0
SPECIFICATION Spec
INVARIANTS OverdraftBound
