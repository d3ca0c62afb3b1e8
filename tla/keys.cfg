CONSTANTS
  r1 = r1
  r2 = r2
  r3 = r3
  r4 = r4
  r5 = r5
  Requests = {r1, r2, r3}
  Accounts <- AssetsAccounts
  AddressOf <- AssetsAddresses
  World = "world"
  None = None
  Unbounded = Unbounded
  Cmd <- KeyCmd
  Genesis <- KeyGenesis
  HashLogs = FALSE
  PoolSize = 5
  MaxId = 8
  MaxResends = 1
SPECIFICATION Spec
INVARIANTS IdempotencyKeyUnique KeyConflictHasLog
PROPERTIES Serializable
