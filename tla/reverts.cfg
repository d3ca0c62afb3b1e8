CONSTANTS
  r1 = r1
  r2 = r2
  r3 = r3
  r4 = r4
  r5 = r5
  Requests = {r1, r2, r3, r4, r5}
  Accounts <- AssetsAccounts
  AddressOf <- AssetsAddresses
  World = "world"
  None = None
  Unbounded = Unbounded
  Cmd <- RevertCmd
  Genesis <- RevertGenesis
  HashLogs = TRUE
  PoolSize = 6
  MaxId = 8
  MaxResends = 0
SPECIFICATION Spec
INVARIANTS RevertedOnce LocksAreFresh ReferenceUnique LogChain
PROPERTIES Serializable
