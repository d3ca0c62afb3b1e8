CONSTANTS
  Accounts = {1, 2, 3}
  AddressOf <- MCAddressOf
  World = "world"
  MaxPostings = 3
  MaxAmount = 2
  MaxBalance = 1
SPECIFICATION Spec
INVARIANTS MovesFollowPostings ExecutableBounds ReverseUndoes
CHECK_DEADLOCK FALSE
