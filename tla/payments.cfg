SPECIFICATION Spec
CONSTANTS
  o1 = o1
  a1 = a1
  a2 = a2
  h1 = h1
  h2 = h2
  w1 = w1
  w2 = w2
  v1 = v1
  v2 = v2
  Orders = {o1}
  Attempts <- MCAttempts
  OrderOf <- MCOrderOf
  Hooks = {h1, h2}
  Workers = {w1, w2}
  Writers = {v1, v2}
  References <- MCReferences
  MaxLag = 2
  Scenarios <- MCScenarios
SYMMETRY Symmetry
INVARIANTS
  TypeOK
  LedgerMirrorsProvider
  NoLostPosting
  OrderFollowsAttempts
  MatchedIsReal
CHECK_DEADLOCK FALSE
