SPECIFICATION FairSpec
CONSTANTS
  l1 = l1
  l2 = l2
  b1 = b1
  Ledgers = {l1, l2}
  Buckets = {b1}
  BucketOf <- OneBucket
  Async = {l1}
  Processes = {p1}
  Requests = {r1}
  Runners = {x1, x2}
  MaxBlockSize = 1
  Retention = 0
  MaxLog <- LogsOfFirst
  MaxTime = 1
CHECK_DEADLOCK FALSE
INVARIANTS RowsHaveSchema BlocksAreAChain
PROPERTY EveryLogInABlock
