SPECIFICATION Spec
CONSTANTS
  l1 = l1
  l2 = l2
  b1 = b1
  Ledgers = {l1, l2}
  Buckets = {b1}
  BucketOf <- OneBucket
  Async = {l1}
  Processes = {p1}
  Requests = {r1, r2}
  Runners = {}
  MaxBlockSize = 1
  Retention = 0
  MaxLog <- OneLog
  MaxTime = 0
CHECK_DEADLOCK FALSE
INVARIANT ReadsAreScoped
