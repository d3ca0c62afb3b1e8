------------------------------ MODULE MCBuckets -------------------------------
EXTENDS Buckets

CONSTANTS l1, l2, b1

OneBucket == [l \in Ledgers |-> b1]
LogsOfFirst == [l \in Ledgers |-> IF l = l1 THEN 2 ELSE 0]
OneLog == [l \in Ledgers |-> 1]
=============================================================================
