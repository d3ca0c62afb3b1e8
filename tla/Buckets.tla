------------------------------- MODULE Buckets --------------------------------
(***************************************************************************)
(* Ledgers that share a bucket, that is a schema of the database: their    *)
(* creation and opening (storage/driver, storage/ledger/factory.go), the   *)
(* reads scoped to one of them, the deletion and restoration of a bucket   *)
(* (storage/system/store.go), the worker that drops deleted buckets and    *)
(* the workers that cut the logs of a ledger into blocks.                  *)
(*                                                                         *)
(* CreateLedger and create_blocks are transactions whose rows nobody else  *)
(* sees before they end, and each statement of theirs has its own          *)
(* snapshot.  Dropping a schema waits for every transaction that has used  *)
(* a table of it.                                                          *)
(***************************************************************************)
EXTENDS Naturals, FiniteSets, FiniteSetsExt

CONSTANTS
  Ledgers, Buckets,
  BucketOf,      \* [Ledgers -> Buckets], the bucket a ledger is created in
  Async,         \* ledgers created with HASH_LOGS = ASYNC
  Processes,     \* servers: each has its own factory
  Requests,      \* requests under way
  Runners,       \* worker processes running AsyncBlockRunner
  MaxBlockSize,
  Retention,     \* RetentionPeriod
  MaxLog,        \* bound: [Ledgers -> Nat], the log ids of each ledger
  MaxTime        \* bound: the clock

ASSUME BucketsAssumption ==
  /\ BucketOf \in [Ledgers -> Buckets]
  /\ Async \subseteq Ledgers
  /\ MaxBlockSize \in Nat \ {0}
  /\ MaxLog \in [Ledgers -> Nat]
  /\ Retention \in Nat /\ MaxTime \in Nat

VARIABLES
  now,      \* the clock
  row,      \* _system.ledgers, committed: [st, at]; at: deleted_at
  schema,   \* the buckets whose schema exists
  next,     \* the sequence of log ids of each ledger
  pending,  \* ids drawn by transactions that have not ended
  logs,     \* ids of the committed logs
  flag,     \* [Processes -> [Buckets -> BOOLEAN]], DefaultFactory.bucketFlags
  req,      \* the requests: [pc, l, p, alone, seen]
  blocks,   \* logs_blocks, committed: [l, id, previous, from, to, logs]
  serial,   \* the sequence of block ids of each bucket
  runner,   \* the runners: [pc, todo, l, last, previous, new]
  cleanup   \* the buckets the cleanup worker has listed and not dealt with

vars == <<now, row, schema, next, pending, logs, flag, req, blocks, serial, runner, cleanup>>
requestVars == <<flag, req>>
blockVars == <<blocks, serial, runner>>
ledgerVars == <<next, pending, logs>>

In(b) == {l \in Ledgers : BucketOf[l] = b}
NoRow == [st |-> "none", at |-> 0]
Live == [st |-> "live", at |-> 0]
Idle == [pc |-> "idle", l |-> "none", p |-> "none", alone |-> FALSE, seen |-> {}]
NoRun == [pc |-> "off", todo |-> {}, l |-> "none", last |-> 0, previous |-> 0, new |-> {}]

(* CountLedgersInBucket, over the rows seen: those deleted count too. *)
Count(b, rows) == Cardinality({l \in In(b) : rows[l].st # "none"})

-----------------------------------------------------------------------------
(* CreateLedger: one transaction, statement by statement.  The flag of the *)
(* bucket is set before the commit.                                        *)

(* Creations that have inserted their row, and those that have read or     *)
(* made tables of the schema.                                              *)
Inserted == {"inserted", "tallied", "created"}
Creating(L) == \E r \in Requests : req[r].pc \in {"initialized"} \union Inserted /\ req[r].l \in L

(* IsInitialized, and IsUpToDate of a schema that exists. *)
CheckBucket(r, p, l) ==
  /\ req[r].pc = "idle"
  /\ req' = [req EXCEPT ![r] = [Idle EXCEPT !.l = l, !.p = p,
                      !.pc = IF BucketOf[l] \in schema THEN "initialized" ELSE "uninitialized"]]
  /\ UNCHANGED <<now, row, schema, ledgerVars, flag, blockVars, cleanup>>

(* Migrate waits for a transaction that is making the schema, and finds    *)
(* nothing left to do, or fails, when that has made it.                    *)
Migrate(r) ==
  LET b == BucketOf[req[r].l] IN
  /\ req[r].pc = "uninitialized"
  /\ b \in schema \/ ~Creating(In(b))
  /\ req' = [req EXCEPT ![r].pc = "initialized"]
  /\ UNCHANGED <<now, row, schema, ledgerVars, flag, blockVars, cleanup>>

(* The insertion of the row waits for another one of the same name; then   *)
(* AddLedger.                                                              *)
InsertLedger(r) ==
  /\ req[r].pc = "initialized"
  /\ row[req[r].l].st = "none"
  /\ \A s \in Requests : req[s].pc \in Inserted => req[s].l # req[r].l
  /\ req' = [req EXCEPT ![r].pc = "inserted"]
  /\ UNCHANGED <<now, row, schema, ledgerVars, flag, blockVars, cleanup>>

(* CountLedgersInBucket sees what is committed by then, and the new row.   *)
CountWithNew(r) ==
  LET l == req[r].l IN
  /\ req[r].pc = "inserted"
  /\ req' = [req EXCEPT ![r].pc = "tallied",
                        ![r].alone = Count(BucketOf[l], [row EXCEPT ![l] = Live]) = 1]
  /\ UNCHANGED <<now, row, schema, ledgerVars, flag, blockVars, cleanup>>

(* SetAloneInBucket, of CreateLedger and of OpenLedger. *)
SetAloneInBucket(r) ==
  /\ req[r].pc \in {"tallied", "counted"}
  /\ flag' = [flag EXCEPT ![req[r].p][BucketOf[req[r].l]] = req[r].alone]
  /\ req' = [req EXCEPT ![r].pc = IF @ = "tallied" THEN "created" ELSE "open"]
  /\ UNCHANGED <<now, row, schema, ledgerVars, blockVars, cleanup>>

CommitLedger(r) ==
  LET l == req[r].l IN
  /\ req[r].pc = "created"
  /\ row' = [row EXCEPT ![l] = Live]
  /\ schema' = schema \union {BucketOf[l]}
  /\ next' = [next EXCEPT ![l] = 1]
  /\ req' = [req EXCEPT ![r] = Idle]
  /\ UNCHANGED <<now, pending, logs, flag, blockVars, cleanup>>

(* The transaction fails: the bucket is outdated, the name is taken, or a  *)
(* statement fails.  The flag stays.                                       *)
AbortLedger(r) ==
  /\ req[r].pc \in {"uninitialized", "initialized"} \union Inserted
  /\ req' = [req EXCEPT ![r] = Idle]
  /\ UNCHANGED <<now, row, schema, ledgerVars, flag, blockVars, cleanup>>

-----------------------------------------------------------------------------
(* A request that reads: OpenLedger gets the row, counts the ledgers and   *)
(* sets the flag of the bucket in its process, in three steps; the query   *)
(* is then built from the flag as it is by then.                           *)

GetLedger(r, p, l) ==
  /\ req[r].pc = "idle"
  /\ row[l].st = "live"
  /\ req' = [req EXCEPT ![r] = [Idle EXCEPT !.pc = "got", !.l = l, !.p = p]]
  /\ UNCHANGED <<now, row, schema, ledgerVars, flag, blockVars, cleanup>>

CountLedgers(r) ==
  /\ req[r].pc = "got"
  /\ req' = [req EXCEPT ![r].pc = "counted", ![r].alone = Count(BucketOf[req[r].l], row) = 1]
  /\ UNCHANGED <<now, row, schema, ledgerVars, flag, blockVars, cleanup>>

(* newScopedSelect: the ledgers whose logs a read returns. *)
ScopedSelect(p, l) ==
  LET b == BucketOf[l] IN
  {k \in IF flag[p][b] THEN In(b) ELSE {l} : b \in schema /\ logs[k] # {}}

Read(r) ==
  /\ req[r].pc = "open"
  /\ req' = [req EXCEPT ![r].pc = "answered", ![r].seen = ScopedSelect(req[r].p, req[r].l)]
  /\ UNCHANGED <<now, row, schema, ledgerVars, flag, blockVars, cleanup>>

EndRequest(r) ==
  /\ req[r].pc = "answered"
  /\ req' = [req EXCEPT ![r] = Idle]
  /\ UNCHANGED <<now, row, schema, ledgerVars, flag, blockVars, cleanup>>

-----------------------------------------------------------------------------
(* A request that writes to the ledger it has opened, which may have been  *)
(* deleted since: its transaction draws an id, and commits or not, in any  *)
(* order with the others.                                                  *)

DrawId(r) ==
  LET l == req[r].l IN
  /\ req[r].pc = "open"
  /\ row[l].st # "none"
  /\ next[l] <= MaxLog[l]
  /\ next' = [next EXCEPT ![l] = @ + 1]
  /\ pending' = [pending EXCEPT ![l] = @ \union {next[l]}]
  /\ req' = [req EXCEPT ![r] = Idle]
  /\ UNCHANGED <<now, row, schema, logs, flag, blockVars, cleanup>>

EndWrite(l, i) ==
  /\ i \in pending[l]
  /\ pending' = [pending EXCEPT ![l] = @ \ {i}]
  /\ \/ logs' = [logs EXCEPT ![l] = @ \union {i}]
     \/ UNCHANGED logs
  /\ UNCHANGED <<now, row, schema, next, requestVars, blockVars, cleanup>>

-----------------------------------------------------------------------------
(* Deletion of buckets. *)

Tick ==
  /\ now < MaxTime
  /\ now' = now + 1
  /\ UNCHANGED <<row, schema, ledgerVars, requestVars, blockVars, cleanup>>

DeleteBucket(b) ==
  /\ row' = [l \in Ledgers |-> IF l \in In(b) /\ row[l].st = "live"
                               THEN [st |-> "deleted", at |-> now] ELSE row[l]]
  /\ UNCHANGED <<now, schema, ledgerVars, requestVars, blockVars, cleanup>>

RestoreBucket(b) ==
  /\ row' = [l \in Ledgers |-> IF l \in In(b) /\ row[l].st = "deleted" THEN Live ELSE row[l]]
  /\ UNCHANGED <<now, schema, ledgerVars, requestVars, blockVars, cleanup>>

(* GetDeletedBucketsOlderThan the cutoff. *)
Expired == {b \in Buckets : \E l \in In(b) : row[l].st = "deleted" /\ row[l].at + Retention < now}

(* run of the cleanup worker: the list, then one bucket after the other. *)
ListExpired ==
  /\ cleanup = {}
  /\ Expired # {}
  /\ cleanup' = Expired
  /\ UNCHANGED <<now, row, schema, ledgerVars, requestVars, blockVars>>

InUse(b) ==
  \/ \E l \in In(b) : pending[l] # {}
  \/ Creating(In(b))
  \/ \E x \in Runners : runner[x].pc = "cutting" /\ BucketOf[runner[x].l] = b

(* Faulty: only the rows that are marked deleted are removed. *)
DroppedRowsDeleted(b) == {l \in In(b) : row[l].st = "deleted"}

DroppedRows(b) == In(b)

HardDeleteBucket(b) ==
  /\ b \in cleanup
  /\ ~InUse(b)
  /\ cleanup' = cleanup \ {b}
  /\ schema' = schema \ {b}
  /\ row' = [l \in Ledgers |-> IF l \in DroppedRows(b) THEN NoRow ELSE row[l]]
  /\ logs' = [l \in Ledgers |-> IF l \in In(b) THEN {} ELSE logs[l]]
  /\ next' = [l \in Ledgers |-> IF l \in In(b) THEN 1 ELSE next[l]]
  /\ blocks' = {k \in blocks : k.l \notin In(b)}
  /\ serial' = [serial EXCEPT ![b] = 1]
  /\ UNCHANGED <<now, pending, requestVars, runner>>

HardDeleteFails(b) ==
  /\ b \in cleanup
  /\ cleanup' = cleanup \ {b}
  /\ UNCHANGED <<now, row, schema, ledgerVars, requestVars, blockVars>>

-----------------------------------------------------------------------------
(* Blocks.  run lists the ledgers; create_blocks is called for each, and   *)
(* cuts blocks until no log is left, in one transaction.                   *)

Listed == {l \in Async : row[l].st = "live"}

ListAsync(x) ==
  /\ runner[x].pc = "off"
  /\ runner' = [runner EXCEPT ![x].pc = "listed", ![x].todo = Listed]
  /\ UNCHANGED <<now, row, schema, ledgerVars, requestVars, blocks, serial, cleanup>>

BlocksOf(l) == {k \in blocks : k.l = l}

(* The last block of a ledger: order by previous desc limit 1. *)
LastBlock(l) ==
  IF BlocksOf(l) = {} THEN [to |-> 0, id |-> 0]
  ELSE LET k == CHOOSE k \in BlocksOf(l) : \A j \in BlocksOf(l) : j.previous <= k.previous
       IN [to |-> k.to, id |-> k.id]

CallCreateBlocks(x, l) ==
  /\ runner[x].pc = "listed"
  /\ l \in runner[x].todo
  /\ BucketOf[l] \in schema
  /\ runner' = [runner EXCEPT ![x].pc = "cutting", ![x].todo = @ \ {l}, ![x].l = l,
                              ![x].last = LastBlock(l).to, ![x].previous = LastBlock(l).id]
  /\ UNCHANGED <<now, row, schema, ledgerVars, requestVars, blocks, serial, cleanup>>

(* Faulty: the log after the last block is left out. *)
BatchAfterNext(l, last) ==
  {i \in logs[l] : i > last + 1 /\ Cardinality({j \in logs[l] : last < j /\ j <= i}) <= MaxBlockSize}

(* The logs of the next block, of at most MaxBlockSize. *)
Batch(l, last) ==
  {i \in logs[l] : i > last /\ Cardinality({j \in logs[l] : last < j /\ j <= i}) <= MaxBlockSize}

(* The values of previous, the primary key, that are taken for good, and   *)
(* those another transaction has inserted.                                 *)
Taken(b) == {k.previous : k \in {j \in blocks : BucketOf[j.l] = b}}
Awaited(x, b) == UNION {{k.previous : k \in runner[y].new} :
                          y \in {z \in Runners \ {x} : runner[z].pc = "cutting" /\ BucketOf[runner[z].l] = b}}

(* Faulty: previous is not a key. *)
PreviousIsAnything(x, b, previous) == TRUE

PreviousIsFree(x, b, previous) == previous \notin Taken(b) \union Awaited(x, b)

(* create_block inserts one more block. *)
CreateBlock(x) ==
  LET c == runner[x]  b == BucketOf[c.l]  batch == Batch(c.l, c.last) IN
  /\ c.pc = "cutting"
  /\ batch # {}
  /\ PreviousIsFree(x, b, c.previous)
  /\ serial' = [serial EXCEPT ![b] = @ + 1]
  /\ runner' = [runner EXCEPT
       ![x].new = @ \union {[l |-> c.l, id |-> serial[b], previous |-> c.previous,
                             from |-> c.last, to |-> Max(batch), logs |-> batch]},
       ![x].last = Max(batch),
       ![x].previous = serial[b]]
  /\ UNCHANGED <<now, row, schema, ledgerVars, requestVars, blocks, cleanup>>

(* The insertion meets the key: the transaction is rolled back, and run    *)
(* returns the error without looking at the ledgers that are left.         *)
BlockConflict(x) ==
  LET c == runner[x] IN
  /\ c.pc = "cutting"
  /\ Batch(c.l, c.last) # {}
  /\ c.previous \in Taken(BucketOf[c.l])
  /\ serial' = [serial EXCEPT ![BucketOf[c.l]] = @ + 1]
  /\ runner' = [runner EXCEPT ![x] = NoRun]
  /\ UNCHANGED <<now, row, schema, ledgerVars, requestVars, blocks, cleanup>>

CommitBlocks(x) ==
  LET c == runner[x] IN
  /\ c.pc = "cutting"
  /\ Batch(c.l, c.last) = {}
  /\ blocks' = blocks \union c.new
  /\ runner' = [runner EXCEPT ![x] = [NoRun EXCEPT !.pc = "listed", !.todo = c.todo]]
  /\ UNCHANGED <<now, row, schema, ledgerVars, requestVars, serial, cleanup>>

(* Every ledger done, or the procedure of a dropped schema called. *)
EndRun(x) ==
  /\ runner[x].pc = "listed"
  /\ runner[x].todo # {} => \E l \in runner[x].todo : BucketOf[l] \notin schema
  /\ runner' = [runner EXCEPT ![x] = NoRun]
  /\ UNCHANGED <<now, row, schema, ledgerVars, requestVars, blocks, serial, cleanup>>

-----------------------------------------------------------------------------
Init ==
  /\ now = 0
  /\ row = [l \in Ledgers |-> NoRow]
  /\ schema = {}
  /\ next = [l \in Ledgers |-> 1]
  /\ pending = [l \in Ledgers |-> {}]
  /\ logs = [l \in Ledgers |-> {}]
  /\ flag = [p \in Processes |-> [b \in Buckets |-> FALSE]]
  /\ req = [r \in Requests |-> Idle]
  /\ blocks = {}
  /\ serial = [b \in Buckets |-> 1]
  /\ runner = [x \in Runners |-> NoRun]
  /\ cleanup = {}

Next ==
  \/ \E r \in Requests :
       \/ \E p \in Processes, l \in Ledgers : CheckBucket(r, p, l) \/ GetLedger(r, p, l)
       \/ Migrate(r) \/ InsertLedger(r) \/ CountWithNew(r) \/ SetAloneInBucket(r) \/ CommitLedger(r) \/ AbortLedger(r)
       \/ CountLedgers(r) \/ Read(r) \/ EndRequest(r) \/ DrawId(r)
  \/ \E l \in Ledgers : \E i \in pending[l] : EndWrite(l, i)
  \/ Tick \/ ListExpired
  \/ \E b \in Buckets : DeleteBucket(b) \/ RestoreBucket(b) \/ HardDeleteBucket(b) \/ HardDeleteFails(b)
  \/ \E x \in Runners :
       \/ ListAsync(x) \/ CreateBlock(x) \/ BlockConflict(x) \/ CommitBlocks(x) \/ EndRun(x)
       \/ \E l \in Ledgers : CallCreateBlocks(x, l)

Spec == Init /\ [][Next]_vars

(* The schedule of a runner fires, and the database answers it. *)
FairSpec ==
  /\ Spec
  /\ \A x \in Runners :
       WF_vars(\/ ListAsync(x) \/ CreateBlock(x) \/ BlockConflict(x) \/ CommitBlocks(x) \/ EndRun(x)
               \/ \E l \in Ledgers : CallCreateBlocks(x, l))

-----------------------------------------------------------------------------
(* Whatever the order in which buckets are created, deleted, restored and  *)
(* dropped, a row of _system.ledgers, deleted or not, has a schema behind  *)
(* it: a ledger that can be opened can be read.                            *)
RowsHaveSchema == \A l \in Ledgers : row[l].st # "none" => BucketOf[l] \in schema

(* The blocks of a ledger are one chain, however many runners cut them:    *)
(* each follows the one before it, starts where that one ends, and no log  *)
(* is in two of them.                                                      *)
BlocksAreAChain ==
  \A k \in blocks :
    LET before == {j \in BlocksOf(k.l) : j.id < k.id}
        latest == CHOOSE j \in before : \A i \in before : i.id <= j.id
    IN /\ k.previous = IF before = {} THEN 0 ELSE latest.id
       /\ k.from = IF before = {} THEN 0 ELSE latest.to
       /\ \A j \in before : j.logs \intersect k.logs = {}

Cut(l) == Max({0} \union {k.to : k \in BlocksOf(l)}
              \union UNION {{k.to : k \in {j \in runner[x].new : j.l = l}} : x \in Runners})

(* A log above every block that was cut, or is being cut, when it commits  *)
(* enters a block in the end, unless its bucket is deleted.                *)
EveryLogInABlock ==
  \A l \in Async : \A i \in 1 .. MaxLog[l] :
    (i \in logs[l] /\ i > Cut(l)) ~> ((\E k \in BlocksOf(l) : i \in k.logs) \/ row[l].st # "live")

(* A read returns rows of the ledger it was asked for only: the flag that  *)
(* lets newScopedSelect leave out the filter is up to date.                *)
ReadsAreScoped == \A r \in Requests : req[r].seen \subseteq {req[r].l}
=============================================================================
