# Granville: TLA+ models of a ledger and of the payments over it

Granville is payment software: an orchestration layer in TypeScript (`apps/`,
`libs/`) over a fork of Formance Ledger in Go (`internal/`, `pkg/`, `cmd/`).
`ARCHITECTURE.md` gives the first the life cycle of a payment and the second the
accounting truth: a transaction exists when the ledger has committed it. The
models follow a payment from the operational store to that commit and beyond it:
concurrent writes to a ledger, its first writes and imports, bulk requests,
export of its logs, the schemas ledgers share, and the services that post to it.

Contents: [inventory](#inventory), [modules](#modules), [runs](#runs),
[bounds](#bounds), [fairness](#fairness), [proofs](#proofs),
[findings](#findings), [other counterexamples](#other-counterexamples),
[what is not modelled](#what-is-not-modelled), [plan](#plan).

How to run it, from this directory:

    tlc -config transfers.cfg MCLedgerWrite.tla      # also keys, reverts, new_account
    tlc -config postings.cfg MCPostings.tla
    tlc -config lifecycle.cfg MCLifecycle.tla
    tlc -config bulk.cfg MCBulk.tla
    tlc -config exports.cfg MCReplication.tla        # also exporters
    tlc -config buckets.cfg MCBuckets.tla            # also scoped_reads
    tlc -config payments.cfg MCPayments.tla
    tlapm LedgerWriteProofs.tla                      # also the other seven ...Proofs

## Inventory

Paths are relative to `src/`. `PROJECT.json` lists the same components with
their status, and the hazards of each at the line where they bite.

### The Go ledger

| Component | State | Operations | Talks to | Module |
|---|---|---|---|---|
| Log processor, `internal/controller/ledger/log_process.go` | one call per request, an attempt number | `forgeLog`, `forgeLogRetry`, `runTx`, `runLog`, `fetchLogWithIK` | controller (callback), store | `LedgerWrite` |
| Default controller, `controller_default.go` | none | `createTransaction`, `revertTransaction`, metadata operations, `Import`, `Export` | log processor, machine, store | `LedgerWrite`, `Lifecycle` |
| Store, `internal/storage/ledger` | tables `accounts_volumes`, `transactions`, `logs`, `accounts`, `moves`; the transaction in progress | `GetBalances`, `UpdateVolumes`, `CommitTransaction`, `InsertTransaction`, `RevertTransaction`, `UpsertAccounts`, `InsertLog`, `LockLedger` | PostgreSQL, the connection pool | `LedgerWrite`, `Lifecycle` |
| Bucket, `internal/storage/bucket` | sequences of ids, unique indexes, the log hash trigger | migrations | PostgreSQL | `LedgerWrite` |
| Numscript machine, `internal/machine/vm` | balances and funding of one run | `ResolveBalances`, `withdrawAll`, `credit`, `repay` | the store, for balances | `Postings` |
| Transactions and postings, `internal/transaction.go`, `posting.go`, `volumes.go` | values | reverse, volume updates, moves | | `Postings` |
| State tracker and import, `internal/controller/system` | ledger state `initializing` or `in-use`, in memory and in the system store | `handleState`, `Import`, `withLock` | `LockLedger`, the controllers below | `Lifecycle` |
| Events decorator, `controller_with_events.go` | events held until the commit | `handleEvent`, `Commit`, `Rollback` | the publisher | `Lifecycle` |
| Bulk requests, `internal/api/bulking` | results of the elements, an error flag | `Run`, `run`, `processElement`, the two handlers | a controller, or one in a transaction | `Bulk`, `Lifecycle` |
| Replication, `internal/replication` | persisted pipelines and cursors; running pipelines, drivers | `startPipeline`, `StopPipeline`, `ResetPipeline`, `synchronizePipelines`, `Pipeline.Run`, `Batcher` | system store, the store's logs, exporters | `Replication` |
| Ledgers of a bucket, `internal/storage/driver`, `storage/ledger/factory.go`, `storage/system` | rows of ledgers, schemas, a flag per bucket and process | `CreateLedger`, `OpenLedger`, `DeleteBucket`, `RestoreBucket`, `newScopedSelect` | PostgreSQL | `Buckets` |
| Asynchronous blocks, `internal/storage/worker_async_block.go` | table of blocks | `run`, the procedure `create_blocks` | logs | `Buckets` |
| Cleanup of buckets, `internal/storage/worker_bucket_cleanup.go` | the list of a pass | `run`, `HardDeleteBucket` | system store | `Buckets` |
| Numscript compiler, read-side queries, HTTP API, schemas, SDK | compiled programs; none | | | |

### The Granville services

| Component | State | Operations | Talks to | Module |
|---|---|---|---|---|
| Orchestrator, `apps/orchestrator` | none | create, submit, cancel, retry | operational store | `Payments` |
| Provider runtime, `apps/provider-runtime` | none | `runOnce`, `executeProviderCommand` | payment provider (awaited), operational store | `Payments` |
| Webhook processor, `apps/webhook-ingest` | none | `runOnce`, `processWebhook` | operational store | `Payments` |
| Ledger writer, `apps/ledger-writer` | none | `postPending`, `replay` | Formance Ledger (awaited), operational store | `Payments` |
| Reconciler, `apps/reconciler` | none | `syncProviderTransactions`, comparison per order | operational store | `Payments` |
| Operational store, `libs/persistence` | payment orders, attempts, commands, provider transactions, postings, webhooks; a chain of writes behind | enqueue, claim, mark, load and recover | PostgreSQL | `Payments` |
| API, portal, website, operations UI, Camunda workers, routing, reports | none | | the services above | |

### Which behaviours are hard

The ledger has no mutex: everything that makes it correct under concurrency is
a statement order, a row lock, a unique index or an advisory lock, and the tests
of the repository run requests that overlap without choosing how. The replication
manager has a mutex and goroutines beside it; the services are one Node process
that interleaves at every `await` and writes its database behind. What each
component must guarantee:

- **Log processor.** One log per idempotency key, however often a request is
  repeated and whatever statement a connection dies at; a rolled back attempt
  leaves nothing; an error it retries starts again from nothing; the lookup
  after a conflict finds the log (the code panics otherwise).
- **Store and controller.** No volume update is lost; the balances a decision was
  taken on still hold at commit; volumes, transactions and logs agree; ids of
  transactions follow the order of the updates of each account; a reference is
  used once and a transaction reverted once; deadlocks end; hashed logs chain.
- **Machine and postings.** The funds a list of postings takes never exceed
  balance plus overdraft at any point of the run; moves derived backwards from
  the final volumes equal those of a forward run; a reversal can be undone.
- **State tracker.** Nothing is imported into a ledger that was written; writes
  never draw an id of an imported log.
- **Events.** An event is published after the commit it reports.
- **Bulk.** A result answers the element it stands at; an atomic bulk is all or
  nothing; the response says what was committed; it is written. An element may also
  panic, or lose its connection in its commit.
- **Replication.** Every log is delivered at least once, and no cursor covers a
  log that was not; pipelines hold the driver of their exporter's present
  configuration; a pipeline that is stopped behind its row is started again.
- **Buckets.** A row has a schema behind it; a read returns rows of its ledger.
- **Blocks.** The blocks of a ledger are a chain, and every log is in one block.
- **Payments.** A payment is posted to the ledger once and only if it was made;
  a completed payment is posted; the order says what its attempts say; what
  reconciliation calls matched is. The attempt is found by a reference that other
  attempts of its order may carry too.

## Modules

| Module | Models | State and actions |
|---|---|---|
| `Postings` | pure part of a transaction: reversal, volume updates, the machine's withdrawals, the revert check, moves | operators; an account is an (address, asset) row |
| `Ledger` | what requests ask and tables hold, shared by the next two | the records of a command, a transaction, a log; the state left by earlier (`Genesis`) transactions |
| `AtomicLedger` | what the ledger promises: every request takes effect at one point, at most once | tables and replies; `Execute`, `Replay`, `Refuse`, `Forget` |
| `LedgerWrite` | what the code does | tables, sequences, `locks`, and per request `pc`, `attempt`, `work`, `reply`; one action per SQL statement, or per step of a statement that waits |
| `Lifecycle` | a ledger from its creation to its first writes: state tracker, import, events, atomic bulks | the ledger's row, logs, sequence, advisory lock; per controller the remembered state; per request its `pc`, id, staged logs |
| `Bulk` | one bulk request | reader, queue, workers, collector, results; what is applied and committed |
| `Replication` | pipelines, exporters and their manager | rows, handlers, drivers, cursors stored and still on their way, what targets received |
| `Buckets` | ledgers that share a schema; blocks; cleanup | rows, schemas, logs, flags, requests, runners, the cleanup list |
| `Payments` | the Granville services over the operational store | the store's tables in memory and in the database, calls under way, provider and ledger |
| `MC...` | instances for TLC | `MCPostings` builds lists of postings one by one, and states what the operators of `Postings` should mean |
| `LedgerWriteProofs`, `LifecycleProofs`, `BulkProofs`, `BucketsProofs`, `PaymentsProofs`, `ReplicationProofs` | theorems | |
| `PostingsProofs`, `MCPostingsProofs` | lemmas about sums, reversal, balances and moves, used by `LedgerWriteProofs` too; the theorems of `MCPostings` | |

Operators that begin with a comment "Faulty" are variants of the definition after
them with a plausible error. Nothing uses them: `PROJECT.json` (`mutants`) names,
for each property, the variant that breaks it.

### `LedgerWrite`

A request moves through the statements of the code:

    idle -Begin-> readIK -ReadIK-> revert -RevertTransaction-> balances -Snapshot->
    getBalances -LockOrInsertRow*, Execute-> updateVolumes -UpdateRow*, NextTransactionID->
    insertTransaction -InsertTransaction-> upsertAccounts -ReadAccounts->
    insertAccounts -InsertAccounts-> log -LockLogs-> logID -NextLogID->
    insertLog -InsertLog-> commit -Commit-> done

`readIK` is taken by a first attempt that has a key, `revert` by reverts,
the two steps on accounts by creates, `logID` if logs are hashed. Every error
path is an action that leaves this line: to `done` for an error the log
processor reports, to `idle` with `attempt = "retry"` for a deadlock or a key
conflict of `forgeLog`, to `fetchIK` for a key conflict of `forgeLogRetry`.

What of PostgreSQL the code relies on is modelled, from how the code uses it:

- `work[r]` is the private version of what the transaction writes; `Commit`
  merges it into the tables in one step, every other end of an attempt drops it
  (`Release`) and with it the locks.
- `locks[r]` holds rows, keys of unique indexes and the advisory lock. An
  insertion of a key that another transaction has inserted and not committed
  waits, as PostgreSQL does, and then either succeeds or reports the conflict.
- `GetBalances` takes its snapshot first (`Snapshot`), locks the rows of the
  snapshot in order, then inserts the missing rows in order. The insertion is a
  CTE nothing refers to, which PostgreSQL runs after the main query: a row that
  appears in between is neither locked nor read.
- `UpdateVolumes` is one step per row: an upsert waits for the row and adds to
  its latest committed version.
- `UpsertAccounts` is called on the controller's own store, so it runs outside
  the transaction on a second connection, and commits at once. Only its insertion
  of new addresses is modelled: its update of known ones touches metadata and
  dates, and commits with the same statement.
- Sequences do not roll back; ids have gaps, in the model as in the code.
- A cycle of waits is broken by failing any one of its transactions.
- A panic in the handler of a single request cancels its context, upon which
  `database/sql` rolls the transaction back: it is modelled as a failure of the
  request. In the pool of a bulk it does not (see `Bulk`).

Two statements that read rows nobody can change between them are one action
(the lookup of a transaction to revert and its update, which the code issues as
one statement), and so is the end of `runTx` with the answer to the client:
`Resend` covers the loss of the connection at any statement, and of the answer
after the commit.

The pure part of a statement is an operator of `Postings`: the lists of postings
and the balance checks are computed with the code's arithmetic, on naturals, as
the code's are `big.Int`.

`AtomicLedger`: `Execute` checks a request against the current balances and, in
one step, adds a transaction and a log with fresh ids, updates volumes, marks
the reverted transaction and answers. `Replay` answers from a log that has the
key. `Refuse` answers with an error. A reference conflict, a key sent with
another input and a revert done already must be true of the tables when they are
reported; the others need no justification there (`Reasons`): funds may have
been insufficient when they were read, a race on a new address may fail, and a
revert may panic. `Forget` is a client that repeats a request. Two executions
whose accounts do not overlap may commit in the reverse order of their ids;
`FollowsOn` is what is promised instead: the ids of transactions that share an
account, and those of their logs, follow the order in which they took effect.

### `Lifecycle`

`Open` is the arrival of an HTTP request, when `GetLedgerController` reads the
row. `Begin` and `LockLedger`, `MarkInUse` are `handleState`: a controller that
remembers `in-use` calls the controller below, another one takes the advisory
lock in a transaction, updates the row and moves the sequence past the logs it
finds. `DrawId`, `InsertLog`, `Commit`, `Remember` are the write below it, of
which only the log matters here. An import (`LockImport`, `CheckState`,
`ReadLast`, `ImportLog`, `EndImport`) takes the session lock, reads the row
again and commits log by log; `BreakOff` is a handler that returns while `Import`
still waits for the next log. The ids of a stream (`Exported`) may have gaps, left in
the exported ledger by rollbacks and dry runs: what is compared is the hash, which
covers the log before it and not the id (`HashMatches`). An atomic bulk (`BeginBulk`) opens its transaction
on the controller below the state tracker. Events are published by `InsertLog`
or by `Commit`, as the decorator in force does. `Fail` and `FailImport` end a
request at any step.

### `Bulk`

The goroutines of one request: `Read` and `StopReading` (the handler's decoder),
`Submit` (the loop of `run`), `Start`, `Apply`, `Fail`, `Deliver` (a task of the
pool), `Finish` (the end of `run`, then commit or rollback in `Run`),
`StopCollecting` and `Answer` (the handler's collector and its response),
`Refuse` (what is answered before anything runs), `Disconnect`.

What becomes of an element is a constant of the body; the ledger below is the
subject of the other modules. The controller accepts it (`accepted`, or `sharing`
if it needs rows that a panicking element locks), refuses it (`refused`), or panics
(`panics`); or it is not decoded (`malformed`, or the `empty` script of a text
stream). Three outcomes of a task are neither success nor failure:

- `Panic`: the pool recovers it and the worker goes on. No result is sent,
  `hasError` stays unset and the SQL transaction stays open (`left`) with its locks,
  for which a `sharing` element of the same bulk waits (`Waits`) as long as the
  client stays. In an atomic bulk there is one transaction for all, and its commit
  includes what the panicking element had written.
- `Lose`: the connection is lost. The element gets an error, and outside of atomic
  bulks it may be in the database nevertheless, when it was the answer of its commit
  that was lost. An atomic bulk has no transaction any more (`Gone`).
- `Die`: the empty script panics in the reader's goroutine, which nobody recovers:
  the process ends.

### `Replication`

The manager's operations run under its mutex and wait in `Shutdown` until a
handler takes the stop signal, so each that succeeds is one step that requires the
handlers it stops to be at a `select`: create, delete, start, stop, reset, the update
and the deletion of an exporter, and the periodic pass (`SynchronizeOk`, and
`SynchronizeFails` for a pass that meets a ledger it cannot open). Beside it run
`Fetch`, `Push`, `Send` (the loop of a handler), `StoreCursor` and its late
version for handlers already stopped, `DriverReady`, commits of logs, deletion
of a bucket, and `Crash`. `late` is a bag: cursors that goroutines of stopped
handlers still hold and will store.

The stop channel has a buffer of one, so that `Shutdown` may give up with its signal
already sent: `GiveUp` is any operation whose context ends there. It returns the
error and leaves the entry in `m.pipelines`; the handler takes the signal at its next
`select` and returns (`Exit`). Its entry is then `dead`: it counts as running for
every operation of the manager, holds its driver, and a later stop puts a signal
nobody answers. `outlived` marks a driver that a failed start had left without
pipelines and that an update of its exporter therefore did not stop.

### `Buckets`

`CreateLedger` is one transaction of five statements: `CheckBucket` (is the schema
there), `Migrate` (create it if not), `InsertLedger`, then in the factory
`CountWithNew` and `SetAloneInBucket`, and `CommitLedger` or `AbortLedger`. A request
opens a ledger in three steps (`GetLedger`, `CountLedgers`, `SetAloneInBucket`) and
then reads (`Read`, with `ScopedSelect`) or writes a log (`DrawId`, `EndWrite`).
Buckets are deleted, restored, listed and dropped; dropping waits for transactions
that use the schema. A runner lists the ledgers with asynchronous hashes and cuts the
logs of each into blocks in one transaction, with `previous` as the primary key of
the bucket's table.

### `Payments`

A section of code without `await` is one step. `Perform` makes its writes in
memory at once; the database has them too, or has stalled before one of them and
receives nothing more (`lag`), upon which `Crash` loads what the database has and
resets what was in processing, as the store's loading does. Actions: `Submit`,
`Retry`, `RetryRefused`, `Cancel` (orchestrator); `Claim`, `Execute` or `CallFails`,
`Complete`, `FailCommand`, `TransientError`, `RunDisabled` (provider runtime around
its call); `PostWebhook`, `ProcessWebhook` or `IgnoreWebhook`, `RetryWebhook`;
`Post`, `LedgerPosts` or `PostFails`, `MarkPosted`, `MarkFailed`, `Replay` (ledger
writer around its call); `SyncTransaction` and the predicate `Matched` (reconciler).
The provider and the ledger are external: the provider executes a request id once,
the ledger a key once, both possibly while the caller sees a failure.

Which attempt a webhook or a provider transaction is about is a lookup, `IsFound`:
the first of the store's map that carries the reference, or the transaction id, both
of which an attempt has only after its provider answered (`Carriers`). A kind of
provider (`Providers`) gives each attempt a reference of its own
(`airwallex-mapping.ts`, `mock-emi-provider.ts`) or all attempts of an order the
same (`formance-payments-wrapper.ts`, `mock-bank-provider.ts`): `Alike` are those
that share one. The order of the map is that of the submissions (`at`), and any order
after a crash, because the loading query has no `ORDER BY`. The same references
decide what `Claim` takes for a duplicate (`Duplicate`).

A webhook whose signature does not verify is stored as `ignored` and may say
anything; `RetryWebhook` queues it like any other. Webhooks are known by their event
id: one status may come under several.

## Runs

Deadlock is checked in the runs of `LedgerWrite`. The other systems may stop:
their instances end when every request is answered or a bound is reached.

| Run | Question | Shows |
|---|---|---|
| `postings` | Do the operators of `Postings` mean what they should? | moves derived backwards equal the forward run; what the machine accepts respects the overdraft; a reversal undoes |
| `transfers` | Transfers over the same rows in opposite orders, a bounded overdraft, deadlocks and retries, a pool with one connection to spare | `TypeOK`, `VolumesMatchTransactions`, `NoLostUpdate`, `OverdraftBound`, `Serializable`, `EveryRequestAnswered` |
| `keys` | One idempotency key: two identical requests, a third with another input that pays another asset to the same new address, a lost connection or answer anywhere | `IdempotencyKeyUnique`, `KeyConflictHasLog`, `Serializable` |
| `reverts` | With hashed logs: two reverts of one transaction, one forced; its funds being spent; one reference used twice, a dry run of a revert that has no target yet | `RevertedOnce`, `LocksAreFresh`, `ReferenceUnique`, `LogChain`, `Serializable` |
| `new_account` | Is an overdraft respected on an account without a row? | violation: `OverdraftBound` |
| `lifecycle` | Two writes of one controller, a dry run, an import and the one that resumes it, on a new ledger with and without hashed logs; atomic bulks and writes on a ledger in use | `ImportBeforeWrites`, `DrawnIdsAreFree`, `CommitsInOrder`, `EventsAreCommitted`, `RequestsEnd` |
| `bulk` | Every option, bodies of up to four elements with one that panics or is not decoded, lost connections, a client that may go away at any moment | `TypeOK`, `ResultsMatchElements`, `StopsAtFailure`, `AllOrNothing`, `AnswerIsTrue`, `BulkIsAnswered` |
| `exports` | One pipeline stopped, given up, crashed, reset and failing, at any step of its handler and of the goroutine that stores its cursor | `CursorCoversSent`, `EventuallySent` |
| `exporters` | Two pipelines sharing an exporter that is updated and deleted, stops given up, ledgers that cannot be opened, restarts, all meeting | `HandlersAreCurrent` |
| `buckets` | Creation (statement by statement), writes, deletion, restoration and drop of the ledgers of a bucket, with two runners | `RowsHaveSchema`, `BlocksAreAChain`, `EveryLogInABlock` |
| `scoped_reads` | Does a read return rows of its ledger only? | violation: `ReadsAreScoped` |
| `payments` | Two attempts of one order, with references of their own or one for both: provider errors up to the last retry, every status, signed and unsigned webhooks in any order, ledger failures up to the dead letter, two workers and writers, cancellation, replay, a crash after any write | `TypeOK`, `LedgerMirrorsProvider`, `NoLostPosting`, `OrderFollowsAttempts`, `MatchedIsReal` |

`Serializable` is the central property of the ledger: `LedgerWrite` implements
`AtomicLedger` under the identity on tables and replies (`Serial` in `LedgerWrite`),
every step being a step of the serial ledger or none. It fails if a decision was taken on balances that
no longer hold at the commit, if an answer does not describe the tables, if an id
is drawn in the wrong order, or if anything is committed in part.

## Bounds

- **Requests of `LedgerWrite`**: two to five. A conflict on a row, a key, a
  reference or a revert is between two requests; a third lets a victim of a
  deadlock or a refused duplicate meet a newcomer, and the others add operations
  of another kind.
- **Accounts**: four addresses in one asset, or five rows of three addresses in
  two assets. Two rows make a cycle of row locks; the third makes an order of
  locking in `UpdateVolumes` that differs from that of `GetBalances`.
- **Amounts**: at most 3, chosen so that the order of two requests decides which
  of them has the funds.
- **`MaxResends` = 1** in `keys`, 0 elsewhere: one lost connection or answer, at
  any statement of any request. The second attempt of the log processor needs no
  bound: only deadlocks retry again.
- **`PoolSize`**: in `transfers` one connection more than the three creates that
  need two; elsewhere the pool is not the question.
- **`MaxId` = 8** bounds the ids the two sequences give, in `LedgerWrite` and in
  `Serial`. No instance reaches it: a request that needs a further id would be
  stuck, and deadlock is checked. The sequences are bounded by the number of
  attempts: an attempt that drew an id cannot be the victim of a deadlock, since it
  waits for unique keys only, and a key is refused at most twice.
- **`postings`**: three accounts, lists of at most three postings of amounts 1
  and 2, balances and overdraft 0 or 1 (`MaxBalance`): every shape of self-transfers, chains and
  cycles over three accounts.
- **`lifecycle`**: `Meetings` are the sets of requests that meet: five on a new
  ledger, four on one in use. Imports of two logs that overlap in one, of an export
  with a gap in its ids; bulks of two elements. Without hashed logs only the state of the row keeps an import
  out, with them the chain would refuse some of the same imports: hence both.
- **`bulk`**: two workers, every body of up to three elements, and those of four of
  which one is refused and one panics; at most one element panics or is not decoded,
  and one needs the rows it locks; `BulkMaxSize` 3. A pool of two with a queue of two
  is full with four elements.
- **`exports`**: three logs in pages of two (a full page and a short
  one), one pipeline; `Budgets` allows a crash, a stop, a stop given up and a failing
  push together, or two resets, or a reset with a stop, a crash and a stop given up.
  **`exporters`**: two pipelines of different ledgers, one exporter, one log; four
  budgets in which updates, failed starts, stops given up, deletions and restarts
  meet.
- **`buckets`**: two ledgers in one bucket, one of them with asynchronous hashes
  and two logs, blocks of one log, two runners, one request at a time and one tick
  of the clock; so two runners meet on the same block, a bucket expires, and a
  ledger is created while its bucket is dropped. **`scoped_reads`**: two requests
  at once, no runner, no tick.
- **`payments`**: two attempts of one order; `Scenarios` combines kinds of providers
  (own references or a shared one, the statuses it knows, what its webhooks name)
  with up to three provider errors (`MaxRetries`), two webhooks, one unsigned webhook
  and its retry, ledger failures, a replay and up to two crashes, the second of which
  may follow the dead letter of a command; `MaxLag` 2 sections of code run after the
  last write that is kept. Workers, writers, webhook events and attempts are
  symmetric: no definition tells them apart.

## Fairness

- **`transfers`.** `WF(Step(r))`: a statement that can run does run, and the
  database detects deadlocks (`DeadlockDetected` is part of `Step`). The log
  processor has no sleep and no limit of attempts. `SF` of the two actions that
  wait for a row: a waiting transaction is queued behind the holder of the row.
  No fairness is assumed of `Resend`.
- **`lifecycle`.** `WF` of the arrival of requests and of their steps; none of
  failures or of a handler that breaks off. The waits are for the advisory lock
  and for inserted ids, which PostgreSQL hands on.
- **`bulk`.** `WF` of the goroutines; none of `Disconnect`, `StopReading` and
  `StopCollecting`. `BulkIsAnswered` makes an exception of a client that has gone and
  of an element that waits for what a panic has left locked.
- **`exports`.** `WF` of a handler's steps, of the cursor goroutine, of a driver
  that starts and of the periodic pass; none of the operations of clients, of
  failures, stops given up and crashes, which are bounded. `EventuallySent` makes an
  exception of a pipeline whose handler has ended after a stop given up, and of
  ledgers that cannot be opened.
- **`buckets`.** `WF` of a runner's steps: its schedule fires and the database
  answers. None of requests, deletions or the clock.
- **`payments`** states none: nothing in the process drains the queues by itself
  (see below), so no liveness is claimed.

## Proofs

Every safety property that a passing run checks is proved here for every value of
the constants, from the hypotheses the tables name; so is the refinement
`Serializable`. Liveness is not (see [below](#model-checked-only)).

**`LedgerWriteProofs`**, for any set of requests, any commands, any transactions
committed before, hashed logs or not, any pool, any bound on ids and any number of
resends:

| Theorem | Property | Hypothesis |
|---|---|---|
| `Typed` | `TypeOK` | none |
| `LocksStayFresh` | `LocksAreFresh` | none |
| `OneLogPerKey` | `IdempotencyKeyUnique` | none |
| `OneTransactionPerReference` | `ReferenceUnique` | none |
| `OneRevertPerTransaction` | `RevertedOnce` | none |
| `RefusedKeyHasLog` | `KeyConflictHasLog` | none |
| `NothingLost` | `NoLostUpdate` | none |
| `HashedLogsAreAChain` | `LogChain` | none |
| `VolumesAreSums` | `VolumesMatchTransactions` | none |
| `OverdraftsRespected` | `OverdraftBound` | `OverdraftsHaveRows`, `GenesisWithinOverdrafts` |
| `WritesAreSerializable` | `Serializable` | `OverdraftsHaveRows` |

Assumptions: `CommandAssumption` (in `Ledger`) types the constants and asks nothing
else of them; `BoundsAssumption` types the pool size and the bounds.

The two hypotheses are about the constants:

- `OverdraftsHaveRows`: an account that a request may draw below zero, by an
  overdraft or by a forced revert, has a row when the requests begin. The code does
  not guarantee it, and without it both conclusions are false: `new_account` is an
  instance with an overdraft on an account that has no row, and TLC finds
  `OverdraftBound` violated in it (first [finding](#findings)). `transfers`, `keys`
  and `reverts` satisfy it. Accounts without a row that are not overdrawn need no
  hypothesis: they are read as 0, which is not more than they have
  (`NewAccountsFloor`).
- `GenesisWithinOverdrafts`: the transactions committed before respect the
  overdrafts of the requests, without which the bound does not hold at the start.

The argument. None of the properties is inductive alone, and neither is the
type invariant: a commit makes its target a reverted transaction, so that
`reverted` stays within `transactions` only if the target was committed. The
inductive invariant `Protected` has four parts:

1. `TypeOK`;
2. `MutualExclusion` of the locks, defined with the proof: it is what PostgreSQL
   gives (`LocksTaken`, `StepTouchesOne`), and no property of its own;
3. `HoldsLocks`: up to its end an attempt holds a lock on all it depends on, the
   rows it wrote, its target, its reference and its key (`HoldsOfStep`);
4. `LocksAreFresh`: what it holds is still unused. A lock is taken on something
   unused (`LocksTakenFresh`), and a commit of another request uses only what
   that request holds (part 3), which by part 2 is something else.

Uniqueness then follows at each commit: the key, the reference and the target of
the committed attempt are among its locks, hence unused (`UniqueStep`).
`NoLostUpdate` needs in addition that an attempt chooses its postings before it
writes (`WritesAfterReads`): a commit of another request changes none of the
rows it has written, because it holds them. `LogChain` needs that from the
trigger to the commit the advisory lock is held (`Chained`), so that the last log
stays the last one. `KeyConflictHasLog` needs only that logs grow.

Volumes, balances and the serial ledger need more than locks: `Matching` adds to
`Protected` what the data are.

- `TablesMatch`: the latest volumes of an account are the total of all committed
  transactions (`TotalOf`), and those recorded with a transaction are the total up
  to its id. A commit adds one transaction to the sum, and the rows it replaces are
  the ones it holds locks on, each the latest version plus its own postings.
- `Attempted`: what an attempt knows. Its postings are those the request asks for
  (`AsksFor`); it has seen at least the rows that were there from the start, holds
  those it has seen, and its check passes with their latest balances, and 0 for the
  rest (`HasRead`); it writes the rows of its postings, all of them before it draws an
  id (`HasWritten`); its ids are above those of all committed transactions that share
  an account with it (`IsLater`). A commit of another request keeps all four, because
  a shared account is a shared row lock, for which one of the two still has to wait.
- `DrawnOnce`: ids drawn and not committed are in no table and are nobody else's.

`OverdraftBound` then follows from the check of the machine at the balances read:
what was sufficient there is sufficient at commit, since the balance is the same, or
not less for an account without a row (`StillSufficient`, by `ExecutableMonotone` and
`RevertibleMonotone` of `PostingsProofs`); and what the machine accepts step by step
bounds the balances at the end (`DrawnWithin`, by `ExecutableFloorAtEnd`).

`Serializable` is a simulation whose mapping is the identity. The point at which a
request takes effect is its `Commit`, and nothing but its lookup of a key or its
refusal changes tables or replies elsewhere: each action of the code is an `Execute`,
`Replay`, `Refuse` or `Forget`, or leaves `db` and `reply` alone. For `Commit` the
guards of `Execute` are the parts of `SerialInv` (`Matching`, the floor, the chain of
logs); for a refusal whose reason must be true (a reference, a key, a revert), the
lock that was waited for is the row that justifies it. The instance has operators of
its own; a few lemmas (`SerialSums` to `SerialTables`) show them equal to those of the
modules.

**`PostingsProofs`** and **`MCPostingsProofs`**, for lists of postings of any length:

| Theorem or lemma | Property |
|---|---|
| `MovesAreInOrder` | `MovesFollowPostings` |
| `MachineBoundsBalances` | `ExecutableBounds` |
| `ReversingUndoes` | `ReverseUndoes` |
| `ReverseTwice` | reversing twice gives the postings back |

What a list moves is a sum over its positions, and moves come from a fold: both are
recursive definitions of the community modules, and facts about them are inductions
over data. The library's induction theorems take an operator, which cannot be
instantiated here; the induction is made by the least counterexample instead. `Least`
says that a nonempty set of naturals has a least element, from which
`NaturalInduction` and `FiniteInduction` follow as statements about *sets*, and a
statement P is proved for all n by giving them the set of the n that satisfy it. The
recursion of `SumFunctionOnSet` (`SumDefinition`) and that of `FoldRight`
(`WalkSteps`) are obtained in the same way, from the existence of a function that
solves them. On these rest the laws of sums (`SumAdd`, `SumWithout`, `SumRenamed`:
a sum does not depend on how its terms are numbered, hence `ReverseMoves`), the
balances after a prefix of a list (`AfterPrefix`), and the walk backwards:
`TakeBackUndoes` is one posting, `MovesAre` the whole walk, whose state after k steps
is the volumes of the postings not yet taken back.

**`LifecycleProofs`**, for any writes, dry runs, bulks and imports of any logs, and
any sharing of controllers, from `ConstantsAssumption`, which types the constants:

| Theorem | Property | Hypothesis |
|---|---|---|
| `ImportsPrecedeWrites` | `ImportBeforeWrites` | `BulksOnUsed` |
| `DrawnIdsStayFree` | `DrawnIdsAreFree` | `BulksOnUsed` |
| `LogsCommitInOrder` | `CommitsInOrder` | `BulksOnUsed` |
| `BulkEventsAreCommitted` | `EventsAreCommitted` | none |

`BulksOnUsed` says that atomic bulks meet only ledgers in use. Without it the three
properties are false: an atomic bulk writes behind the state tracker (see
[other counterexamples](#other-counterexamples)).

- Imports (`IInv`): a log of a write exists only in a ledger in use, what controllers
  remember of that is true, a write past `handleState` holds the lock or found the
  ledger in use, and an import that has passed its check holds the lock of a ledger
  that is still initializing.
- Ids (`Numbers`): once the ledger is in use, or a request is past `handleState`, the
  sequence has reached every committed id; an id drawn, or staged in an open
  transaction, is not above the sequence and has no log, and no two requests have
  drawn or staged the same.
- Order (`Ordered`): with hashed logs one request at most holds ids, the one with
  the advisory lock; they are above all committed ones, and those of a bulk stand in
  the order in which they were staged.

**`BulkProofs`**, for any pool, options and bodies of any length:

| Theorem | Property |
|---|---|
| `AtomicBulk` | `AllOrNothing` |
| `TrueAnswer` | `AnswerIsTrue` |
| `TypeCorrect` | `TypeOK` |
| `NothingAfterFailure` | `StopsAtFailure` |
| `OneResultEach` | `ResultsMatchElements` |

The invariant `IInv` follows every element, until the process dies: it is in one
place (`Covered`) and in no two (`Once`, `Apart`): being sent, queued, with a worker,
among the results, or among those that panicked. A success is of an element applied,
anything else has a reason, an element applied has a success or had its answer lost,
and both are on their way to the results (`Truthful`). Nothing moves once `Run` has
returned (`Quiet`), so that all elements decoded that did not panic have their result
then, and the commit that finds no failure finds all of them applied (`Stored`).
`OneResultEach` counts: results and decoded elements that did not panic are in a
bijection. The order it states, and `NothingAfterFailure`, need a second invariant
(`SerialBulk`): outside of parallel bulks the results, the one busy worker, the queue
and the element being sent stand in one line, with gaps only where something
panicked, and unless the bulk continues on failure what is applied or panicked is a
beginning of the body that ends before the first error, or with it if its answer was
lost. From `BulkAssumption`, which types the constants.

**`BucketsProofs`**, for any ledgers, buckets, requests and runners:

| Theorem | Property |
|---|---|
| `RowsKeepTheirSchema` | `RowsHaveSchema` |
| `BlocksFormOneChain` | `BlocksAreAChain` |

The chain is inductive only together with what runners have not committed
(`RunnerOK`): the blocks of a ledger and those a runner has cut of it are linked,
each to the last before it, and end at the `previous` and `last` from which the
runner goes on. Two runners never both hold blocks of one ledger (`OneCutter`),
because the primary key on `previous` makes one of them wait and fail; a runner that
has cut nothing yet may have found an end of the chain that is no longer the end, and
then fails for the same reason.

**`PaymentsProofs`**, for any orders and attempts, any number of workers and writers,
any kinds of providers, any number of provider errors, webhooks, ledger failures,
replays and crashes, and any delay of the database:

| Theorem | Property |
|---|---|
| `PaymentsTypeCorrect` | `TypeOK` |
| `OneTransactionPerPayment` | `LedgerMirrorsProvider` |
| `PostingsAreNotLost` | `NoLostPosting` |
| `OrdersFollowTheirAttempts` | `OrderFollowsAttempts` |
| `MatchesAreReal` | `MatchedIsReal` |

The main part of the invariant (`InvariantHolds`) is about a set of tables, not about
the state: `Sound(s)` says that the rows are typed, that what they say of the provider
and of the ledger is true (`Grounded`), that a completed attempt has a posting or work
left that will write one (`PostingKept`), and that an order follows an attempt
(`OrderKept`). Whatever concerns a completion is said of the attempts that share a
reference (`Alike`, `Vouched`), since a webhook about one may be taken for one about
another. Each single write keeps it, in the order the code makes them. It
therefore holds of the tables in memory and of every prefix of the writes, that is,
of whatever the database has when a crash comes, and loading keeps it again. Beside
it stand what calls under way may assume of rows claimed before an `await`
(`CallsOK`, `PostsOK`) and that the ledger has one entry per attempt, under the key
of its posting (`LedgerOK`). The exception `GivenUp` of `NoLostPosting` and
`OrderFollowsAttempts` is needed: over two crashes they do not hold without it. So is
`Alike` in `NoLostPosting`: with one reference for several attempts a crash may
reorder the map, and the work that remains is then found to be another attempt's.

**`ReplicationProofs`**, for any pipelines, ledgers and exporters, any page size and
any number of faults:

| Theorem | Property | Hypothesis |
|---|---|---|
| `HandlersKeepTheirDriver` | `HandlersAreCurrent` without its last conjunct | none |
| `HandlersStayCurrent` | `HandlersAreCurrent` | none |
| `CursorsCoverWhatWasSent` | `CursorCoversSent` | `OrderedCommits` |

What the manager's maps become is stated once for each of `InitExporter`,
`StartPipelines` and `StopPipelines` (the `Facts` operators); its operations are
composed of these.

- `HandlersInv`: a handler in `m.pipelines`, dead or not, has a live row and the
  registered driver of its exporter, one that is off has none; so an exporter without a driver has no
  handler, and any new driver is new to it.
- `ConfigurationsInv`: a registered driver of an exporter that exists was built from
  its configuration, or has outlived an update. An update stops every pipeline of the
  exporter, and with the last of them the driver, so that the next start builds a new
  one; only a driver without a pipeline, left by a start that failed, stays. Without
  that exception the property is false (see
  [other counterexamples](#other-counterexamples)).
- `CursorsInv`: each cursor, of a row, of a handler or on its way to the row, is 0 or
  a visible log up to which all have been received, and a page on its way follows its
  handler's cursor without a gap. A log that becomes visible later is above them all
  if commits are ordered. Nothing is said of which cursor is newer: a late one may
  overwrite a newer one, and then logs are sent again.

Assumptions: `BucketsAssumption`, `PaymentsAssumption` and `ReplicationAssumption`
type the constants.

### Model-checked only

- `EveryRequestAnswered`, `RequestsEnd`, `BulkIsAnswered`, `EventuallySent`,
  `EveryLogInABlock`: liveness under fairness is out of the provers' reach, because
  fairness is about `ENABLED`.
- The two violations listed under [findings](#findings). The instances of the passing
  runs satisfy the hypotheses of the theorems.

## Findings

Two statements of the repository about the program do not hold of the code.

1. **An account without a row is not locked** (`new_account`). `GetBalances`
   inserts the missing row in a CTE and selects for update in the same
   statement. Both see the snapshot of the statement. Of two first withdrawals,
   the second waits in the insertion for the first to commit, inserts nothing,
   and reports balance 0, because its select has already run. `CONTRIBUTING.md`
   explains the query by the overdraft that this exceeds.
2. **The flag that a ledger is alone in its bucket may be wrong**
   (`scoped_reads`). `OpenLedger` counts the ledgers of the bucket and then sets
   the flag all stores of the bucket share, without a lock. A request that counted
   before a second ledger was committed sets it after everybody else, and
   `newScopedSelect` leaves out the filter on the ledger. The comments at both
   places say that the flag is up to date.

## Other counterexamples

Behaviours of the code that the models reach and that no property above excludes.
Each property is stated so that it holds beside them; its comment or the hazard
in `PROJECT.json` says where the line is.

*Ledger writes.* A duplicate that starts before the original commits may be
refused for lack of funds, although its key has a log by then: the key is looked
up once, at the start (`ops/runbooks/ledger-writer-failure.md` takes a replay as
always safe; nothing is executed twice). The revert of a transaction in which
an address pays one asset and is paid in another panics: balances are read by
account and asset and looked up by account (`controller_default.go:554`). Two
creates that meet a new address may fail on the unique index of `accounts` with
an error nobody retries; rows of `accounts` written for a transaction that is
rolled back, or for a dry run, stay. As many creates as connections in the pool
wait for each other for ever, each with one connection and in need of a second.

*Lifecycle.* An atomic bulk leaves a new ledger `initializing`: an import is then
accepted after its logs, and, after an import, the bulk draws the ids of imported
logs and fails. A first write then moves the sequence back behind an id that another
bulk has drawn, and with hashed logs a log commits after one of a higher id. The
first write of a ledger publishes its event before it commits (the decorator made by
`LockLedger` has `hasTx` unset). An import whose client breaks off keeps the
ledger's lock for ever: the handler returns without closing the channel `Import`
reads from, and first writes and imports wait.

*Bulk.* An atomic bulk of which an element panics is committed with what the others
did, and what that one had written before it panicked, and answered 200 with a result
too few: the pool recovers the panic and `hasError` stays unset ("Make bulk atomic",
`openapi/v2.yaml:444`). The results of a parallel bulk stand in the order of completion and are
paired by position with other elements' actions: the sort is by an `ElementID`
that is never set. So are those after an element that panicked. Its
transaction keeps its connection and its row locks as long as the request lasts: a
later element that needs the same rows waits, and the bulk with it. Without
`continueOnFailure` what follows a panic is applied all the same. An element whose
commit was answered by a lost connection is reported as an error and is in the
ledger. An empty script in a text stream ends the process. When the client of a stream goes away the collector stops and
workers block in their send. A malformed element ends a stream like its end does:
an atomic bulk commits what came before it, with status 200.

*Replication.* Without hashed logs (`OrderedCommits = FALSE`) a log that commits
after a higher id was exported is never exported. A cursor stored late by a stopped
handler undoes a reset if a restart follows. `StopPipeline` leaves the row enabled:
the next pass starts the pipeline again. A stop given up by
its caller has its signal already in the channel: the handler ends later, its entry
in `m.pipelines` makes every pass skip the pipeline, and its logs are not sent until
the process restarts (`manager_test.go:249` expects of the polling that it starts
what was stopped); the operation is undone, so that an exporter may not be updated
although some of its pipelines were stopped. A pipeline whose ledger cannot be opened
ends the pass, and pipelines after it stay stopped. A driver registered by a start
that then failed is reused after an update of its exporter, if no running pipeline
forces a new one, and exports with the old configuration (`outlived`). An operation the batcher
could not be given is nil and is waited for all the same, a panic of the process:
one more `Crash`.

*Buckets.* A bucket restored between the listing and the drop, or a ledger created
in a bucket that is deleted, is dropped with its live ledgers. The blocks of a
bucket share one key: a second ledger with asynchronous hashes in it never gets a
block, and the pass gives up at it. A log that commits below a block that was cut
is in no block.

*Payments.* A crash between two writes leaves an attempt without its command,
submitted for ever. A crash that keeps the first writes of a completed command, whose
repetitions then fail up to the dead letter, and a second crash that keeps only that
dead letter: the attempt is completed without a posting, and nothing but the dead
letter says so. A submission repeated after a crash that lost the attempt, or
a retry while the first attempt is under way, pays an order twice. The last retry
of a command may have been executed: the attempt is failed although paid, and a
posting is dead-lettered although it is in the ledger. A cancelled order is still
executed if its command was claimed. An order one
of whose completed attempts is missing in the ledger is matched if another one is
there. Only reconciliation and aging are scheduled: commands, postings and webhooks
wait for the next API call.

*Webhooks.* A result or webhook that comes late, or is replayed, sets a completed
order back (`ops/runbooks/airwallex/webhook-replay.md:30` says that the idempotency
check prevents it; the check is by event id). One that comes before the provider's
reference is recorded is ignored until an operator retries it. One whose signature
does not verify is believed once it is retried: it completes and posts a payment. Of
two attempts under one reference, the second is completed and posted, and its webhook
finds the first and posts that one too (`e2e-stage1-payment-flow.test.ts:100` expects
"no double-posting" of a webhook for a completed payment).

*Commands.* The check for a duplicate reference finds the attempt's own transaction
when a sync recorded it without its attempt, which happens around a crash, and
dead-letters a command that was paid. A retry that the router refuses leaves the order
`created`. While the binding of a provider is disabled a command uses up its retries
before it is dead-lettered; `roadmap/milestone-mp4.md:26` says "dead-lettered
immediately without consuming retry budget".

## What is not modelled

*Inside the modelled components.* Validation against a schema and the chart of
accounts, metadata, timestamps and effective volumes, the size of scripts, the
bytecode of the machine and scripts that split amounts or fall back to further
sources (a command is the list of postings a script produces, each checked
against its source), the hash of a log beyond the log it is chained to, the text
of errors, tracing and metrics. A request whose script is refused by the compiler
never reaches the store's writes. Storage failures other than deadlocks, lost
connections and constraint violations end a request in the same way as an error
does and add no state. In `Payments`: amounts, customers, accounts, beneficiaries,
the idempotency records of order creation, routing rules, the statements a provider
sends as a file (`ingestProviderStatement`), and writes the database refuses, which
`#persist` skips.

*Whole components.* The generated parser, the gRPC stubs and the Go client, which
make up most of the repository's lines, are generated code. The Numscript compiler
is a pure translation whose output is the machine's input. The HTTP APIs decode
and route; the read side builds queries and changes nothing beyond the scope of
its rows, which `Buckets` has. The migrations run once, before anything else. The
Camunda workers call the modelled services; the routing engine is a pure choice;
portal, website and operations UI display; the deployment is infrastructure.

## Plan

Done: the ledger's writes with their serial specification, the life of a ledger,
bulks, replication, buckets with their workers, and payments; proofs of every safety
property the passing runs check and of the refinement of the serial ledger. Left, in
the order of what they would add:

1. Metadata operations and schema insertion in `LedgerWrite`: they share the log
   processor's path and add rows no other operation reads.
2. Composition of `Payments` with `AtomicLedger` in the place of its external
   ledger: `WritesAreSerializable` then says of the payments what the code does.
