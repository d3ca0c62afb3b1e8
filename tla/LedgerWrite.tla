----------------------------- MODULE LedgerWrite -----------------------------
(***************************************************************************)
(* Concurrent writes to one ledger: the log processor of the controller    *)
(* (internal/controller/ledger/log_process.go), the createTransaction and  *)
(* revertTransaction functions it runs (controller_default.go), and the    *)
(* SQL statements these issue (internal/storage/ledger).                   *)
(*                                                                         *)
(* Every client request is a process that takes one step per statement.    *)
(* The statements run in a READ COMMITTED transaction, one per attempt:    *)
(*                                                                         *)
(*  - what an attempt writes is private until Commit;                      *)
(*  - a row it inserts or updates, a unique key it inserts and an advisory *)
(*    lock are resources it holds until it commits or rolls back, and      *)
(*    another transaction that needs one waits: locks[r] is what r holds;  *)
(*  - a statement sees the rows committed when it started, and the latest  *)
(*    committed version of a row it waited for;                            *)
(*  - a sequence never gives a number back;                                *)
(*  - a cycle of waits is broken by failing one of its transactions.       *)
(*                                                                         *)
(* A transaction occupies one connection of the pool from Begin to its     *)
(* end; UpsertAccounts runs outside of it, on a connection of its own.     *)
(***************************************************************************)
EXTENDS Ledger

CONSTANTS
  PoolSize,    \* maximum number of open connections
  MaxId,       \* bound on the ids a sequence gives
  MaxResends   \* bound on connection losses and client resends

ASSUME BoundsAssumption ==
  PoolSize \in Nat /\ MaxResends \in Nat /\ MaxId \in Nat /\ Len(Genesis) <= MaxId

VARIABLES
  volumes,       \* table accounts_volumes
  transactions,  \* table transactions
  reverted,      \* ids of the transactions whose reverted_at is set
  logs,          \* table logs
  accounts,      \* table accounts: the addresses in it
  txSeq,         \* sequence transaction_id_<ledger>
  logSeq,        \* sequence log_id_<ledger>
  locks,         \* what the transaction of each request holds
  pc,            \* the statement each request is about to issue
  attempt,       \* "first" in forgeLog, "retry" in forgeLogRetry
  work,          \* what the current attempt has read and written
  reply,         \* the answer given to each request
  resends

db   == <<volumes, transactions, reverted, logs>>
vars == <<db, accounts, txSeq, logSeq, locks, pc, attempt, work, reply, resends>>

-----------------------------------------------------------------------------
(* Resources, and the records of the tables. *)

Row(a)    == <<"row", a>>      \* row of accounts_volumes
TxRow(id) == <<"tx", id>>      \* row of transactions
Ref(x)    == <<"ref", x>>      \* key of unique index transactions_reference
IK(k)     == <<"ik", k>>       \* key of unique index logs_idempotency_key
LogTable  == <<"log", 0>>      \* pg_advisory_xact_lock(ledger id)

Free(x, r) == \A q \in Requests \ {r} : x \notin locks[q]
Held(r)    == { a \in Accounts : Row(a) \in locks[r] }

NoRows == [a \in Accounts |-> None]

NoWork == [postings |-> <<>>, reverts |-> 0, seen |-> {}, new |-> {}, written |-> NoRows,
           txid |-> 0, log |-> [id |-> 0, prev |-> 0]]

Latest(a) == LatestIn(volumes, a)

NewTransaction(r) ==
  [id |-> work[r].txid, postings |-> work[r].postings,
   ref |-> IF Cmd[r].op = "create" THEN Cmd[r].ref ELSE None,
   reverts |-> work[r].reverts, pcv |-> work[r].written]

NewLog(r) ==
  [id |-> work[r].log.id, prev |-> work[r].log.prev, ik |-> Cmd[r].ik,
   input |-> Input(r), tx |-> work[r].txid]

LogWithIK(k) == { l \in logs : k # None /\ l.ik = k }

-----------------------------------------------------------------------------
(* Initial state: the Genesis transactions are committed, nobody writes.    *)

Init ==
  /\ transactions = GenesisTransactions
  /\ logs = GenesisLogs
  /\ accounts = { AddressOf[a] : a \in GenesisAccounts }
  /\ volumes = GenesisVolumes
  /\ reverted = {}
  /\ txSeq = Len(Genesis) /\ logSeq = Len(Genesis)
  /\ locks = [r \in Requests |-> {}]
  /\ pc = [r \in Requests |-> "idle"]
  /\ attempt = [r \in Requests |-> "first"]
  /\ work = [r \in Requests |-> NoWork]
  /\ reply = [r \in Requests |-> None]
  /\ resends = 0

-----------------------------------------------------------------------------
(* Common parts of the actions. *)

Goto(r, from, to) == pc[r] = from /\ pc' = [pc EXCEPT ![r] = to]
Acquire(r, x)     == Free(x, r) /\ locks' = [locks EXCEPT ![r] = @ \cup {x}]
Release(r)        == locks' = [locks EXCEPT ![r] = {}] /\ work' = [work EXCEPT ![r] = NoWork]

InTransaction(r) == pc[r] \notin {"idle", "fetchIK", "done"}
Connections ==
  Cardinality({ r \in Requests : InTransaction(r) })
    + Cardinality({ r \in Requests : pc[r] = "insertAccounts" })
FreeConnection == Connections < PoolSize

\* The end of a request: its transaction, if any, ends and the client is answered.
Answer(r, kind, log) ==
  /\ Release(r)
  /\ pc' = [pc EXCEPT ![r] = "done"]
  /\ reply' = [reply EXCEPT ![r] = [kind |-> kind, log |-> log]]
  /\ UNCHANGED <<accounts, txSeq, logSeq, attempt, resends>>

\* An error the log processor does not retry: rollback and report.
Fail(r, kind) == Answer(r, kind, 0) /\ UNCHANGED db

\* Faulty: the attempt starts again without a rollback.
RetryWithoutRollback(r) ==
  /\ pc' = [pc EXCEPT ![r] = "idle"]
  /\ attempt' = [attempt EXCEPT ![r] = "retry"]
  /\ work' = [work EXCEPT ![r] = NoWork]
  /\ UNCHANGED <<db, accounts, txSeq, logSeq, locks, reply, resends>>

\* An error it does retry: rollback, and another attempt in forgeLogRetry.
Retry(r) ==
  /\ Release(r)
  /\ pc' = [pc EXCEPT ![r] = "idle"]
  /\ attempt' = [attempt EXCEPT ![r] = "retry"]
  /\ UNCHANGED <<db, accounts, txSeq, logSeq, reply, resends>>

\* Faulty: the idempotency hash is not compared.
AnswerFromAnyLog(r) ==
  \E l \in LogWithIK(Cmd[r].ik) : Answer(r, "hit", l.id) /\ UNCHANGED db

\* What fetchLogWithIK answers once it has found the log of the key.
AnswerFromLog(r) ==
  \E l \in LogWithIK(Cmd[r].ik) :
    /\ IF l.input = Input(r) THEN Answer(r, "hit", l.id) ELSE Answer(r, "ik_input_mismatch", 0)
    /\ UNCHANGED db

Others == <<accounts, attempt, reply, resends>>

-----------------------------------------------------------------------------
(* The beginning of an attempt. *)

FirstStatement(r) == IF Cmd[r].op = "create" THEN "balances" ELSE "revert"

\* forgeLog looks the key up; forgeLogRetry goes straight to the operation.
Begin(r) ==
  /\ FreeConnection
  /\ Goto(r, "idle", IF Cmd[r].ik # None /\ attempt[r] = "first" THEN "readIK"
                                                               ELSE FirstStatement(r))
  /\ work' = [work EXCEPT ![r].postings = IF Cmd[r].op = "create" THEN Cmd[r].postings ELSE <<>>]
  /\ UNCHANGED <<db, txSeq, logSeq, locks, Others>>

ReadIK(r) ==
  \/ /\ pc[r] = "readIK"
     /\ AnswerFromLog(r)
  \/ /\ LogWithIK(Cmd[r].ik) = {}
     /\ Goto(r, "readIK", FirstStatement(r))
     /\ UNCHANGED <<db, txSeq, logSeq, locks, work, Others>>

\* Faulty: without "reverted_at is null".
RevertAnyTransaction(r) ==
  \E t \in transactions :
    /\ t.id = Cmd[r].target
    /\ Goto(r, "revert", "balances")
    /\ Acquire(r, TxRow(t.id))
    /\ work' = [work EXCEPT ![r].postings = ReversePostings(t.postings), ![r].reverts = t.id]
    /\ UNCHANGED <<db, txSeq, logSeq, Others>>

\* The UPDATE of store.RevertTransaction: where id = target and reverted_at is null.
RevertTransaction(r) ==
  \E t \in transactions :
    /\ t.id = Cmd[r].target
    /\ t.id \notin reverted
    /\ Goto(r, "revert", "balances")
    /\ Acquire(r, TxRow(t.id))
    /\ work' = [work EXCEPT ![r].postings = ReversePostings(t.postings), ![r].reverts = t.id]
    /\ UNCHANGED <<db, txSeq, logSeq, Others>>

RefuseRevert(r) ==
  /\ pc[r] = "revert"
  /\ \/ Cmd[r].target \in reverted /\ Fail(r, "already_reverted")
     \/ (\A t \in transactions : t.id # Cmd[r].target) /\ Fail(r, "not_found")

-----------------------------------------------------------------------------
(***************************************************************************)
(* GetBalances, one statement in several steps: its snapshot is taken, the *)
(* rows in it are locked in the order of the addresses (select ... for     *)
(* update), then the missing rows are inserted in the same order (on       *)
(* conflict do nothing).  A row that appeared after the snapshot is        *)
(* neither locked nor read: its balance is reported as 0.                  *)
(***************************************************************************)
\* Faulty: the accounts that receive instead of those that pay.
QueriedReceivers(r) == Query(r, ReversePostings(work[r].postings))
Queried(r) == Query(r, work[r].postings)

Lowest(S) == { a \in S : \A b \in S : a <= b }

\* Faulty: without "for update".
ToLockNone(r) == {}

ToLock(r)   == work[r].seen \ Held(r)
ToInsert(r) == { a \in Queried(r) : a \notin Held(r) /\ a \notin Rows(volumes) }
ToRead(r)   == IF ToLock(r) # {} THEN Lowest(ToLock(r)) ELSE Lowest(ToInsert(r))

BalancesRead(r) ==
  [a \in Queried(r) |-> IF a \in work[r].seen THEN Balance(volumes[a]) ELSE 0]

Snapshot(r) ==
  /\ Goto(r, "balances", "getBalances")
  /\ work' = [work EXCEPT ![r].seen = Queried(r) \cap Rows(volumes)]
  /\ UNCHANGED <<db, txSeq, logSeq, locks, Others>>

LockOrInsertRow(r) ==
  /\ pc[r] = "getBalances"
  /\ \E a \in ToRead(r) : Acquire(r, Row(a))
  /\ UNCHANGED <<db, txSeq, logSeq, pc, work, Others>>

\* The machine runs, or the balances after the revert are checked.
Panics(r) ==
  Cmd[r].op = "revert" /\ ~Cmd[r].force /\ MissesAsset(work[r].postings, BalancesRead(r))

Execute(r) ==
  /\ pc[r] = "getBalances"
  /\ ToRead(r) = {}
  /\ IF Panics(r) THEN Fail(r, "panic")
     ELSE IF ~Sufficient(r, work[r].postings, BalancesRead(r)) THEN Fail(r, "insufficient_fund")
     ELSE IF work[r].postings = <<>> THEN Fail(r, "no_postings")
     ELSE /\ Goto(r, "getBalances", "updateVolumes")
          /\ UNCHANGED <<db, txSeq, logSeq, locks, work, Others>>

-----------------------------------------------------------------------------
(* CommitTransaction: UpdateVolumes, then InsertTransaction. *)

ToUpdate(r) == Lowest(Involved(work[r].postings) \ Rows(work[r].written))

\* Faulty: the row is updated without being locked.
UpdateUnlockedRow(r) ==
  /\ pc[r] = "updateVolumes"
  /\ \E a \in ToUpdate(r) :
       work' = [work EXCEPT ![r].written[a] = AddPostings(Latest(a), work[r].postings, a)]
  /\ UNCHANGED <<db, txSeq, logSeq, locks, pc, Others>>

\* insert ... on conflict do update, row by row: the latest version is added to.
UpdateRow(r) ==
  /\ pc[r] = "updateVolumes"
  /\ \E a \in ToUpdate(r) :
       /\ Acquire(r, Row(a))
       /\ work' = [work EXCEPT ![r].written[a] = AddPostings(Latest(a), work[r].postings, a)]
  /\ UNCHANGED <<db, txSeq, logSeq, pc, Others>>

\* Faulty: the number is read but the sequence does not advance.
PeekTransactionID(r) ==
  /\ ToUpdate(r) = {}
  /\ Goto(r, "updateVolumes", "insertTransaction")
  /\ work' = [work EXCEPT ![r].txid = txSeq + 1]
  /\ UNCHANGED <<db, txSeq, logSeq, locks, Others>>

NextTransactionID(r) ==
  /\ txSeq < MaxId
  /\ ToUpdate(r) = {}
  /\ Goto(r, "updateVolumes", "insertTransaction")
  /\ txSeq' = txSeq + 1
  /\ work' = [work EXCEPT ![r].txid = txSeq + 1]
  /\ UNCHANGED <<db, logSeq, locks, Others>>

\* Faulty: the index on the references is not unique.
InsertAnyTransaction(r) ==
  /\ Goto(r, "insertTransaction", IF Cmd[r].op = "create" THEN "upsertAccounts" ELSE "log")
  /\ UNCHANGED <<db, txSeq, logSeq, locks, work, Others>>

InsertTransaction(r) ==
  /\ Goto(r, "insertTransaction", IF Cmd[r].op = "create" THEN "upsertAccounts" ELSE "log")
  /\ IF Cmd[r].ref = None \/ Cmd[r].op = "revert"
     THEN UNCHANGED locks
     ELSE /\ \A t \in transactions : t.ref # Cmd[r].ref
          /\ Acquire(r, Ref(Cmd[r].ref))
  /\ UNCHANGED <<db, txSeq, logSeq, work, Others>>

ReferenceConflict(r) ==
  /\ pc[r] = "insertTransaction"
  /\ Cmd[r].op = "create" /\ Cmd[r].ref # None
  /\ \E t \in transactions : t.ref = Cmd[r].ref
  /\ Fail(r, "reference_conflict")

(***************************************************************************)
(* UpsertAccounts is called on ctrl.store, not on the transaction's store: *)
(* it takes a second connection and commits at once.  One statement in two *)
(* steps: the addresses missing from its snapshot, then their insertion,   *)
(* which the unique index refuses if one of them appeared in between.      *)
(***************************************************************************)
ReadAccounts(r) ==
  /\ FreeConnection
  /\ Goto(r, "upsertAccounts", "insertAccounts")
  /\ work' = [work EXCEPT ![r].new =
                { AddressOf[a] : a \in Involved(work[r].postings) } \ accounts]
  /\ UNCHANGED <<db, txSeq, logSeq, locks, Others>>

InsertAccounts(r) ==
  /\ Goto(r, "insertAccounts", "log")
  /\ work[r].new \cap accounts = {}
  /\ accounts' = accounts \cup work[r].new
  /\ work' = [work EXCEPT ![r].new = {}]
  /\ UNCHANGED <<db, txSeq, logSeq, locks, attempt, reply, resends>>

AccountsConflict(r) ==
  /\ pc[r] = "insertAccounts"
  /\ work[r].new \cap accounts # {}
  /\ Fail(r, "accounts_conflict")

-----------------------------------------------------------------------------
(* InsertLog, and the end of the attempt. *)

LockLogs(r) ==
  /\ HashLogs
  /\ Goto(r, "log", "logID")
  /\ Acquire(r, LogTable)
  /\ UNCHANGED <<db, txSeq, logSeq, work, Others>>

\* The id is drawn and, if logs are hashed, the trigger reads the last log.
NextLogID(r) ==
  /\ logSeq < MaxId
  /\ Goto(r, IF HashLogs THEN "logID" ELSE "log", "insertLog")
  /\ logSeq' = logSeq + 1
  /\ work' = [work EXCEPT ![r].log = [id |-> logSeq + 1, prev |-> IF HashLogs THEN LastIn(logs) ELSE 0]]
  /\ UNCHANGED <<db, txSeq, locks, Others>>

\* Faulty: the index on the idempotency keys is not unique.
InsertAnyLog(r) ==
  /\ Goto(r, "insertLog", "commit")
  /\ UNCHANGED <<db, txSeq, logSeq, locks, work, Others>>

\* Faulty: the advisory lock ends with the statement, not with the transaction.
InsertLogAndUnlock(r) ==
  /\ Goto(r, "insertLog", "commit")
  /\ locks' = [locks EXCEPT ![r] = @ \ {LogTable}]
  /\ UNCHANGED <<db, txSeq, logSeq, work, Others>>

InsertLog(r) ==
  /\ Goto(r, "insertLog", "commit")
  /\ IF Cmd[r].ik = None
     THEN UNCHANGED locks
     ELSE LogWithIK(Cmd[r].ik) = {} /\ Acquire(r, IK(Cmd[r].ik))
  /\ UNCHANGED <<db, txSeq, logSeq, work, Others>>

\* Faulty: the conflict is reported without waiting for the holder of the key.
IdempotencyKeyTaken(r) ==
  /\ pc[r] = "insertLog"
  /\ LogWithIK(Cmd[r].ik) # {} \/ ~Free(IK(Cmd[r].ik), r)
  /\ IF attempt[r] = "first" THEN Retry(r)
     ELSE /\ Release(r)
          /\ pc' = [pc EXCEPT ![r] = "fetchIK"]
          /\ UNCHANGED <<db, txSeq, logSeq, Others>>

\* The unique index refuses the key: forgeLog retries, forgeLogRetry reads the log.
IdempotencyKeyConflict(r) ==
  /\ pc[r] = "insertLog"
  /\ LogWithIK(Cmd[r].ik) # {}
  /\ IF attempt[r] = "first" THEN Retry(r)
     ELSE /\ Release(r)
          /\ pc' = [pc EXCEPT ![r] = "fetchIK"]
          /\ UNCHANGED <<db, txSeq, logSeq, Others>>

\* The code panics if there is no such log: see KeyConflictHasLog.
FetchIK(r) ==
  /\ pc[r] = "fetchIK"
  /\ FreeConnection
  /\ AnswerFromLog(r)

\* Faulty: rows that exist are left as they are ("on conflict do nothing").
CommitNewRows(r) ==
  /\ pc[r] = "commit"
  /\ ~Cmd[r].dry
  /\ volumes' = Merged(work[r].written, volumes)
  /\ transactions' = transactions \cup {NewTransaction(r)}
  /\ reverted' = reverted \cup ({work[r].reverts} \ {0})
  /\ logs' = logs \cup {NewLog(r)}
  /\ Answer(r, "ok", work[r].log.id)

Commit(r) ==
  /\ pc[r] = "commit"
  /\ ~Cmd[r].dry
  /\ volumes' = Merged(volumes, work[r].written)
  /\ transactions' = transactions \cup {NewTransaction(r)}
  /\ reverted' = reverted \cup ({work[r].reverts} \ {0})
  /\ logs' = logs \cup {NewLog(r)}
  /\ Answer(r, "ok", work[r].log.id)

RollbackDryRun(r) ==
  /\ pc[r] = "commit"
  /\ Cmd[r].dry
  /\ Fail(r, "dry_run")

-----------------------------------------------------------------------------
(***************************************************************************)
(* The database breaks a cycle of waits by failing one transaction of it.  *)
(* A request waits for one resource at most, and a resource has one holder *)
(* at most, so a set of requests each blocked by a member of the set, and  *)
(* each blocking a member, is made of cycles.                              *)
(***************************************************************************)
Wants(r) ==
  CASE pc[r] = "revert"        -> {TxRow(Cmd[r].target)}
    [] pc[r] = "getBalances"   -> { Row(a) : a \in ToRead(r) }
    [] pc[r] = "updateVolumes" -> { Row(a) : a \in ToUpdate(r) }
    [] pc[r] = "insertTransaction" /\ Cmd[r].op = "create" -> {Ref(Cmd[r].ref)}
    [] pc[r] = "log"           -> {LogTable}
    [] pc[r] = "insertLog"     -> {IK(Cmd[r].ik)}
    [] OTHER                   -> {}

BlockedBy(r)  == { q \in Requests \ {r} : Wants(r) \cap locks[q] # {} }
Deadlocked(r) ==
  \E S \in SUBSET Requests :
    /\ r \in S
    /\ S = UNION { BlockedBy(q) : q \in S }
    /\ \A q \in S : BlockedBy(q) # {}

DeadlockDetected(r) == Deadlocked(r) /\ Retry(r)

\* A connection dies, or an answer never arrives: the client sends the request
\* again, which is only safe with an idempotency key.
Resend(r) ==
  /\ resends < MaxResends
  /\ pc[r] # "idle" /\ Cmd[r].ik # None
  /\ Release(r)
  /\ pc' = [pc EXCEPT ![r] = "idle"]
  /\ attempt' = [attempt EXCEPT ![r] = "first"]
  /\ reply' = [reply EXCEPT ![r] = None]
  /\ resends' = resends + 1
  /\ UNCHANGED <<db, accounts, txSeq, logSeq>>

-----------------------------------------------------------------------------
Step(r) ==
  \/ Begin(r) \/ ReadIK(r) \/ RevertTransaction(r) \/ RefuseRevert(r)
  \/ Snapshot(r) \/ LockOrInsertRow(r) \/ Execute(r)
  \/ UpdateRow(r) \/ NextTransactionID(r) \/ InsertTransaction(r) \/ ReferenceConflict(r)
  \/ ReadAccounts(r) \/ InsertAccounts(r) \/ AccountsConflict(r)
  \/ LockLogs(r) \/ NextLogID(r) \/ InsertLog(r) \/ IdempotencyKeyConflict(r) \/ FetchIK(r)
  \/ Commit(r) \/ RollbackDryRun(r)
  \/ DeadlockDetected(r)

AllAnswered == (\A r \in Requests : pc[r] = "done") /\ UNCHANGED vars

Next == (\E r \in Requests : Step(r) \/ Resend(r)) \/ AllAnswered

(***************************************************************************)
(* A statement that can run does run, and the database tells a cycle of    *)
(* waits.  A request that waits for a row is queued behind its holder, and *)
(* so gets it even if others take it first again and again.                *)
(***************************************************************************)
Fairness ==
  \A r \in Requests : WF_vars(Step(r)) /\ SF_vars(LockOrInsertRow(r)) /\ SF_vars(UpdateRow(r))

Spec     == Init /\ [][Next]_vars
FairSpec == Spec /\ Fairness

-----------------------------------------------------------------------------
(* Type invariant. *)

Resources == { Row(a) : a \in Accounts } \cup { TxRow(id) : id \in 1..txSeq }
               \cup { Ref(Cmd[r].ref) : r \in Requests } \cup { IK(Cmd[r].ik) : r \in Requests }
               \cup {LogTable}

Statements == {"idle", "readIK", "revert", "balances", "getBalances", "updateVolumes",
               "insertTransaction", "upsertAccounts", "insertAccounts", "log", "logID",
               "insertLog", "commit", "fetchIK", "done"}

Addresses == { AddressOf[a] : a \in Accounts }

Work == [postings : Scripts, reverts : Nat, seen : SUBSET Accounts, new : SUBSET Addresses,
         written : VolumeTable, txid : 0..txSeq, log : [id : 0..logSeq, prev : 0..logSeq]]

(***************************************************************************)
(* Every row of accounts_volumes, committed or not, holds two natural      *)
(* numbers; every id comes from its sequence and every list of postings    *)
(* from a request, or from reversing one; a lock is one a statement takes. *)
(***************************************************************************)
TypeOK ==
  /\ volumes \in VolumeTable
  /\ \A t \in transactions : t.id \in 1..txSeq /\ t.postings \in Scripts /\ t.pcv \in VolumeTable
  /\ reverted \subseteq IdsOf(transactions)
  /\ \A l \in logs : l.id \in 1..logSeq /\ l.prev \in 0..logSeq
  /\ accounts \subseteq Addresses
  /\ txSeq \in 0..MaxId /\ logSeq \in 0..MaxId
  /\ locks \in [Requests -> SUBSET Resources]
  /\ pc \in [Requests -> Statements]
  /\ attempt \in [Requests -> {"first", "retry"}]
  /\ work \in [Requests -> Work]
  /\ resends \in 0..MaxResends

-----------------------------------------------------------------------------
(* Safety properties. *)

TotalOf(txs, a) ==
  [in  |-> SumFunction([t \in txs |-> InputOf(t.postings, a)]),
   out |-> SumFunction([t \in txs |-> OutputOf(t.postings, a)])]

(***************************************************************************)
(* The volumes of an account are the sums of the committed postings, and   *)
(* the volumes recorded with each transaction are the sums of the postings *)
(* of the transactions up to its id: no update is lost, and ids follow the *)
(* order in which an account was updated (UpdateVolumes takes the row      *)
(* locks before nextval draws the id).                                     *)
(***************************************************************************)
VolumesMatchTransactions ==
  /\ \A a \in Rows(volumes) : volumes[a] = TotalOf(transactions, a)
  /\ \A t \in transactions : \A a \in Rows(t.pcv) :
       t.pcv[a] = TotalOf({ u \in transactions : u.id <= t.id }, a)

(***************************************************************************)
(* What an attempt has written is the latest committed version of the row  *)
(* plus its own postings until it ends, whoever commits meanwhile.         *)
(***************************************************************************)
NoLostUpdate ==
  \A r \in Requests : \A a \in Rows(work[r].written) :
    work[r].written[a] = AddPostings(Latest(a), work[r].postings, a)

HasTransactionID == {"insertTransaction", "upsertAccounts", "insertAccounts", "log", "logID",
                     "insertLog", "commit"}

(***************************************************************************)
(* What an attempt has done so far it protects until it ends: the rows it  *)
(* wrote, the transaction it reverts, its reference and its key are held.  *)
(***************************************************************************)
Holds(r) ==
  /\ pc[r] \in HasTransactionID => work[r].txid # 0
  /\ pc[r] \in {"insertLog", "commit"} => work[r].log.id # 0
  /\ \A a \in Rows(work[r].written) : Row(a) \in locks[r]
  /\ work[r].reverts # 0 => TxRow(work[r].reverts) \in locks[r]
  /\ pc[r] \in HasTransactionID \ {"insertTransaction"} /\ Cmd[r].op = "create"
       /\ Cmd[r].ref # None => Ref(Cmd[r].ref) \in locks[r]
  /\ pc[r] = "commit" /\ Cmd[r].ik # None => IK(Cmd[r].ik) \in locks[r]

HoldsLocks == \A r \in Requests : Holds(r)

(***************************************************************************)
(* What an attempt holds is still its to use: no committed log has the     *)
(* key, no committed transaction the reference, and the transaction whose  *)
(* row it holds is committed and not reverted.                             *)
(***************************************************************************)
Fresh(x) ==
  /\ \A l \in logs : l.ik # None => x # IK(l.ik)
  /\ \A t \in transactions : t.ref # None => x # Ref(t.ref)
  /\ x[1] = "tx" => x[2] \in IdsOf(transactions) \ reverted

LocksAreFresh == \A r \in Requests : \A x \in locks[r] : Fresh(x)

(***************************************************************************)
(* A key is written once, a reference is used once, a transaction is       *)
(* reverted by one transaction at most, which reverted_at says.            *)
(***************************************************************************)
IdempotencyKeyUnique == \A k, l \in logs : k.ik # None /\ k.ik = l.ik => k = l
ReferenceUnique      == \A t, u \in transactions : t.ref # None /\ t.ref = u.ref => t = u
RevertedOnce ==
  /\ \A t, u \in transactions : t.reverts # 0 /\ t.reverts = u.reverts => t = u
  /\ reverted = { t.reverts : t \in transactions } \ {0}

(***************************************************************************)
(* A bounded account never goes below the largest overdraft a request may  *)
(* use on it: the balances the machine ran on are still true when the      *)
(* transaction commits.                                                    *)
(***************************************************************************)
Drawers(a)  == { r \in Requests : Cmd[r].op = "create" /\ a \in Sources(Cmd[r].postings) }
Bounded(a)  == ~IsWorld(a) /\ \A r \in Requests : ~Cmd[r].force
                 /\ (r \in Drawers(a) => Cmd[r].overdraft # Unbounded)
OverdraftBound ==
  \A a \in Rows(volumes) : Bounded(a) /\ Balance(volumes[a]) < 0 =>
    \E r \in Drawers(a) : Balance(volumes[a]) + Cmd[r].overdraft >= 0

(***************************************************************************)
(* Hashed logs form a chain: the log a hash is computed from is the one    *)
(* just before, in the order of the ids.                                   *)
(***************************************************************************)
LogChain ==
  HashLogs => \A l \in logs : l.prev = LastIn({ k \in logs : k.id < l.id })

(***************************************************************************)
(* forgeLogRetry panics if the key that was refused has no log; it always  *)
(* has one, since a duplicate waits for the first holder to commit.        *)
(***************************************************************************)
KeyConflictHasLog ==
  \A r \in Requests : pc[r] = "fetchIK" => LogWithIK(Cmd[r].ik) # {}

(***************************************************************************)
(* What the tables and the clients show of the concurrent writes is a      *)
(* serial execution of the requests.                                       *)
(***************************************************************************)
Serial == INSTANCE AtomicLedger WITH Ids <- 1..MaxId

Serializable == Serial!Spec

-----------------------------------------------------------------------------
(* Liveness. *)

(***************************************************************************)
(* Every request is answered, however often the database breaks deadlocks  *)
(* and whoever else holds connections of the pool.                         *)
(***************************************************************************)
EveryRequestAnswered == \A r \in Requests : []<>(pc[r] = "done")

=============================================================================
