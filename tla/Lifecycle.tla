----------------------------- MODULE Lifecycle -----------------------------
(***************************************************************************)
(* The life of one ledger, from its creation to its first writes: the      *)
(* state tracker that every HTTP request goes through                      *)
(* (controller/system/state_tracker.go), the import of an exported ledger  *)
(* (Import of controller_default.go and its HTTP handler), the advisory    *)
(* lock that keeps the two apart (LockLedger of storage/ledger/store.go),  *)
(* the decorator that publishes events (controller_with_events.go), and    *)
(* the atomic bulk, whose transaction is opened behind the state tracker   *)
(* (api/bulking/bulker.go).                                                *)
(*                                                                         *)
(* A request is a write, a dry run of a write, an atomic bulk or an        *)
(* import.  What a write does to accounts and volumes is the subject of    *)
(* LedgerWrite; here a write is the log it inserts.  The sequence of       *)
(* transaction ids is handled by the same statements as the sequence of    *)
(* log ids, and only the latter is modelled.                               *)
(***************************************************************************)
EXTENDS Integers, Sequences, FiniteSetsExt

CONSTANTS Requests,     \* the requests of a behaviour
          Facades,      \* controllers, one per HTTP request
          Kind,         \* what each request asks for
          Facade,       \* elements of a parallel bulk share one controller
          Exported,     \* the ids of the logs of the ledger that was exported
          Stream,       \* the ids of those that an import sends
          Interrupted,  \* the imports whose request body may break off
          BulkSize,     \* elements of an atomic bulk
          Meetings,     \* the sets of requests that may meet, and on which ledger
          Free          \* the advisory lock is not held

Kinds == {"write", "dry", "bulk", "import"}
States == {"initializing", "in-use"}
Unread == "unread"

(* Ended: the request has been answered, or is not made in this behaviour. *)
(* A request that failed on an id already in the table is told apart from  *)
(* the other failures.                                                     *)
Ended == {"ok", "refused", "failed", "taken", "absent"}

(* Requests that meet on a ledger: a new one, or one already written, with *)
(* the feature HASH_LOGS SYNC or not.                                      *)
Meeting == [requests : SUBSET Requests, used : BOOLEAN, sync : BOOLEAN]

ASSUME ConstantsAssumption ==
    /\ Kind \in [Requests -> Kinds]
    /\ Facade \in [Requests -> Facades]
    /\ Exported \subseteq Nat \ {0}
    /\ Stream \in [Requests -> Seq(Exported)]
    /\ Interrupted \subseteq Requests
    /\ BulkSize \in Nat \ {0}
    /\ Meetings \subseteq Meeting
    /\ Free \notin Requests

VARIABLES row,     \* the column state of the ledger's row
          sync,    \* whether its logs are hashed as they are inserted
          logs,    \* the committed logs, in the order of their commits
          seq,     \* the sequence of log ids: no rollback moves it back
          lock,    \* the holder of the ledger's advisory lock
          cached,  \* the state each controller remembers
          pc,      \* where each request is
          id,      \* the id a request has drawn and not inserted yet
          staged,  \* ids inserted in a request's open transaction
          last,    \* the highest id an import has seen
          next,    \* the position of an import in its stream
          events   \* requests whose event has been published

vars == <<row, sync, logs, seq, lock, cached, pc, id, staged, last, next, events>>

Log == [id : Nat, from : {"write", "import"}]

Init ==
    /\ \E m \in Meetings :
         /\ row = IF m.used THEN "in-use" ELSE "initializing"
         /\ sync = m.sync
         /\ logs = IF m.used THEN <<[id |-> 1, from |-> "write"]>> ELSE <<>>
         /\ pc = [r \in Requests |-> IF r \in m.requests THEN "start" ELSE "absent"]
    /\ seq = Len(logs)
    /\ lock = Free
    /\ cached = [f \in Facades |-> Unread]
    /\ id = [r \in Requests |-> 0]
    /\ staged = [r \in Requests |-> <<>>]
    /\ last = [r \in Requests |-> 0]
    /\ next = [r \in Requests |-> 1]
    /\ events = {}
-----------------------------------------------------------------------------
Ids == {logs[i].id : i \in DOMAIN logs}
MaxId == IF Ids = {} THEN 0 ELSE Max(Ids)
StagedBy(r) == {staged[r][i] : i \in DOMAIN staged[r]}
Others(r) == Requests \ {r}
Locked(r) == lock = r

(* Faulty: ids are drawn before the lock is taken.                         *)
MayInsertAlways(r) == TRUE

(* The lock that InsertLog takes when logs are hashed synchronously, held  *)
(* from the drawing of the id to the end of the transaction.               *)
MayInsert(r) == sync => \A q \in Others(r) : pc[q] # "drawn" /\ staged[q] = <<>>

(* An insertion waits for the transactions that hold the same id.          *)
NoWait(r, i) == \A q \in Others(r) : i \notin StagedBy(q)

(* The end of a transaction or of an import: what is staged is forgotten   *)
(* and the advisory lock is free again.                                    *)
End(r, answer) ==
    /\ pc' = [pc EXCEPT ![r] = answer]
    /\ staged' = [staged EXCEPT ![r] = <<>>]
    /\ lock' = IF Locked(r) THEN Free ELSE lock
-----------------------------------------------------------------------------
(* GetLedgerController reads the row when the HTTP request arrives.        *)
Open(f) ==
    /\ cached[f] = Unread
    /\ \E r \in Requests : Facade[r] = f /\ pc[r] = "start"
    /\ cached' = [cached EXCEPT ![f] = row]
    /\ UNCHANGED <<row, sync, logs, seq, lock, pc, id, staged, last, next, events>>

(* handleState: a controller that knows the ledger in use calls the        *)
(* controller below; another one opens a transaction and locks the ledger. *)
Begin(r) ==
    /\ pc[r] = "start" /\ Kind[r] \in {"write", "dry"}
    /\ cached[Facade[r]] # Unread
    /\ pc' = [pc EXCEPT ![r] = IF cached[Facade[r]] = "in-use" THEN "insert" ELSE "lock"]
    /\ UNCHANGED <<row, sync, logs, seq, lock, cached, id, staged, last, next, events>>

(* Run of the bulker: BeginTX is the one of the embedded controller, so    *)
(* that an atomic bulk reads no state and takes no lock.                   *)
BeginBulk(r) ==
    /\ pc[r] = "start" /\ Kind[r] = "bulk"
    /\ cached[Facade[r]] # Unread
    /\ pc' = [pc EXCEPT ![r] = "insert"]
    /\ UNCHANGED <<row, sync, logs, seq, lock, cached, id, staged, last, next, events>>

(* pg_advisory_xact_lock: held until the transaction ends.                 *)
LockLedger(r) ==
    /\ pc[r] = "lock" /\ lock = Free
    /\ lock' = r
    /\ pc' = [pc EXCEPT ![r] = "mark"]
    /\ UNCHANGED <<row, sync, logs, seq, cached, id, staged, last, next, events>>

(* The update of the row and, when it affects the row, setval: max(id) is  *)
(* null in an empty table, and setval of null does nothing.                *)
(* Faulty: the sequence is left where it is.                               *)
MarkInUseOnly(r) ==
    /\ pc[r] = "mark"
    /\ pc' = [pc EXCEPT ![r] = "insert"]
    /\ UNCHANGED <<row, sync, logs, seq, lock, cached, id, staged, last, next, events>>

MarkInUse(r) ==
    /\ pc[r] = "mark"
    /\ seq' = IF row = "initializing" /\ logs # <<>> THEN MaxId ELSE seq
    /\ pc' = [pc EXCEPT ![r] = "insert"]
    /\ UNCHANGED <<row, sync, logs, lock, cached, id, staged, last, next, events>>

DrawId(r) ==
    /\ pc[r] = "insert" /\ MayInsert(r)
    /\ seq' = seq + 1
    /\ id' = [id EXCEPT ![r] = seq + 1]
    /\ pc' = [pc EXCEPT ![r] = "drawn"]
    /\ UNCHANGED <<row, sync, logs, lock, cached, staged, last, next, events>>

(* The log enters the table of the open transaction.  Under the lock the   *)
(* events decorator made by LockLedger has hasTx unset: it publishes at    *)
(* once.  The one made by BeginTX, which a bulk uses, waits for Commit.    *)
(* Faulty: the decorator of a bulk publishes at once as well.              *)
InsertLogAndPublish(r) ==
    /\ pc[r] = "drawn" /\ NoWait(r, id[r])
    /\ IF id[r] \in Ids \cup StagedBy(r)
       THEN End(r, "taken") /\ UNCHANGED events
       ELSE /\ staged' = [staged EXCEPT ![r] = Append(@, id[r])]
            /\ pc' = [pc EXCEPT ![r] =
                   IF Kind[r] = "bulk" /\ Len(staged[r]) + 1 < BulkSize THEN "insert" ELSE "commit"]
            /\ events' = IF Kind[r] # "dry" THEN events \cup {r} ELSE events
            /\ UNCHANGED lock
    /\ UNCHANGED <<row, sync, logs, seq, cached, id, last, next>>

InsertLog(r) ==
    /\ pc[r] = "drawn" /\ NoWait(r, id[r])
    /\ IF id[r] \in Ids \cup StagedBy(r)
       THEN End(r, "taken") /\ UNCHANGED events
       ELSE /\ staged' = [staged EXCEPT ![r] = Append(@, id[r])]
            /\ pc' = [pc EXCEPT ![r] =
                   IF Kind[r] = "bulk" /\ Len(staged[r]) + 1 < BulkSize THEN "insert" ELSE "commit"]
            /\ events' = IF Locked(r) /\ Kind[r] = "write" THEN events \cup {r} ELSE events
            /\ UNCHANGED lock
    /\ UNCHANGED <<row, sync, logs, seq, cached, id, last, next>>

(* A dry run ends with a rollback.  Any other transaction commits its logs *)
(* and, under the lock, the state of the row; then the events that waited  *)
(* for the commit are published.                                           *)
Commit(r) ==
    /\ pc[r] = "commit"
    /\ End(r, IF Locked(r) /\ Kind[r] = "write" THEN "remember" ELSE "ok")
    /\ IF Kind[r] = "dry"
       THEN UNCHANGED <<row, logs, events>>
       ELSE /\ row' = IF Locked(r) THEN "in-use" ELSE row
            /\ logs' = logs \o [i \in DOMAIN staged[r] |-> [id |-> staged[r][i], from |-> "write"]]
            /\ events' = events \cup {r}
    /\ UNCHANGED <<sync, seq, cached, id, last, next>>

(* After the commit the controller remembers the state of the ledger.      *)
Remember(r) ==
    /\ pc[r] = "remember"
    /\ cached' = [cached EXCEPT ![Facade[r]] = "in-use"]
    /\ pc' = [pc EXCEPT ![r] = "ok"]
    /\ UNCHANGED <<row, sync, logs, seq, lock, id, staged, last, next, events>>

(* A refusal of the controller below, a lost connection or a commit that   *)
(* fails: the transaction is rolled back.  The sequence is not.            *)
Fail(r) ==
    /\ pc[r] \in {"lock", "mark", "insert", "drawn", "commit"}
    /\ End(r, "failed")
    /\ UNCHANGED <<row, sync, logs, seq, cached, id, last, next, events>>
-----------------------------------------------------------------------------
(* Import: pg_advisory_lock on a connection of its own.                    *)
LockImport(r) ==
    /\ pc[r] = "start" /\ Kind[r] = "import"
    /\ cached[Facade[r]] # Unread
    /\ lock = Free
    /\ lock' = r
    /\ pc' = [pc EXCEPT ![r] = "check"]
    /\ UNCHANGED <<row, sync, logs, seq, cached, id, staged, last, next, events>>

(* The row is read again under the lock.                                   *)
(* Faulty: the state read when the request arrived is used.                *)
CheckCached(r) ==
    /\ pc[r] = "check"
    /\ IF cached[Facade[r]] = "initializing"
       THEN /\ pc' = [pc EXCEPT ![r] = "last"]
            /\ UNCHANGED <<lock, staged>>
       ELSE End(r, "refused")
    /\ UNCHANGED <<row, sync, logs, seq, cached, id, last, next, events>>

CheckState(r) ==
    /\ pc[r] = "check"
    /\ cached' = [cached EXCEPT ![Facade[r]] = row]
    /\ IF row = "initializing"
       THEN /\ pc' = [pc EXCEPT ![r] = "last"]
            /\ UNCHANGED <<lock, staged>>
       ELSE End(r, "refused")
    /\ UNCHANGED <<row, sync, logs, seq, id, last, next, events>>

ReadLast(r) ==
    /\ pc[r] = "last"
    /\ last' = [last EXCEPT ![r] = MaxId]
    /\ pc' = [pc EXCEPT ![r] = "stream"]
    /\ UNCHANGED <<row, sync, logs, seq, lock, cached, id, staged, next, events>>

(* The hash of an exported log covers the log that precedes it there, and  *)
(* is compared with the hash computed here, over the log with the highest  *)
(* id.  Ids may have gaps: they are not hashed.                            *)
HashMatches(i) ==
    \/ logs = <<>> /\ \A j \in Exported : j >= i
    \/ \E k \in DOMAIN logs :
         /\ logs[k].id = MaxId /\ logs[k].from = "import"
         /\ logs[k].id < i
         /\ \A j \in Exported : j < i => j <= logs[k].id

(* One log of the stream, in a transaction of its own: a log that fails    *)
(* leaves those before it in the ledger.                                   *)
ImportLog(r) ==
    /\ pc[r] = "stream" /\ next[r] <= Len(Stream[r])
    /\ LET i == Stream[r][next[r]] IN
       IF i <= last[r]
       THEN End(r, "refused") /\ UNCHANGED <<logs, last, next>>
       ELSE /\ MayInsert(r) /\ NoWait(r, i)
            /\ IF i \in Ids \/ (sync /\ ~HashMatches(i))
               THEN End(r, "failed") /\ UNCHANGED <<logs, last, next>>
               ELSE /\ logs' = Append(logs, [id |-> i, from |-> "import"])
                    /\ last' = [last EXCEPT ![r] = i]
                    /\ next' = [next EXCEPT ![r] = @ + 1]
                    /\ UNCHANGED <<pc, staged, lock>>
    /\ UNCHANGED <<row, sync, seq, cached, id, events>>

(* The handler closes the stream at the end of the body, and Import        *)
(* returns: pg_advisory_unlock.                                            *)
(* Faulty: the lock is not released.                                       *)
EndImportLocked(r) ==
    /\ pc[r] = "stream" /\ next[r] > Len(Stream[r])
    /\ pc' = [pc EXCEPT ![r] = "ok"]
    /\ UNCHANGED <<row, sync, logs, seq, lock, cached, id, staged, last, next, events>>

EndImport(r) ==
    /\ pc[r] = "stream" /\ next[r] > Len(Stream[r])
    /\ End(r, "ok")
    /\ UNCHANGED <<row, sync, logs, seq, cached, id, last, next, events>>

(* A storage error while an import reads or inserts: Import returns.       *)
FailImport(r) ==
    /\ pc[r] \in {"check", "last", "stream"}
    /\ End(r, "failed")
    /\ UNCHANGED <<row, sync, logs, seq, cached, id, last, next, events>>

(* The body cannot be decoded, or its client is gone: the handler answers  *)
(* an error and returns without closing the stream, and the goroutine of   *)
(* Import waits on it for ever, the lock in its hands.                     *)
BreakOff(r) ==
    /\ r \in Interrupted /\ pc[r] = "stream"
    /\ pc' = [pc EXCEPT ![r] = "stuck"]
    /\ UNCHANGED <<row, sync, logs, seq, lock, cached, id, staged, last, next, events>>
-----------------------------------------------------------------------------
Step(r) ==
    \/ Begin(r) \/ BeginBulk(r) \/ LockLedger(r) \/ MarkInUse(r) \/ DrawId(r)
    \/ InsertLog(r) \/ Commit(r) \/ Remember(r)
    \/ LockImport(r) \/ CheckState(r) \/ ReadLast(r) \/ ImportLog(r) \/ EndImport(r)

Answered(r) == pc[r] \in Ended \cup {"stuck"}

(* Every request has been answered: nothing more happens.                  *)
Finished == (\A r \in Requests : Answered(r)) /\ UNCHANGED vars

Next ==
    \/ \E f \in Facades : Open(f)
    \/ \E r \in Requests : Step(r) \/ Fail(r) \/ FailImport(r) \/ BreakOff(r)
    \/ Finished

Spec == Init /\ [][Next]_vars

(* Handlers run to their end, PostgreSQL grants a lock that is free, and   *)
(* nothing promises that a request fails.                                  *)
FairSpec ==
    /\ Spec
    /\ \A f \in Facades : WF_vars(Open(f))
    /\ \A r \in Requests : WF_vars(Step(r))
-----------------------------------------------------------------------------
(***************************************************************************)
(* An import only fills a ledger that has not been written: no imported    *)
(* log follows a log of a write, whatever the order in which writes and    *)
(* imports start, wait for the lock, fail and resume.  Import reads the    *)
(* state under the lock that the first write holds until its commit.       *)
(***************************************************************************)
ImportBeforeWrites ==
    \A i, j \in DOMAIN logs : i < j /\ logs[i].from = "write" => logs[j].from = "write"

(***************************************************************************)
(* No write draws an id that a log already has: the first write moves the  *)
(* sequence past the imported logs (setval of handleState), and writes     *)
(* that fail, dry runs and imports resumed later do not move it back.      *)
(***************************************************************************)
DrawnIdsAreFree == \A r \in Requests : pc[r] # "taken"

(***************************************************************************)
(* When logs are hashed synchronously, logs are committed in the order of  *)
(* their ids, imported ones included: the hash of each covers the one      *)
(* before it.                                                              *)
(***************************************************************************)
CommitsInOrder ==
    \A i, j \in DOMAIN logs : sync /\ i < j => logs[i].id < logs[j].id

(***************************************************************************)
(* The events of an atomic bulk are published for what has been committed  *)
(* only, whichever element or commit fails: the decorator keeps the events *)
(* of an open transaction until its commit (handleEvent, Commit and        *)
(* Rollback of controller_with_events.go).  A first write is not covered:  *)
(* the decorator that LockLedger makes publishes before the commit.        *)
(***************************************************************************)
EventsAreCommitted == \A r \in events : Kind[r] = "bulk" => pc[r] = "ok"

(***************************************************************************)
(* Every request is answered, unless an import has broken off: the waits   *)
(* on the ledger's lock, on the lock of the log hashes and on ids inserted *)
(* by others all come to an end.                                           *)
(***************************************************************************)
BrokenOff == \E r \in Requests : pc[r] = "stuck"
RequestsEnd == <>(BrokenOff \/ \A r \in Requests : Answered(r))
=============================================================================
