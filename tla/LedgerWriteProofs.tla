-------------------------- MODULE LedgerWriteProofs --------------------------
(***************************************************************************)
(* Theorems about LedgerWrite, for any set of requests, any commands and   *)
(* any transactions committed before.                                      *)
(***************************************************************************)
EXTENDS LedgerWrite, PostingsProofs

-----------------------------------------------------------------------------
(* Lists of postings. *)

\* The lists of postings a transaction can have are closed under reversal, and
\* name accounts only.
LEMMA ScriptsClosed ==
  /\ \A ps \in Scripts : ReversePostings(ps) \in Scripts
  /\ \A ps \in Scripts : ps \in Seq(Posting) /\ Involved(ps) \subseteq Accounts
<1>1. \A ps \in GivenScripts : ps \in Seq(Posting)
  <2>1. \A i \in DOMAIN Genesis : Genesis[i] \in Seq(Posting)
    BY CommandAssumption, LenProperties, ElementOfSeq
  <2> QED
    BY <2>1, CommandAssumption, EmptySeq DEF GivenScripts, Command
<1>2. \A ps \in GivenScripts : ReversePostings(ReversePostings(ps)) = ps
  BY <1>1, ReverseTwice
<1>3. \A ps \in Scripts : ps \in Seq(Posting)
  BY <1>1, ReverseTwice DEF Scripts
<1>4. \A ps \in Scripts : Involved(ps) \subseteq Accounts
  <2> SUFFICES ASSUME NEW ps \in Scripts, NEW i \in DOMAIN ps
               PROVE  ps[i].src \in Accounts /\ ps[i].dst \in Accounts
    BY DEF Involved, Sources, Destinations
  <2>1. ps[i] \in Posting
    BY <1>3, LenProperties, ElementOfSeq
  <2> QED
    BY <2>1 DEF Posting
<1> QED
  BY <1>2, <1>3, <1>4 DEF Scripts

\* What a transaction adds to the volumes of an account keeps them natural.
LEMMA AddPostingsType ==
  ASSUME NEW ps \in Scripts, NEW a \in Accounts, NEW v \in Volume
  PROVE  AddPostings(v, ps, a) \in Volume
<1>1. InputOf(ps, a) \in Nat /\ OutputOf(ps, a) \in Nat
  BY ScriptsClosed, InputOutputNat
<1> QED
  BY <1>1 DEF AddPostings, Volume

\* The terms of the volumes that the first transactions left.
Received(n, a) == [i \in 1..n |-> InputOf(Genesis[i], a)]
Given(n, a)    == [i \in 1..n |-> OutputOf(Genesis[i], a)]

LEMMA GenesisVolumeIs ==
  ASSUME NEW n \in 0..Len(Genesis), NEW a
  PROVE  /\ IsFiniteSet(1..n) /\ n \in Nat /\ Len(Genesis) \in Nat
         /\ \A i \in 1..n : Received(n, a)[i] \in Nat /\ Given(n, a)[i] \in Nat
         /\ GenesisVolume(n, a) = [in  |-> SumFunctionOnSet(Received(n, a), 1..n),
                                   out |-> SumFunctionOnSet(Given(n, a), 1..n)]
         /\ GenesisVolume(n, a) \in Volume
<1>1. Len(Genesis) \in Nat /\ \A i \in 1..Len(Genesis) : Genesis[i] \in Seq(Posting)
  BY CommandAssumption, LenProperties, ElementOfSeq
<1>2. n \in Nat /\ IsFiniteSet(1..n)
  BY <1>1, FS_Interval
<1>3. \A i \in 1..n : Received(n, a)[i] \in Nat /\ Given(n, a)[i] \in Nat
  <2>1. \A i \in 1..n : Genesis[i] \in Seq(Posting)
    BY <1>1
  <2> QED
    BY <2>1, InputOutputNat DEF Received, Given
<1>4. DOMAIN Received(n, a) = 1..n /\ DOMAIN Given(n, a) = 1..n
  BY DEF Received, Given
<1>5. GenesisVolume(n, a) = [in  |-> SumFunctionOnSet(Received(n, a), DOMAIN Received(n, a)),
                             out |-> SumFunctionOnSet(Given(n, a), DOMAIN Given(n, a))]
  BY DEF GenesisVolume, SumFunction, Received, Given
<1>6. /\ SumFunctionOnSet(Received(n, a), 1..n) \in Nat
      /\ SumFunctionOnSet(Given(n, a), 1..n) \in Nat
  BY <1>2, <1>3, SumNat
<1> QED
  BY <1>1, <1>2, <1>3, <1>4, <1>5, <1>6 DEF Volume

-----------------------------------------------------------------------------
(* Numbers: the last of a table's ids, and the lowest of some accounts.     *)

\* A set of ids drawn from a sequence that is not empty has a greatest one.
LEMMA Greatest ==
  ASSUME NEW S, NEW n \in Nat, S \subseteq 1..n, S # {}
  PROVE  \E x \in S : \A y \in S : y <= x
<1> DEFINE T == { u \in 0..n : \A y \in S : y <= u }
<1>1. n \in T /\ T \subseteq Nat
  OBVIOUS
<1>2. PICK u \in T : \A v \in T : u <= v
  BY <1>1, Least
<1>3. ASSUME u \notin S PROVE FALSE
  <2>1. \A y \in S : y <= u /\ y # u /\ y \in Nat /\ y >= 1
    BY <1>1, <1>2, <1>3
  <2>2. u \in Nat /\ u <= n
    BY <1>1, <1>2
  <2>3. PICK y \in S : TRUE
    OBVIOUS
  <2>4. u - 1 \in Nat /\ u - 1 <= n
    BY <2>1, <2>2, <2>3
  <2>5. \A z \in S : z <= u - 1
    BY <2>1, <2>2
  <2>6. u - 1 \in T
    BY <2>4, <2>5
  <2> QED
    BY <1>2, <2>2, <2>6
<1> QED
  BY <1>2, <1>3

\* The last id of a table, 0 if it has none, is one its sequence has given.
LEMMA LastInType ==
  ASSUME NEW table, NEW n \in Nat, \A x \in table : x.id \in 1..n
  PROVE  LastIn(table) \in 0..n
<1>1. CASE table = {}
  BY <1>1 DEF LastIn
<1>2. CASE table # {}
  <2>1. IdsOf(table) \subseteq 1..n /\ IdsOf(table) # {}
    BY <1>2 DEF IdsOf
  <2>2. \E m \in IdsOf(table) : \A k \in IdsOf(table) : k <= m
    BY <2>1, Greatest
  <2>3. LastIn(table) \in IdsOf(table)
    BY <1>2, <2>2 DEF LastIn
  <2> QED
    BY <2>1, <2>3
<1> QED
  BY <1>1, <1>2

-----------------------------------------------------------------------------
(* What a step leaves alone: the other requests, and the tables but for a   *)
(* commit.                                                                  *)

Untouched(q) == locks'[q] = locks[q] /\ pc'[q] = pc[q] /\ work'[q] = work[q]

\* A step of r changes what no other request holds, has read or is about to do,
\* and the tables change when r commits only.
LEMMA StepTouchesOne ==
  ASSUME TypeOK, NEW r \in Requests, Step(r) \/ Resend(r)
  PROVE  /\ \A q \in Requests \ {r} : Untouched(q)
         /\ Commit(r) \/ UNCHANGED db
<1> USE DEF TypeOK, Untouched, Goto, Release, Answer, Fail, Others, db
<1>1. CASE Begin(r)
  BY <1>1 DEF Begin
<1>2. CASE ReadIK(r)
  BY <1>2 DEF ReadIK, AnswerFromLog
<1>3. CASE RevertTransaction(r)
  BY <1>3 DEF RevertTransaction, Acquire
<1>4. CASE RefuseRevert(r)
  BY <1>4 DEF RefuseRevert
<1>5. CASE Snapshot(r)
  BY <1>5 DEF Snapshot
<1>6. CASE LockOrInsertRow(r)
  BY <1>6 DEF LockOrInsertRow, Acquire
<1>7. CASE Execute(r)
  BY <1>7 DEF Execute
<1>8. CASE UpdateRow(r)
  BY <1>8 DEF UpdateRow, Acquire
<1>9. CASE NextTransactionID(r)
  BY <1>9 DEF NextTransactionID
<1>10. CASE InsertTransaction(r)
  BY <1>10 DEF InsertTransaction, Acquire
<1>11. CASE ReferenceConflict(r)
  BY <1>11 DEF ReferenceConflict
<1>12. CASE ReadAccounts(r)
  BY <1>12 DEF ReadAccounts
<1>13. CASE InsertAccounts(r)
  BY <1>13 DEF InsertAccounts
<1>14. CASE AccountsConflict(r)
  BY <1>14 DEF AccountsConflict
<1>15. CASE LockLogs(r)
  BY <1>15 DEF LockLogs, Acquire
<1>16. CASE NextLogID(r)
  BY <1>16 DEF NextLogID
<1>17. CASE InsertLog(r)
  BY <1>17 DEF InsertLog, Acquire
<1>18. CASE IdempotencyKeyConflict(r)
  BY <1>18 DEF IdempotencyKeyConflict, Retry
<1>19. CASE FetchIK(r)
  BY <1>19 DEF FetchIK, AnswerFromLog
<1>20. CASE Commit(r)
  BY <1>20 DEF Commit
<1>21. CASE RollbackDryRun(r)
  BY <1>21 DEF RollbackDryRun
<1>22. CASE DeadlockDetected(r)
  BY <1>22 DEF DeadlockDetected, Retry
<1>23. CASE Resend(r)
  BY <1>23 DEF Resend
<1> QED
  BY <1>1, <1>2, <1>3, <1>4, <1>5, <1>6, <1>7, <1>8, <1>9, <1>10, <1>11, <1>12, <1>13, <1>14, <1>15, <1>16, <1>17, <1>18, <1>19, <1>20, <1>21, <1>22, <1>23 DEF Step

-----------------------------------------------------------------------------
(* The type invariant. *)

\* The parts whose types do not depend on the sequences, and the sequences.
LEMMA StepTypes ==
  ASSUME TypeOK, NEW r \in Requests, Step(r) \/ Resend(r)
  PROVE  /\ pc' \in [Requests -> Statements]
         /\ attempt' \in [Requests -> {"first", "retry"}]
         /\ resends' \in 0..MaxResends
         /\ accounts' \subseteq Addresses
         /\ txSeq' \in Nat /\ txSeq' \in 0..MaxId /\ txSeq <= txSeq'
         /\ logSeq' \in Nat /\ logSeq' \in 0..MaxId /\ logSeq <= logSeq'
<1> USE BoundsAssumption DEF TypeOK, Statements, Goto, Release, Answer, Fail, Others, db
<1>1. CASE Begin(r)
  BY <1>1 DEF Begin, FirstStatement
<1>2. CASE ReadIK(r)
  BY <1>2 DEF ReadIK, FirstStatement, AnswerFromLog
<1>3. CASE RevertTransaction(r)
  BY <1>3 DEF RevertTransaction, Acquire
<1>4. CASE RefuseRevert(r)
  BY <1>4 DEF RefuseRevert
<1>5. CASE Snapshot(r)
  BY <1>5 DEF Snapshot
<1>6. CASE LockOrInsertRow(r)
  BY <1>6 DEF LockOrInsertRow, Acquire
<1>7. CASE Execute(r)
  BY <1>7 DEF Execute
<1>8. CASE UpdateRow(r)
  BY <1>8 DEF UpdateRow, Acquire
<1>9. CASE NextTransactionID(r)
  BY <1>9 DEF NextTransactionID
<1>10. CASE InsertTransaction(r)
  BY <1>10 DEF InsertTransaction, Acquire
<1>11. CASE ReferenceConflict(r)
  BY <1>11 DEF ReferenceConflict
<1>12. CASE ReadAccounts(r)
  BY <1>12 DEF ReadAccounts
<1>13. CASE InsertAccounts(r)
  BY <1>13 DEF InsertAccounts, Work
<1>14. CASE AccountsConflict(r)
  BY <1>14 DEF AccountsConflict
<1>15. CASE LockLogs(r)
  BY <1>15 DEF LockLogs, Acquire
<1>16. CASE NextLogID(r)
  BY <1>16 DEF NextLogID
<1>17. CASE InsertLog(r)
  BY <1>17 DEF InsertLog, Acquire
<1>18. CASE IdempotencyKeyConflict(r)
  BY <1>18 DEF IdempotencyKeyConflict, Retry
<1>19. CASE FetchIK(r)
  BY <1>19 DEF FetchIK, AnswerFromLog
<1>20. CASE Commit(r)
  BY <1>20 DEF Commit
<1>21. CASE RollbackDryRun(r)
  BY <1>21 DEF RollbackDryRun
<1>22. CASE DeadlockDetected(r)
  BY <1>22 DEF DeadlockDetected, Retry
<1>23. CASE Resend(r)
  BY <1>23 DEF Resend
<1> QED
  BY <1>1, <1>2, <1>3, <1>4, <1>5, <1>6, <1>7, <1>8, <1>9, <1>10, <1>11,
     <1>12, <1>13, <1>14, <1>15, <1>16, <1>17, <1>18, <1>19, <1>20, <1>21,
     <1>22, <1>23 DEF Step

\* A sequence never goes back, so that what was typed stays so.
LEMMA TypesGrow ==
  ASSUME TypeOK, txSeq' \in Nat, txSeq <= txSeq', logSeq' \in Nat, logSeq <= logSeq'
  PROVE  /\ locks \in [Requests -> SUBSET Resources']
         /\ work \in [Requests -> Work']
         /\ NoWork \in Work'
<1>1. Resources \subseteq Resources'
  <2>1. 1..txSeq \subseteq 1..txSeq'
    BY DEF TypeOK
  <2>2. { TxRow(id) : id \in 1..txSeq } \subseteq { TxRow(id) : id \in 1..txSeq' }
    BY <2>1
  <2> QED
    BY <2>2 DEF Resources
<1>2. Work \subseteq Work'
  <2>1. 0..txSeq \subseteq 0..txSeq' /\ 0..logSeq \subseteq 0..logSeq'
    BY DEF TypeOK
  <2> QED
    BY <2>1 DEF Work
<1>3. NoWork \in Work'
  <2>1. <<>> \in Scripts
    BY DEF Scripts, GivenScripts
  <2>2. NoRows \in VolumeTable
    BY DEF NoRows, VolumeTable
  <2>3. 0 \in 0..txSeq' /\ 0 \in 0..logSeq'
    OBVIOUS
  <2> QED
    BY <2>1, <2>2, <2>3 DEF NoWork, Work
<1>4. locks \in [Requests -> SUBSET Resources']
  BY <1>1 DEF TypeOK
<1>5. work \in [Requests -> Work']
  BY <1>2 DEF TypeOK
<1> QED
  BY <1>3, <1>4, <1>5

\* The accounts whose rows an attempt locks or updates are accounts.
LEMMA RowsTouched ==
  ASSUME TypeOK, NEW r \in Requests
  PROVE  ToRead(r) \subseteq Accounts /\ ToUpdate(r) \subseteq Accounts
<1>1. Involved(work[r].postings) \subseteq Accounts /\ work[r].seen \subseteq Accounts
  BY ScriptsClosed DEF TypeOK, Work
<1>2. Queried(r) \subseteq Accounts
  BY <1>1 DEF Queried, Query, Involved
<1> QED
  BY <1>1, <1>2 DEF ToRead, ToUpdate, ToLock, ToInsert, Lowest

\* Taking a resource keeps the locks typed.
LEMMA AcquireTypes ==
  ASSUME NEW r \in Requests, NEW x \in Resources', Acquire(r, x),
         locks \in [Requests -> SUBSET Resources']
  PROVE  locks' \in [Requests -> SUBSET Resources']
BY DEF Acquire

\* The transaction of r holds only what the statements of requests lock.
LEMMA LockTypes ==
  ASSUME TypeOK, NEW r \in Requests, Step(r) \/ Resend(r)
  PROVE  locks' \in [Requests -> SUBSET Resources']
<1> USE StepTypes, TypesGrow DEF Goto, Release, Answer, Fail, Others
<1>1. CASE Begin(r)
  BY <1>1 DEF Begin
<1>2. CASE ReadIK(r)
  BY <1>2 DEF ReadIK, AnswerFromLog
<1>3. CASE RevertTransaction(r)
  <2>1. PICK t \in transactions : Acquire(r, TxRow(t.id))
    BY <1>3 DEF RevertTransaction
  <2>2. t.id \in 1..txSeq'
    BY DEF TypeOK
  <2>3. TxRow(t.id) \in Resources'
    BY <2>2 DEF Resources
  <2> QED
    BY <2>1, <2>3, AcquireTypes
<1>4. CASE RefuseRevert(r)
  BY <1>4 DEF RefuseRevert
<1>5. CASE Snapshot(r)
  BY <1>5 DEF Snapshot
<1>6. CASE LockOrInsertRow(r)
  <2>1. PICK a \in ToRead(r) : Acquire(r, Row(a))
    BY <1>6 DEF LockOrInsertRow
  <2>2. Row(a) \in Resources'
    BY RowsTouched DEF Resources
  <2> QED
    BY <2>1, <2>2, AcquireTypes
<1>7. CASE Execute(r)
  BY <1>7 DEF Execute
<1>8. CASE UpdateRow(r)
  <2>1. PICK a \in ToUpdate(r) : Acquire(r, Row(a))
    BY <1>8 DEF UpdateRow
  <2>2. Row(a) \in Resources'
    BY RowsTouched DEF Resources
  <2> QED
    BY <2>1, <2>2, AcquireTypes
<1>9. CASE NextTransactionID(r)
  BY <1>9 DEF NextTransactionID
<1>10. CASE InsertTransaction(r)
  <2>1. Ref(Cmd[r].ref) \in Resources'
    BY DEF Resources
  <2> QED
    BY <1>10, <2>1, AcquireTypes DEF InsertTransaction
<1>11. CASE ReferenceConflict(r)
  BY <1>11 DEF ReferenceConflict
<1>12. CASE ReadAccounts(r)
  BY <1>12 DEF ReadAccounts
<1>13. CASE InsertAccounts(r)
  BY <1>13 DEF InsertAccounts
<1>14. CASE AccountsConflict(r)
  BY <1>14 DEF AccountsConflict
<1>15. CASE LockLogs(r)
  <2>1. LogTable \in Resources'
    BY DEF Resources
  <2> QED
    BY <1>15, <2>1, AcquireTypes DEF LockLogs
<1>16. CASE NextLogID(r)
  BY <1>16 DEF NextLogID
<1>17. CASE InsertLog(r)
  <2>1. IK(Cmd[r].ik) \in Resources'
    BY DEF Resources
  <2> QED
    BY <1>17, <2>1, AcquireTypes DEF InsertLog
<1>18. CASE IdempotencyKeyConflict(r)
  BY <1>18 DEF IdempotencyKeyConflict, Retry
<1>19. CASE FetchIK(r)
  BY <1>19 DEF FetchIK, AnswerFromLog
<1>20. CASE Commit(r)
  BY <1>20 DEF Commit
<1>21. CASE RollbackDryRun(r)
  BY <1>21 DEF RollbackDryRun
<1>22. CASE DeadlockDetected(r)
  BY <1>22 DEF DeadlockDetected, Retry
<1>23. CASE Resend(r)
  BY <1>23 DEF Resend
<1> QED
  BY <1>1, <1>2, <1>3, <1>4, <1>5, <1>6, <1>7, <1>8, <1>9, <1>10, <1>11,
     <1>12, <1>13, <1>14, <1>15, <1>16, <1>17, <1>18, <1>19, <1>20, <1>21,
     <1>22, <1>23 DEF Step

\* What an attempt has read and written is typed.
LEMMA WorkTypes ==
  ASSUME TypeOK, NEW r \in Requests, Step(r) \/ Resend(r)
  PROVE  work' \in [Requests -> Work']
<1> USE StepTypes, TypesGrow DEF Goto, Release, Answer, Fail, Others
<1>1. CASE Begin(r)
  <2>1. IF Cmd[r].op = "create" THEN Cmd[r].postings \in Scripts ELSE <<>> \in Scripts
    BY DEF Scripts, GivenScripts
  <2>2. PICK ps \in Scripts : work' = [work EXCEPT ![r].postings = ps]
    BY <1>1, <2>1 DEF Begin
  <2>3. [work[r] EXCEPT !.postings = ps] \in Work'
    BY DEF Work
  <2> QED
    BY <2>2, <2>3
<1>2. CASE ReadIK(r)
  BY <1>2 DEF ReadIK, AnswerFromLog
<1>3. CASE RevertTransaction(r)
  <2>1. PICK t \in transactions :
          work' = [work EXCEPT ![r].postings = ReversePostings(t.postings), ![r].reverts = t.id]
    BY <1>3 DEF RevertTransaction
  <2>2. t.id \in Nat /\ ReversePostings(t.postings) \in Scripts
    BY ScriptsClosed DEF TypeOK
  <2>3. [work[r] EXCEPT !.postings = ReversePostings(t.postings), !.reverts = t.id] \in Work'
    BY <2>2 DEF Work
  <2> QED
    BY <2>1, <2>3
<1>4. CASE RefuseRevert(r)
  BY <1>4 DEF RefuseRevert
<1>5. CASE Snapshot(r)
  <2>1. Queried(r) \cap Rows(volumes) \subseteq Accounts
    BY DEF Rows
  <2>2. [work[r] EXCEPT !.seen = Queried(r) \cap Rows(volumes)] \in Work'
    BY <2>1 DEF Work
  <2> QED
    BY <1>5, <2>2 DEF Snapshot
<1>6. CASE LockOrInsertRow(r)
  BY <1>6 DEF LockOrInsertRow, Acquire
<1>7. CASE Execute(r)
  BY <1>7 DEF Execute
<1>8. CASE UpdateRow(r)
  <2>1. PICK a \in ToUpdate(r) :
          work' = [work EXCEPT ![r].written[a] = AddPostings(Latest(a), work[r].postings, a)]
    BY <1>8 DEF UpdateRow
  <2>2. a \in Accounts /\ work[r].postings \in Scripts
    BY RowsTouched DEF TypeOK, Work
  <2>3. Latest(a) \in Volume
    BY <2>2 DEF TypeOK, VolumeTable, Latest, LatestIn, Rows, Nothing, Volume
  <2>4. AddPostings(Latest(a), work[r].postings, a) \in Volume
    BY <2>2, <2>3, AddPostingsType
  <2>5. [work[r].written EXCEPT ![a] = AddPostings(Latest(a), work[r].postings, a)]
          \in VolumeTable
    BY <2>4 DEF TypeOK, Work, VolumeTable
  <2> QED
    BY <2>1, <2>5 DEF Work
<1>9. CASE NextTransactionID(r)
  <2>1. txSeq + 1 \in 0..txSeq' /\ work' = [work EXCEPT ![r].txid = txSeq + 1]
    BY <1>9 DEF NextTransactionID, TypeOK
  <2> QED
    BY <2>1 DEF Work
<1>10. CASE InsertTransaction(r)
  BY <1>10 DEF InsertTransaction, Acquire
<1>11. CASE ReferenceConflict(r)
  BY <1>11 DEF ReferenceConflict
<1>12. CASE ReadAccounts(r)
  <2>0. work[r].postings \in Scripts
    BY DEF TypeOK, Work
  <2>1. { AddressOf[a] : a \in Involved(work[r].postings) } \ accounts \subseteq Addresses
    BY <2>0, ScriptsClosed DEF Addresses
  <2>2. [work[r] EXCEPT !.new =
           { AddressOf[a] : a \in Involved(work[r].postings) } \ accounts] \in Work'
    BY <2>1 DEF Work
  <2> QED
    BY <1>12, <2>2 DEF ReadAccounts
<1>13. CASE InsertAccounts(r)
  <2>1. [work[r] EXCEPT !.new = {}] \in Work'
    BY DEF Work
  <2> QED
    BY <1>13, <2>1 DEF InsertAccounts
<1>14. CASE AccountsConflict(r)
  BY <1>14 DEF AccountsConflict
<1>15. CASE LockLogs(r)
  BY <1>15 DEF LockLogs, Acquire
<1>16. CASE NextLogID(r)
  <2>1. LastIn(logs) \in 0..logSeq
    BY LastInType DEF TypeOK
  <2>2. logSeq \in Nat /\ logSeq' = logSeq + 1
    BY <1>16 DEF NextLogID, TypeOK
  <2>3. logSeq + 1 \in 0..logSeq' /\ LastIn(logs) \in 0..logSeq' /\ 0 \in 0..logSeq'
    BY <2>1, <2>2
  <2>4. PICK n \in 0..logSeq' :
          work' = [work EXCEPT ![r].log = [id |-> logSeq + 1, prev |-> n]]
    BY <1>16, <2>3 DEF NextLogID
  <2>5. [work[r] EXCEPT !.log = [id |-> logSeq + 1, prev |-> n]] \in Work'
    BY <2>3 DEF Work
  <2> QED
    BY <2>4, <2>5
<1>17. CASE InsertLog(r)
  BY <1>17 DEF InsertLog, Acquire
<1>18. CASE IdempotencyKeyConflict(r)
  BY <1>18 DEF IdempotencyKeyConflict, Retry
<1>19. CASE FetchIK(r)
  BY <1>19 DEF FetchIK, AnswerFromLog
<1>20. CASE Commit(r)
  BY <1>20 DEF Commit
<1>21. CASE RollbackDryRun(r)
  BY <1>21 DEF RollbackDryRun
<1>22. CASE DeadlockDetected(r)
  BY <1>22 DEF DeadlockDetected, Retry
<1>23. CASE Resend(r)
  BY <1>23 DEF Resend
<1> QED
  BY <1>1, <1>2, <1>3, <1>4, <1>5, <1>6, <1>7, <1>8, <1>9, <1>10, <1>11,
     <1>12, <1>13, <1>14, <1>15, <1>16, <1>17, <1>18, <1>19, <1>20, <1>21,
     <1>22, <1>23 DEF Step

\* A commit adds one transaction and one log, and keeps the tables typed.
LEMMA CommitTypes ==
  ASSUME TypeOK, HoldsLocks, LocksAreFresh, NEW r \in Requests, Commit(r)
  PROVE  /\ volumes' \in VolumeTable
         /\ \A t \in transactions' : t.id \in 1..txSeq' /\ t.postings \in Scripts /\ t.pcv \in VolumeTable
         /\ reverted' \subseteq IdsOf(transactions')
         /\ \A l \in logs' : l.id \in 1..logSeq' /\ l.prev \in 0..logSeq'
<1>1. work[r] \in Work /\ txSeq' = txSeq /\ logSeq' = logSeq /\ txSeq \in Nat /\ logSeq \in Nat
  BY DEF TypeOK, Commit, Answer
<1>2. work[r].txid \in 1..txSeq /\ work[r].log.id \in 1..logSeq /\ work[r].log.prev \in 0..logSeq
  BY <1>1 DEF HoldsLocks, Holds, HasTransactionID, Commit, Work
<1>3. work[r].postings \in Scripts /\ work[r].written \in VolumeTable /\ work[r].reverts \in Nat
  BY <1>1 DEF Work
<1>4. volumes' \in VolumeTable
  BY <1>3 DEF TypeOK, Commit, Merged, VolumeTable
<1>5. transactions' = transactions \cup {NewTransaction(r)} /\ logs' = logs \cup {NewLog(r)}
        /\ reverted' = reverted \cup ({work[r].reverts} \ {0})
  BY DEF Commit
<1>6. NewTransaction(r).id = work[r].txid /\ NewTransaction(r).postings = work[r].postings
        /\ NewTransaction(r).pcv = work[r].written
  BY DEF NewTransaction
<1>7. NewLog(r).id = work[r].log.id /\ NewLog(r).prev = work[r].log.prev
  BY DEF NewLog
<1>8. \A t \in transactions' : t.id \in 1..txSeq' /\ t.postings \in Scripts /\ t.pcv \in VolumeTable
  BY <1>1, <1>2, <1>3, <1>5, <1>6 DEF TypeOK
<1>9. \A l \in logs' : l.id \in 1..logSeq' /\ l.prev \in 0..logSeq'
  BY <1>1, <1>2, <1>5, <1>7 DEF TypeOK
<1>10. work[r].reverts # 0 => work[r].reverts \in IdsOf(transactions)
  <2>1. work[r].reverts # 0 => TxRow(work[r].reverts) \in locks[r]
    BY DEF HoldsLocks, Holds
  <2>2. TxRow(work[r].reverts)[1] = "tx" /\ TxRow(work[r].reverts)[2] = work[r].reverts
    BY DEF TxRow
  <2> QED
    BY <2>1, <2>2 DEF LocksAreFresh, Fresh
<1>11. reverted' \subseteq IdsOf(transactions')
  BY <1>5, <1>10 DEF TypeOK, IdsOf
<1> QED
  BY <1>4, <1>8, <1>9, <1>11

\* Every step keeps the types, given what an attempt holds when it commits.
LEMMA TypeStep ==
  ASSUME TypeOK, HoldsLocks, LocksAreFresh, NEW r \in Requests, Step(r) \/ Resend(r)
  PROVE  TypeOK'
<1>1. CASE Commit(r)
  BY <1>1, CommitTypes, StepTypes, LockTypes, WorkTypes DEF TypeOK
<1>2. CASE UNCHANGED db
  <2>1. \A t \in transactions : t.id \in 1..txSeq'
    BY StepTypes DEF TypeOK
  <2>2. \A l \in logs : l.id \in 1..logSeq' /\ l.prev \in 0..logSeq'
    BY StepTypes DEF TypeOK
  <2> QED
    BY <1>2, <2>1, <2>2, StepTypes, LockTypes, WorkTypes DEF TypeOK, db
<1> QED
  BY <1>1, <1>2, StepTouchesOne

\* The tables left by the Genesis transactions are typed.
LEMMA TypeInit == Init => TypeOK
<1> SUFFICES ASSUME Init PROVE TypeOK
  OBVIOUS
<1>1. Genesis \in Seq(Seq(Posting)) /\ Len(Genesis) \in Nat /\ DOMAIN Genesis = 1..Len(Genesis)
  BY CommandAssumption, LenProperties
<1>2. \A i \in DOMAIN Genesis : Genesis[i] \in Scripts /\ Involved(Genesis[i]) \subseteq Accounts
  BY ScriptsClosed DEF Scripts, GivenScripts
<1>3. \A n \in 0..Len(Genesis), a \in Accounts : GenesisVolume(n, a) \in Volume
  BY GenesisVolumeIs
<1>4. volumes \in VolumeTable
  BY <1>1, <1>3 DEF Init, GenesisVolumes, VolumeTable
<1>5. \A t \in transactions : t.id \in 1..txSeq /\ t.postings \in Scripts /\ t.pcv \in VolumeTable
  BY <1>1, <1>2, <1>3 DEF Init, GenesisTransactions, VolumeTable
<1>6. \A l \in logs : l.id \in 1..logSeq /\ l.prev \in 0..logSeq
  BY <1>1 DEF Init, GenesisLogs
<1>7. accounts \subseteq Addresses
  BY <1>2 DEF Init, GenesisAccounts, Addresses
<1>8. NoWork \in Work
  <2>1. <<>> \in Scripts
    BY DEF Scripts, GivenScripts
  <2>2. NoRows \in VolumeTable
    BY DEF NoRows, VolumeTable
  <2>3. 0 \in 0..txSeq /\ 0 \in 0..logSeq
    BY <1>1 DEF Init
  <2> QED
    BY <2>1, <2>2, <2>3 DEF NoWork, Work
<1> QED
  BY <1>1, <1>4, <1>5, <1>6, <1>7, <1>8, BoundsAssumption DEF Init, TypeOK, Statements


-----------------------------------------------------------------------------
(* Locks. *)

\* A step of r gives up locks, or takes one that nobody else holds.
LEMMA LocksTaken ==
  ASSUME TypeOK, NEW r \in Requests, Step(r) \/ Resend(r)
  PROVE  \A x \in locks'[r] : x \in locks[r] \/ Free(x, r)
<1> USE DEF TypeOK, Goto, Release, Answer, Fail, Others
<1>1. CASE Begin(r)
  BY <1>1 DEF Begin
<1>2. CASE ReadIK(r)
  BY <1>2 DEF ReadIK, AnswerFromLog
<1>3. CASE RevertTransaction(r)
  BY <1>3 DEF RevertTransaction, Acquire
<1>4. CASE RefuseRevert(r)
  BY <1>4 DEF RefuseRevert
<1>5. CASE Snapshot(r)
  BY <1>5 DEF Snapshot
<1>6. CASE LockOrInsertRow(r)
  BY <1>6 DEF LockOrInsertRow, Acquire
<1>7. CASE Execute(r)
  BY <1>7 DEF Execute
<1>8. CASE UpdateRow(r)
  BY <1>8 DEF UpdateRow, Acquire
<1>9. CASE NextTransactionID(r)
  BY <1>9 DEF NextTransactionID
<1>10. CASE InsertTransaction(r)
  BY <1>10 DEF InsertTransaction, Acquire
<1>11. CASE ReferenceConflict(r)
  BY <1>11 DEF ReferenceConflict
<1>12. CASE ReadAccounts(r)
  BY <1>12 DEF ReadAccounts
<1>13. CASE InsertAccounts(r)
  BY <1>13 DEF InsertAccounts
<1>14. CASE AccountsConflict(r)
  BY <1>14 DEF AccountsConflict
<1>15. CASE LockLogs(r)
  BY <1>15 DEF LockLogs, Acquire
<1>16. CASE NextLogID(r)
  BY <1>16 DEF NextLogID
<1>17. CASE InsertLog(r)
  BY <1>17 DEF InsertLog, Acquire
<1>18. CASE IdempotencyKeyConflict(r)
  BY <1>18 DEF IdempotencyKeyConflict, Retry
<1>19. CASE FetchIK(r)
  BY <1>19 DEF FetchIK, AnswerFromLog
<1>20. CASE Commit(r)
  BY <1>20 DEF Commit
<1>21. CASE RollbackDryRun(r)
  BY <1>21 DEF RollbackDryRun
<1>22. CASE DeadlockDetected(r)
  BY <1>22 DEF DeadlockDetected, Retry
<1>23. CASE Resend(r)
  BY <1>23 DEF Resend
<1> QED
  BY <1>1, <1>2, <1>3, <1>4, <1>5, <1>6, <1>7, <1>8, <1>9, <1>10, <1>11,
     <1>12, <1>13, <1>14, <1>15, <1>16, <1>17, <1>18, <1>19, <1>20, <1>21,
     <1>22, <1>23 DEF Step

\* Row locks, unique keys and the advisory lock have one holder at most: what
\* PostgreSQL grants by the guard of Acquire, and a part of what the proofs keep.
MutualExclusion == \A q, r \in Requests : q # r => locks[q] \cap locks[r] = {}

\* No step gives a resource a second holder.
LEMMA ExclusionStep ==
  ASSUME TypeOK, MutualExclusion, NEW r \in Requests, Step(r) \/ Resend(r)
  PROVE  MutualExclusion'
<1> SUFFICES ASSUME NEW q \in Requests, NEW p \in Requests, q # p, NEW x,
                    x \in locks'[q], x \in locks'[p]
             PROVE  FALSE
  BY DEF MutualExclusion
<1>1. \A s \in Requests \ {r} : locks'[s] = locks[s]
  BY StepTouchesOne DEF Untouched
<1>2. \A y \in locks'[r] : y \in locks[r] \/ \A s \in Requests \ {r} : y \notin locks[s]
  BY LocksTaken DEF Free
<1> QED
  BY <1>1, <1>2 DEF MutualExclusion

\* A step of r leaves it holding what it has to protect.
LEMMA HoldsOfStep ==
  ASSUME TypeOK, HoldsLocks, NEW r \in Requests, Step(r) \/ Resend(r)
  PROVE  Holds(r)'
<1> DEFINE Ended == work'[r] = NoWork /\ pc'[r] \in {"idle", "fetchIK", "done"}
<1>0. Holds(r) /\ pc \in [Requests -> Statements] /\ locks \in [Requests -> SUBSET Resources]
        /\ work \in [Requests -> Work]
  BY DEF HoldsLocks, Holds, TypeOK
<1>a. ASSUME Ended PROVE Holds(r)'
  <2>1. Rows(NoWork.written) = {} /\ NoWork.reverts = 0
    BY DEF Rows, NoWork, NoRows
  <2> QED
    BY <1>a, <2>1 DEF Holds, HasTransactionID
<1> HIDE DEF Ended
<1> USE <1>0 DEF Goto, Others
<1>1. CASE Begin(r)
  <2>1. \A f \in {"written", "reverts", "txid", "log"} : work'[r][f] = work[r][f]
    BY <1>1 DEF Begin, Work
  <2>2. pc'[r] \in {"readIK", "balances", "revert"} /\ locks' = locks
    BY <1>1 DEF Begin, FirstStatement
  <2> QED
    BY <2>1, <2>2 DEF Holds, HasTransactionID
<1>2. CASE ReadIK(r)
  <2>1. CASE pc'[r] = "done"
    BY <1>2, <2>1, <1>a DEF Ended, Release, Answer, Fail, FirstStatement, ReadIK, AnswerFromLog
  <2>2. CASE pc'[r] # "done"
    BY <1>2, <2>2 DEF Release, Answer, Fail, Statements, FirstStatement, Holds, HasTransactionID, ReadIK, AnswerFromLog
  <2> QED
    BY <2>1, <2>2
<1>3. CASE RevertTransaction(r)
  BY <1>3 DEF Holds, HasTransactionID, RevertTransaction, Acquire
<1>4. CASE RefuseRevert(r)
  BY <1>4, <1>a DEF Ended, Release, Answer, Fail, Statements, RefuseRevert
<1>5. CASE Snapshot(r)
  BY <1>5 DEF Holds, HasTransactionID, Snapshot
<1>6. CASE LockOrInsertRow(r)
  BY <1>6 DEF Holds, HasTransactionID, LockOrInsertRow, Acquire
<1>7. CASE Execute(r)
  <2>1. CASE pc'[r] = "done"
    BY <1>7, <2>1, <1>a DEF Ended, Release, Answer, Fail, FirstStatement, Execute
  <2>2. CASE pc'[r] # "done"
    BY <1>7, <2>2 DEF Release, Answer, Fail, Statements, FirstStatement, Holds, HasTransactionID, Execute
  <2> QED
    BY <2>1, <2>2
<1>8. CASE UpdateRow(r)
  <2>1. PICK a \in ToUpdate(r) : Acquire(r, Row(a)) /\ pc' = pc
          /\ work' = [work EXCEPT ![r].written[a] = AddPostings(Latest(a), work[r].postings, a)]
    BY <1>8 DEF UpdateRow
  <2>2. \A f \in {"reverts", "txid", "log"} : work'[r][f] = work[r][f]
    BY <2>1 DEF Work
  <2>3. Rows(work'[r].written) \subseteq Rows(work[r].written) \cup {a}
    BY <2>1 DEF Rows, Work, VolumeTable
  <2>4. locks'[r] = locks[r] \cup {Row(a)}
    BY <2>1 DEF Acquire
  <2> QED
    BY <2>1, <2>2, <2>3, <2>4 DEF Holds
<1>9. CASE NextTransactionID(r)
  <2>1. \A f \in {"written", "reverts", "log"} : work'[r][f] = work[r][f]
    BY <1>9 DEF NextTransactionID, Work
  <2>2. work'[r].txid = txSeq + 1 /\ txSeq \in Nat /\ logSeq \in Nat
    BY <1>9 DEF NextTransactionID, Work, TypeOK
  <2>3. pc[r] = "updateVolumes" /\ pc'[r] = "insertTransaction" /\ locks' = locks
    BY <1>9 DEF NextTransactionID
  <2> QED
    BY <2>1, <2>2, <2>3 DEF Holds, HasTransactionID
<1>10. CASE InsertTransaction(r)
  BY <1>10 DEF Holds, HasTransactionID, InsertTransaction, Acquire
<1>11. CASE ReferenceConflict(r)
  BY <1>11, <1>a DEF Ended, Release, Answer, Fail, Statements, ReferenceConflict
<1>12. CASE ReadAccounts(r)
  BY <1>12 DEF Holds, HasTransactionID, ReadAccounts
<1>13. CASE InsertAccounts(r)
  BY <1>13 DEF Holds, HasTransactionID, InsertAccounts
<1>14. CASE AccountsConflict(r)
  BY <1>14, <1>a DEF Ended, Release, Answer, Fail, Statements, AccountsConflict
<1>15. CASE LockLogs(r)
  BY <1>15 DEF Holds, HasTransactionID, LockLogs, Acquire
<1>16. CASE NextLogID(r)
  <2>1. \A f \in {"written", "reverts", "txid"} : work'[r][f] = work[r][f]
    BY <1>16 DEF NextLogID, Work
  <2>2. work'[r].log.id = logSeq + 1 /\ txSeq \in Nat /\ logSeq \in Nat
    BY <1>16 DEF NextLogID, Work, TypeOK
  <2>3. pc[r] \in {"log", "logID"} /\ pc'[r] = "insertLog" /\ locks' = locks
    BY <1>16 DEF NextLogID
  <2> QED
    BY <2>1, <2>2, <2>3 DEF Holds, HasTransactionID
<1>17. CASE InsertLog(r)
  BY <1>17 DEF Holds, HasTransactionID, InsertLog, Acquire
<1>18. CASE IdempotencyKeyConflict(r)
  BY <1>18, <1>a DEF Ended, Release, Answer, Fail, Statements, IdempotencyKeyConflict, Retry
<1>19. CASE FetchIK(r)
  BY <1>19, <1>a DEF Ended, Release, Answer, Fail, Statements, FetchIK, AnswerFromLog
<1>20. CASE Commit(r)
  BY <1>20, <1>a DEF Ended, Release, Answer, Fail, Statements, Commit
<1>21. CASE RollbackDryRun(r)
  BY <1>21, <1>a DEF Ended, Release, Answer, Fail, Statements, RollbackDryRun
<1>22. CASE DeadlockDetected(r)
  BY <1>22, <1>a DEF Ended, Release, Answer, Fail, Statements, DeadlockDetected, Retry
<1>23. CASE Resend(r)
  BY <1>23, <1>a DEF Ended, Release, Answer, Fail, Statements, Resend
<1> QED
  BY <1>1, <1>2, <1>3, <1>4, <1>5, <1>6, <1>7, <1>8, <1>9, <1>10, <1>11,
     <1>12, <1>13, <1>14, <1>15, <1>16, <1>17, <1>18, <1>19, <1>20, <1>21,
     <1>22, <1>23 DEF Step

\* So does a step of any other request, which does not touch the locks of r.
LEMMA HoldsStep ==
  ASSUME TypeOK, HoldsLocks, NEW r \in Requests, Step(r) \/ Resend(r)
  PROVE  HoldsLocks'
<1>1. \A q \in Requests \ {r} : Holds(q)'
  <2> SUFFICES ASSUME NEW q \in Requests \ {r} PROVE Holds(q)'
    OBVIOUS
  <2>1. Holds(q)
    BY DEF HoldsLocks, Holds
  <2>2. locks'[q] = locks[q] /\ pc'[q] = pc[q] /\ work'[q] = work[q]
    BY StepTouchesOne DEF Untouched
  <2> QED
    BY <2>1, <2>2 DEF Holds
<1>2. Holds(r)'
  BY HoldsOfStep
<1> QED
  BY <1>1, <1>2 DEF HoldsLocks, Holds

\* A step of r gives up locks, or takes one on something it may still use.
LEMMA LocksTakenFresh ==
  ASSUME TypeOK, NEW r \in Requests, Step(r) \/ Resend(r)
  PROVE  \A x \in locks'[r] : x \in locks[r] \/ Fresh(x)
<1> USE DEF TypeOK, Goto, Release, Answer, Fail, Others
<1>1. CASE Begin(r)
  BY <1>1 DEF Begin
<1>2. CASE ReadIK(r)
  BY <1>2 DEF ReadIK, AnswerFromLog
<1>3. CASE RevertTransaction(r)
  <2>1. PICK t \in transactions : t.id \notin reverted /\ locks'[r] = locks[r] \cup {TxRow(t.id)}
    BY <1>3 DEF RevertTransaction, Acquire
  <2>2. Fresh(TxRow(t.id))
    BY <2>1 DEF Fresh, TxRow, IK, Ref, IdsOf
  <2> QED
    BY <2>1, <2>2
<1>4. CASE RefuseRevert(r)
  BY <1>4 DEF RefuseRevert
<1>5. CASE Snapshot(r)
  BY <1>5 DEF Snapshot
<1>6. CASE LockOrInsertRow(r)
  <2>1. PICK a \in ToRead(r) : locks'[r] = locks[r] \cup {Row(a)}
    BY <1>6 DEF LockOrInsertRow, Acquire
  <2>2. Fresh(Row(a))
    BY DEF Fresh, Row, IK, Ref
  <2> QED
    BY <2>1, <2>2
<1>7. CASE Execute(r)
  BY <1>7 DEF Execute
<1>8. CASE UpdateRow(r)
  <2>1. PICK a \in ToUpdate(r) : locks'[r] = locks[r] \cup {Row(a)}
    BY <1>8 DEF UpdateRow, Acquire
  <2>2. Fresh(Row(a))
    BY DEF Fresh, Row, IK, Ref
  <2> QED
    BY <2>1, <2>2
<1>9. CASE NextTransactionID(r)
  BY <1>9 DEF NextTransactionID
<1>10. CASE InsertTransaction(r)
  <2>1. CASE locks' = locks
    BY <2>1
  <2>2. CASE locks' # locks
    <3>1. (\A t \in transactions : t.ref # Cmd[r].ref) /\ locks'[r] = locks[r] \cup {Ref(Cmd[r].ref)}
      BY <1>10, <2>2 DEF InsertTransaction, Acquire
    <3>2. Fresh(Ref(Cmd[r].ref))
      BY <3>1 DEF Fresh, IK, Ref
    <3> QED
      BY <3>1, <3>2
  <2> QED
    BY <2>1, <2>2
<1>11. CASE ReferenceConflict(r)
  BY <1>11 DEF ReferenceConflict
<1>12. CASE ReadAccounts(r)
  BY <1>12 DEF ReadAccounts
<1>13. CASE InsertAccounts(r)
  BY <1>13 DEF InsertAccounts
<1>14. CASE AccountsConflict(r)
  BY <1>14 DEF AccountsConflict
<1>15. CASE LockLogs(r)
  <2>1. locks'[r] = locks[r] \cup {LogTable} /\ Fresh(LogTable)
    BY <1>15 DEF LockLogs, Acquire, Fresh, LogTable, IK, Ref
  <2> QED
    BY <2>1
<1>16. CASE NextLogID(r)
  BY <1>16 DEF NextLogID
<1>17. CASE InsertLog(r)
  <2>1. CASE locks' = locks
    BY <2>1
  <2>2. CASE locks' # locks
    <3>1. LogWithIK(Cmd[r].ik) = {} /\ Cmd[r].ik # None
            /\ locks'[r] = locks[r] \cup {IK(Cmd[r].ik)}
      BY <1>17, <2>2 DEF InsertLog, Acquire
    <3>2. Fresh(IK(Cmd[r].ik))
      BY <3>1 DEF Fresh, IK, Ref, LogWithIK
    <3> QED
      BY <3>1, <3>2
  <2> QED
    BY <2>1, <2>2
<1>18. CASE IdempotencyKeyConflict(r)
  BY <1>18 DEF IdempotencyKeyConflict, Retry
<1>19. CASE FetchIK(r)
  BY <1>19 DEF FetchIK, AnswerFromLog
<1>20. CASE Commit(r)
  BY <1>20 DEF Commit
<1>21. CASE RollbackDryRun(r)
  BY <1>21 DEF RollbackDryRun
<1>22. CASE DeadlockDetected(r)
  BY <1>22 DEF DeadlockDetected, Retry
<1>23. CASE Resend(r)
  BY <1>23 DEF Resend
<1> QED
  BY <1>1, <1>2, <1>3, <1>4, <1>5, <1>6, <1>7, <1>8, <1>9, <1>10, <1>11,
     <1>12, <1>13, <1>14, <1>15, <1>16, <1>17, <1>18, <1>19, <1>20, <1>21,
     <1>22, <1>23 DEF Step

\* What r holds stays its to use: a commit of another request concerns what that
\* request holds, which r does not.
LEMMA FreshStep ==
  ASSUME TypeOK, MutualExclusion, HoldsLocks, LocksAreFresh, NEW r \in Requests, Step(r) \/ Resend(r)
  PROVE  LocksAreFresh'
<1> SUFFICES ASSUME NEW q \in Requests, NEW x \in locks'[q] PROVE Fresh(x)'
  BY DEF LocksAreFresh, Fresh
<1>1. \A p \in Requests \ {r} : locks'[p] = locks[p]
  BY StepTouchesOne DEF Untouched
<1>2. \A p \in Requests : \A y \in locks[p] : Fresh(y)
  BY DEF LocksAreFresh, Fresh
<1>3. CASE UNCHANGED db
  BY <1>1, <1>2, <1>3, LocksTakenFresh DEF Fresh, db
<1>4. CASE Commit(r)
  <2>1. locks'[r] = {}
    BY <1>4 DEF Commit, Answer, Release, TypeOK
  <2>2. q # r /\ x \in locks[q] /\ x \notin locks[r] /\ Fresh(x)
    BY <1>1, <1>2, <2>1 DEF MutualExclusion
  <2>3. transactions' = transactions \cup {NewTransaction(r)} /\ logs' = logs \cup {NewLog(r)}
          /\ reverted' = reverted \cup ({work[r].reverts} \ {0}) /\ pc[r] = "commit"
    BY <1>4 DEF Commit
  <2>4. Cmd[r].ik # None => x # IK(Cmd[r].ik)
    BY <2>2, <2>3 DEF HoldsLocks, Holds
  <2>5. NewTransaction(r).ref # None => x # Ref(NewTransaction(r).ref)
    BY <2>2, <2>3 DEF HoldsLocks, Holds, HasTransactionID, NewTransaction
  <2>6. x[1] = "tx" /\ work[r].reverts # 0 => x[2] # work[r].reverts
    <3>1. x[1] = "tx" => x = TxRow(x[2])
      BY <2>2 DEF TypeOK, Resources, Row, Ref, IK, LogTable, TxRow
    <3>2. work[r].reverts # 0 => TxRow(work[r].reverts) \in locks[r]
      BY DEF HoldsLocks, Holds
    <3> QED
      BY <2>2, <3>1, <3>2
  <2> QED
    BY <2>2, <2>3, <2>4, <2>5, <2>6 DEF Fresh, NewLog, IdsOf
<1> QED
  BY <1>3, <1>4, StepTouchesOne

-----------------------------------------------------------------------------
(* The inductive invariant: a commit is typed because of what the attempt   *)
(* holds, and what it holds is still its to use because nobody else holds   *)
(* it.                                                                      *)

Protected == TypeOK /\ MutualExclusion /\ HoldsLocks /\ LocksAreFresh

\* Nobody has written or locked anything at first.
LEMMA ProtectedInit == Init => Protected
<1> SUFFICES ASSUME Init PROVE Protected
  OBVIOUS
<1>1. \A r \in Requests : locks[r] = {} /\ pc[r] = "idle" /\ work[r] = NoWork
  BY DEF Init
<1>2. Rows(NoWork.written) = {} /\ NoWork.reverts = 0
  BY DEF Rows, NoWork, NoRows
<1>3. HoldsLocks
  BY <1>1, <1>2 DEF HoldsLocks, Holds, HasTransactionID
<1>4. MutualExclusion /\ LocksAreFresh
  BY <1>1 DEF MutualExclusion, LocksAreFresh, Fresh
<1> QED
  BY <1>3, <1>4, TypeInit DEF Protected

\* The four parts support each other through every step.
LEMMA ProtectedStep == Protected /\ [Next]_vars => Protected'
<1> SUFFICES ASSUME Protected, [Next]_vars PROVE Protected'
  OBVIOUS
<1>1. CASE UNCHANGED vars
  <2> USE <1>1 DEF vars, db
  <2>1. TypeOK'
    BY DEF Protected, TypeOK, Work, Resources
  <2>2. MutualExclusion'
    BY DEF Protected, MutualExclusion
  <2>3. HoldsLocks'
    BY DEF Protected, HoldsLocks, Holds
  <2>4. LocksAreFresh'
    BY DEF Protected, LocksAreFresh, Fresh
  <2> QED
    BY <2>1, <2>2, <2>3, <2>4 DEF Protected
<1>2. ASSUME NEW r \in Requests, Step(r) \/ Resend(r) PROVE Protected'
  BY <1>2, TypeStep, ExclusionStep, HoldsStep, FreshStep DEF Protected
<1> QED
  BY <1>1, <1>2 DEF Next, AllAnswered

(***************************************************************************)
(* Every row ever written holds naturals, every id comes from a sequence,  *)
(* every lock is one a statement takes (TypeOK).                           *)
(***************************************************************************)
THEOREM Typed == Spec => []TypeOK
<1>1. Protected => TypeOK
  BY DEF Protected
<1> QED
  BY <1>1, ProtectedInit, ProtectedStep, PTL DEF Spec

(***************************************************************************)
(* What an attempt holds is still its to use when it commits: the key and  *)
(* the reference are not taken, the target is not reverted (LocksAreFresh).*)
(***************************************************************************)
THEOREM LocksStayFresh == Spec => []LocksAreFresh
<1>1. Protected => LocksAreFresh
  BY DEF Protected
<1> QED
  BY <1>1, ProtectedInit, ProtectedStep, PTL DEF Spec

-----------------------------------------------------------------------------
(* What the clients rely on. *)

UniqueKeys == IdempotencyKeyUnique /\ ReferenceUnique /\ RevertedOnce

\* A commit adds a key, a reference and a reverted transaction that no log and
\* no transaction has yet.
LEMMA UniqueStep ==
  ASSUME Protected, UniqueKeys, [Next]_vars
  PROVE  UniqueKeys'
<1>1. CASE UNCHANGED db
  BY <1>1 DEF UniqueKeys, IdempotencyKeyUnique, ReferenceUnique, RevertedOnce, db
<1>2. ASSUME NEW r \in Requests, Commit(r) PROVE UniqueKeys'
  <2>1. transactions' = transactions \cup {NewTransaction(r)} /\ logs' = logs \cup {NewLog(r)}
          /\ reverted' = reverted \cup ({work[r].reverts} \ {0}) /\ pc[r] = "commit"
    BY <1>2 DEF Commit
  <2>2. IdempotencyKeyUnique'
    <3>1. Cmd[r].ik # None => IK(Cmd[r].ik) \in locks[r]
      BY <2>1 DEF Protected, HoldsLocks, Holds
    <3>2. \A l \in logs : Cmd[r].ik # None => l.ik # Cmd[r].ik
      BY <3>1 DEF Protected, LocksAreFresh, Fresh
    <3>3. NewLog(r).ik = Cmd[r].ik
      BY DEF NewLog
    <3> QED
      BY <2>1, <3>2, <3>3 DEF UniqueKeys, IdempotencyKeyUnique
  <2>3. ReferenceUnique'
    <3> DEFINE x == NewTransaction(r).ref
    <3>1. x # None => Ref(x) \in locks[r]
      BY <2>1 DEF Protected, HoldsLocks, Holds, HasTransactionID, NewTransaction
    <3>2. \A t \in transactions : x # None => t.ref # x
      BY <3>1 DEF Protected, LocksAreFresh, Fresh
    <3> QED
      BY <2>1, <3>2 DEF UniqueKeys, ReferenceUnique
  <2>4. RevertedOnce'
    <3>1. work[r].reverts # 0 => TxRow(work[r].reverts) \in locks[r]
      BY DEF Protected, HoldsLocks, Holds
    <3>2. TxRow(work[r].reverts)[1] = "tx" /\ TxRow(work[r].reverts)[2] = work[r].reverts
      BY DEF TxRow
    <3>3. work[r].reverts # 0 => work[r].reverts \notin reverted
      BY <3>1, <3>2 DEF Protected, LocksAreFresh, Fresh
    <3>4. \A t \in transactions : t.reverts # 0 => t.reverts \in reverted
      BY DEF UniqueKeys, RevertedOnce
    <3>5. NewTransaction(r).reverts = work[r].reverts
      BY DEF NewTransaction
    <3>6. \A t, u \in transactions' : t.reverts # 0 /\ t.reverts = u.reverts => t = u
      BY <2>1, <3>3, <3>4, <3>5 DEF UniqueKeys, RevertedOnce
    <3>7. reverted' = { t.reverts : t \in transactions' } \ {0}
      BY <2>1, <3>5 DEF UniqueKeys, RevertedOnce
    <3> QED
      BY <3>6, <3>7 DEF RevertedOnce
  <2> QED
    BY <2>2, <2>3, <2>4 DEF UniqueKeys
<1>3. CASE UNCHANGED vars
  BY <1>1, <1>3 DEF vars
<1> QED
  BY <1>1, <1>2, <1>3, StepTouchesOne DEF Next, AllAnswered, Protected

\* The Genesis transactions have no key, no reference and revert nothing.
LEMMA UniqueInit == Init => UniqueKeys
<1> SUFFICES ASSUME Init PROVE UniqueKeys
  OBVIOUS
<1>1. \A t \in transactions : t.ref = None /\ t.reverts = 0
  BY DEF Init, GenesisTransactions
<1>2. \A l \in logs : l.ik = None
  BY DEF Init, GenesisLogs
<1> QED
  BY <1>1, <1>2 DEF Init, UniqueKeys, IdempotencyKeyUnique, ReferenceUnique, RevertedOnce

(***************************************************************************)
(* One log per idempotency key, whatever the interleaving of the attempts, *)
(* the retries of forgeLogRetry and the resends of the clients.            *)
(***************************************************************************)
THEOREM OneLogPerKey == Spec => []IdempotencyKeyUnique
<1>1. UniqueKeys => IdempotencyKeyUnique
  BY DEF UniqueKeys
<1>2. Protected /\ UniqueKeys /\ [Next]_vars => UniqueKeys'
  BY UniqueStep
<1> QED
  BY <1>1, <1>2, ProtectedInit, ProtectedStep, UniqueInit, PTL DEF Spec

(***************************************************************************)
(* A transaction reference is used by one committed transaction at most.   *)
(***************************************************************************)
THEOREM OneTransactionPerReference == Spec => []ReferenceUnique
<1>1. UniqueKeys => ReferenceUnique
  BY DEF UniqueKeys
<1>2. Protected /\ UniqueKeys /\ [Next]_vars => UniqueKeys'
  BY UniqueStep
<1> QED
  BY <1>1, <1>2, ProtectedInit, ProtectedStep, UniqueInit, PTL DEF Spec

(***************************************************************************)
(* A transaction is reverted by one committed transaction at most, and     *)
(* reverted_at is set exactly when there is one.                           *)
(***************************************************************************)
THEOREM OneRevertPerTransaction == Spec => []RevertedOnce
<1>1. UniqueKeys => RevertedOnce
  BY DEF UniqueKeys
<1>2. Protected /\ UniqueKeys /\ [Next]_vars => UniqueKeys'
  BY UniqueStep
<1> QED
  BY <1>1, <1>2, ProtectedInit, ProtectedStep, UniqueInit, PTL DEF Spec

\* The logs only grow, so that the log of a refused key is there to be read.
LEMMA KeyConflictStep ==
  ASSUME Protected, KeyConflictHasLog, [Next]_vars
  PROVE  KeyConflictHasLog'
<1>1. logs \subseteq logs'
  BY StepTouchesOne DEF Next, AllAnswered, Commit, vars, db, Protected
<1>2. \A q \in Requests : LogWithIK(Cmd[q].ik) \subseteq LogWithIK(Cmd[q].ik)'
  BY <1>1 DEF LogWithIK
<1>3. ASSUME NEW r \in Requests, Step(r) \/ Resend(r), pc'[r] = "fetchIK"
      PROVE  LogWithIK(Cmd[r].ik) # {}
  <2> USE DEF Protected, TypeOK, Statements, Goto, Release, Answer, Fail, Others
  <2>1. CASE Begin(r)
    BY <1>3, <2>1 DEF Begin, FirstStatement
  <2>2. CASE ReadIK(r)
    BY <1>3, <2>2 DEF ReadIK, AnswerFromLog, FirstStatement
  <2>3. CASE RevertTransaction(r)
    BY <1>3, <2>3 DEF RevertTransaction, Acquire
  <2>4. CASE RefuseRevert(r)
    BY <1>3, <2>4 DEF RefuseRevert
  <2>5. CASE Snapshot(r)
    BY <1>3, <2>5 DEF Snapshot
  <2>6. CASE LockOrInsertRow(r)
    BY <1>3, <2>6 DEF LockOrInsertRow, Acquire, KeyConflictHasLog
  <2>7. CASE Execute(r)
    BY <1>3, <2>7 DEF Execute
  <2>8. CASE UpdateRow(r)
    BY <1>3, <2>8 DEF UpdateRow, Acquire, KeyConflictHasLog
  <2>9. CASE NextTransactionID(r)
    BY <1>3, <2>9 DEF NextTransactionID
  <2>10. CASE InsertTransaction(r)
    BY <1>3, <2>10 DEF InsertTransaction, Acquire
  <2>11. CASE ReferenceConflict(r)
    BY <1>3, <2>11 DEF ReferenceConflict
  <2>12. CASE ReadAccounts(r)
    BY <1>3, <2>12 DEF ReadAccounts
  <2>13. CASE InsertAccounts(r)
    BY <1>3, <2>13 DEF InsertAccounts
  <2>14. CASE AccountsConflict(r)
    BY <1>3, <2>14 DEF AccountsConflict
  <2>15. CASE LockLogs(r)
    BY <1>3, <2>15 DEF LockLogs, Acquire
  <2>16. CASE NextLogID(r)
    BY <1>3, <2>16 DEF NextLogID
  <2>17. CASE InsertLog(r)
    BY <1>3, <2>17 DEF InsertLog, Acquire
  <2>18. CASE IdempotencyKeyConflict(r)
    BY <1>3, <2>18 DEF IdempotencyKeyConflict, Retry
  <2>19. CASE FetchIK(r)
    BY <1>3, <2>19 DEF FetchIK, AnswerFromLog, KeyConflictHasLog
  <2>20. CASE Commit(r)
    BY <1>3, <2>20 DEF Commit
  <2>21. CASE RollbackDryRun(r)
    BY <1>3, <2>21 DEF RollbackDryRun
  <2>22. CASE DeadlockDetected(r)
    BY <1>3, <2>22 DEF DeadlockDetected, Retry
  <2>23. CASE Resend(r)
    BY <1>3, <2>23 DEF Resend
  <2> QED
    BY <1>3, <2>1, <2>2, <2>3, <2>4, <2>5, <2>6, <2>7, <2>8, <2>9, <2>10, <2>11,
       <2>12, <2>13, <2>14, <2>15, <2>16, <2>17, <2>18, <2>19, <2>20, <2>21,
       <2>22, <2>23 DEF Step
<1>4. ASSUME NEW q \in Requests, pc'[q] = "fetchIK" PROVE LogWithIK(Cmd[q].ik) # {}
  <2>1. CASE pc[q] = "fetchIK"
    BY <2>1 DEF KeyConflictHasLog
  <2>2. CASE pc[q] # "fetchIK"
    <3>1. PICK r \in Requests : Step(r) \/ Resend(r)
      BY <1>4, <2>2 DEF Next, AllAnswered, vars
    <3>2. q = r
      BY <1>4, <2>2, <3>1, StepTouchesOne DEF Untouched, Protected
    <3> QED
      BY <1>3, <1>4, <3>1, <3>2
  <2> QED
    BY <2>1, <2>2
<1> QED
  BY <1>2, <1>4 DEF KeyConflictHasLog

(***************************************************************************)
(* forgeLogRetry never panics: the key it was refused has a committed log. *)
(***************************************************************************)
THEOREM RefusedKeyHasLog == Spec => []KeyConflictHasLog
<1>1. Init => KeyConflictHasLog
  BY DEF Init, KeyConflictHasLog
<1>2. Protected /\ KeyConflictHasLog /\ [Next]_vars => KeyConflictHasLog'
  BY KeyConflictStep
<1> QED
  BY <1>1, <1>2, ProtectedInit, ProtectedStep, PTL DEF Spec

-----------------------------------------------------------------------------
(* No update is lost.  The argument needs that an attempt changes its       *)
(* postings only while it has written nothing.                              *)

Written(r)        == Rows(work[r].written)
WritesUpToDate(r) ==
  \A a \in Written(r) : work[r].written[a] = AddPostings(Latest(a), work[r].postings, a)

WritesAfterReads(r) ==
  pc[r] \in {"idle", "readIK", "revert", "balances", "getBalances"} => Written(r) = {}

\* A step of r adds its postings to the latest version of one row, or ends the
\* attempt.
LEMMA OwnWritesStep ==
  ASSUME TypeOK, NEW r \in Requests, WritesUpToDate(r), WritesAfterReads(r), Step(r) \/ Resend(r)
  PROVE  WritesUpToDate(r)' /\ WritesAfterReads(r)'
<1>a. Rows(NoWork.written) = {}
  BY DEF Rows, NoWork, NoRows
<1>b. ASSUME work'[r] = NoWork PROVE WritesUpToDate(r)' /\ WritesAfterReads(r)'
  BY <1>a, <1>b DEF WritesUpToDate, WritesAfterReads, Written
<1>c. ASSUME Written(r) = {}, work'[r].written = work[r].written
      PROVE  WritesUpToDate(r)' /\ WritesAfterReads(r)'
  BY <1>c DEF WritesUpToDate, WritesAfterReads, Written
<1>d. ASSUME UNCHANGED volumes, work'[r].written = work[r].written,
             work'[r].postings = work[r].postings,
             pc'[r] \notin {"idle", "readIK", "revert", "balances", "getBalances"}
      PROVE  WritesUpToDate(r)' /\ WritesAfterReads(r)'
  BY <1>d DEF WritesUpToDate, WritesAfterReads, Written, Latest
<1>e. pc \in [Requests -> Statements] /\ work \in [Requests -> Work]
  BY DEF TypeOK
<1> USE DEF Goto, Others, db
<1>1. CASE Begin(r)
  <2>1. Written(r) = {} /\ work'[r].written = work[r].written
    BY <1>1, <1>e DEF WritesAfterReads, Work, Begin
  <2> QED
    BY <2>1, <1>c
<1>2. CASE ReadIK(r)
  <2>1. work'[r] = NoWork \/ (Written(r) = {} /\ work'[r].written = work[r].written)
    BY <1>2, <1>e DEF WritesAfterReads, Release, Answer, Fail, ReadIK, AnswerFromLog
  <2> QED
    BY <2>1, <1>b, <1>c
<1>3. CASE RevertTransaction(r)
  <2>1. Written(r) = {} /\ work'[r].written = work[r].written
    BY <1>3, <1>e DEF WritesAfterReads, Work, RevertTransaction, Acquire
  <2> QED
    BY <2>1, <1>c
<1>4. CASE RefuseRevert(r)
  BY <1>4, <1>b, <1>e DEF Release, Answer, Fail, RefuseRevert
<1>5. CASE Snapshot(r)
  <2>1. Written(r) = {} /\ work'[r].written = work[r].written
    BY <1>5, <1>e DEF WritesAfterReads, Work, Snapshot
  <2> QED
    BY <2>1, <1>c
<1>6. CASE LockOrInsertRow(r)
  <2>1. Written(r) = {} /\ work'[r].written = work[r].written
    BY <1>6, <1>e DEF WritesAfterReads, Work, LockOrInsertRow, Acquire
  <2> QED
    BY <2>1, <1>c
<1>7. CASE Execute(r)
  <2>1. work'[r] = NoWork \/ (Written(r) = {} /\ work'[r].written = work[r].written)
    BY <1>7, <1>e DEF WritesAfterReads, Release, Answer, Fail, Execute
  <2> QED
    BY <2>1, <1>b, <1>c
<1>8. CASE UpdateRow(r)
  <2>1. PICK a \in ToUpdate(r) : /\ UNCHANGED volumes
                                 /\ pc'[r] = "updateVolumes"
                                 /\ work' = [work EXCEPT ![r].written[a] =
                                               AddPostings(Latest(a), work[r].postings, a)]
    BY <1>8 DEF UpdateRow
  <2>2. a \in Accounts
    BY <2>1, RowsTouched
  <2>3. /\ work'[r].postings = work[r].postings
        /\ work'[r].written = [work[r].written EXCEPT ![a] = AddPostings(Latest(a), work[r].postings, a)]
    BY <2>1, <1>e DEF Work
  <2>4. work[r].written \in VolumeTable
    BY <1>e DEF Work
  <2>5. \A b \in Accounts \ {a} : work'[r].written[b] = work[r].written[b]
    BY <2>3, <2>4 DEF VolumeTable
  <2>6. work'[r].written[a] = AddPostings(Latest(a), work[r].postings, a)
    BY <2>2, <2>3, <2>4 DEF VolumeTable
  <2> QED
    BY <2>1, <2>2, <2>3, <2>5, <2>6
       DEF WritesUpToDate, WritesAfterReads, Written, Rows, Latest
<1>9. CASE NextTransactionID(r)
  <2>1. work'[r].written = work[r].written /\ work'[r].postings = work[r].postings
    BY <1>9, <1>e DEF Work, NextTransactionID
  <2> QED
    BY <1>9, <2>1, <1>d, <1>e DEF NextTransactionID
<1>10. CASE InsertTransaction(r)
  <2>1. work'[r].written = work[r].written /\ work'[r].postings = work[r].postings
    BY <1>10, <1>e DEF Work, InsertTransaction, Acquire
  <2> QED
    BY <1>10, <2>1, <1>d, <1>e DEF InsertTransaction, Acquire
<1>11. CASE ReferenceConflict(r)
  BY <1>11, <1>b, <1>e DEF Release, Answer, Fail, ReferenceConflict
<1>12. CASE ReadAccounts(r)
  <2>1. work'[r].written = work[r].written /\ work'[r].postings = work[r].postings
    BY <1>12, <1>e DEF Work, ReadAccounts
  <2> QED
    BY <1>12, <2>1, <1>d, <1>e DEF ReadAccounts
<1>13. CASE InsertAccounts(r)
  <2>1. work'[r].written = work[r].written /\ work'[r].postings = work[r].postings
    BY <1>13, <1>e DEF Work, InsertAccounts
  <2> QED
    BY <1>13, <2>1, <1>d, <1>e DEF InsertAccounts
<1>14. CASE AccountsConflict(r)
  BY <1>14, <1>b, <1>e DEF Release, Answer, Fail, AccountsConflict
<1>15. CASE LockLogs(r)
  <2>1. work'[r].written = work[r].written /\ work'[r].postings = work[r].postings
    BY <1>15, <1>e DEF Work, LockLogs, Acquire
  <2> QED
    BY <1>15, <2>1, <1>d, <1>e DEF LockLogs, Acquire
<1>16. CASE NextLogID(r)
  <2>1. work'[r].written = work[r].written /\ work'[r].postings = work[r].postings
    BY <1>16, <1>e DEF Work, NextLogID
  <2> QED
    BY <1>16, <2>1, <1>d, <1>e DEF NextLogID
<1>17. CASE InsertLog(r)
  <2>1. work'[r].written = work[r].written /\ work'[r].postings = work[r].postings
    BY <1>17, <1>e DEF Work, InsertLog, Acquire
  <2> QED
    BY <1>17, <2>1, <1>d, <1>e DEF InsertLog, Acquire
<1>18. CASE IdempotencyKeyConflict(r)
  BY <1>18, <1>b, <1>e DEF Release, Answer, Fail, IdempotencyKeyConflict, Retry
<1>19. CASE FetchIK(r)
  BY <1>19, <1>b, <1>e DEF Release, Answer, Fail, FetchIK, AnswerFromLog
<1>20. CASE Commit(r)
  BY <1>20, <1>b, <1>e DEF Release, Answer, Fail, Commit
<1>21. CASE RollbackDryRun(r)
  BY <1>21, <1>b, <1>e DEF Release, Answer, Fail, RollbackDryRun
<1>22. CASE DeadlockDetected(r)
  BY <1>22, <1>b, <1>e DEF Release, Answer, Fail, DeadlockDetected, Retry
<1>23. CASE Resend(r)
  BY <1>23, <1>b, <1>e DEF Release, Answer, Fail, Resend
<1> QED
  BY <1>1, <1>2, <1>3, <1>4, <1>5, <1>6, <1>7, <1>8, <1>9, <1>10, <1>11,
     <1>12, <1>13, <1>14, <1>15, <1>16, <1>17, <1>18, <1>19, <1>20, <1>21,
     <1>22, <1>23 DEF Step

\* A commit of another request writes none of the rows r has written.
LEMMA WritesStep ==
  ASSUME Protected, \A q \in Requests : WritesUpToDate(q) /\ WritesAfterReads(q), [Next]_vars
  PROVE  \A q \in Requests : WritesUpToDate(q)' /\ WritesAfterReads(q)'
<1>1. CASE UNCHANGED vars
  BY <1>1 DEF vars, db, WritesUpToDate, WritesAfterReads, Written, Latest
<1>2. ASSUME NEW r \in Requests, Step(r) \/ Resend(r), NEW q \in Requests
      PROVE  WritesUpToDate(q)' /\ WritesAfterReads(q)'
  <2>1. CASE q = r
    BY <1>2, <2>1, OwnWritesStep DEF Protected
  <2>2. CASE q # r
    <3>1. pc'[q] = pc[q] /\ work'[q] = work[q]
      BY <1>2, <2>2, StepTouchesOne DEF Untouched, Protected
    <3>2. \A a \in Written(q) : Latest(a)' = Latest(a)
      <4>1. CASE UNCHANGED db
        BY <4>1 DEF db, Latest
      <4>2. CASE Commit(r)
        <5>1. \A a \in Written(q) : a \in Accounts /\ Row(a) \in locks[q]
          BY DEF Protected, HoldsLocks, Holds, Written, Rows
        <5>2. \A a \in Written(q) : a \notin Rows(work[r].written)
          BY <2>2, <5>1 DEF Protected, MutualExclusion, HoldsLocks, Holds
        <5>3. \A a \in Written(q) : volumes'[a] = volumes[a]
          BY <4>2, <5>1, <5>2 DEF Commit, Merged
        <5> QED
          BY <5>1, <5>3 DEF Latest, LatestIn, Rows
      <4> QED
        BY <1>2, <4>1, <4>2, StepTouchesOne DEF Protected
    <3> QED
      BY <3>1, <3>2 DEF WritesUpToDate, WritesAfterReads, Written
  <2> QED
    BY <2>1, <2>2
<1> QED
  BY <1>1, <1>2 DEF Next, AllAnswered

(***************************************************************************)
(* What an attempt has written stays the latest committed version of the   *)
(* row plus its own postings, whoever commits before it does.              *)
(***************************************************************************)
THEOREM NothingLost == Spec => []NoLostUpdate
<1> DEFINE WInv == \A q \in Requests : WritesUpToDate(q) /\ WritesAfterReads(q)
<1>1. Init => WInv
  <2>1. Rows(NoWork.written) = {}
    BY DEF Rows, NoWork, NoRows
  <2> QED
    BY <2>1 DEF Init, WritesUpToDate, WritesAfterReads, Written
<1>2. Protected /\ WInv /\ [Next]_vars => WInv'
  BY WritesStep
<1>3. WInv => NoLostUpdate
  BY DEF NoLostUpdate, WritesUpToDate, Written
<1> HIDE DEF WInv
<1> QED
  BY <1>1, <1>2, <1>3, ProtectedInit, ProtectedStep, PTL DEF Spec

-----------------------------------------------------------------------------
(* The chain of hashed logs: from the trigger that reads the last log to    *)
(* the commit the advisory lock keeps every other log away.                 *)

Chained(r) ==
  HashLogs =>
    /\ pc[r] \in {"logID", "insertLog", "commit"} => LogTable \in locks[r]
    /\ pc[r] \in {"insertLog", "commit"} =>
         work[r].log.prev = LastIn(logs) /\ \A l \in logs : l.id < work[r].log.id

\* A step of r reads the last log only while it holds the advisory lock.
LEMMA OwnChainStep ==
  ASSUME TypeOK, NEW r \in Requests, Chained(r), Step(r) \/ Resend(r)
  PROVE  Chained(r)'
<1>a. pc \in [Requests -> Statements] /\ work \in [Requests -> Work]
        /\ locks \in [Requests -> SUBSET Resources] /\ HashLogs \in BOOLEAN
  BY CommandAssumption DEF TypeOK
<1>b. ASSUME pc'[r] \notin {"logID", "insertLog", "commit"} PROVE Chained(r)'
  BY <1>b DEF Chained
<1> USE <1>a DEF Goto, Others
<1>1. CASE Begin(r)
  <2>1. pc'[r] \notin {"logID", "insertLog", "commit"}
    BY <1>1 DEF Release, Answer, Fail, FirstStatement, Begin
  <2> QED
    BY <2>1, <1>b
<1>2. CASE ReadIK(r)
  <2>1. pc'[r] \notin {"logID", "insertLog", "commit"}
    BY <1>2 DEF Release, Answer, Fail, FirstStatement, ReadIK, AnswerFromLog
  <2> QED
    BY <2>1, <1>b
<1>3. CASE RevertTransaction(r)
  <2>1. pc'[r] \notin {"logID", "insertLog", "commit"}
    BY <1>3 DEF Release, Answer, Fail, RevertTransaction, Acquire
  <2> QED
    BY <2>1, <1>b
<1>4. CASE RefuseRevert(r)
  <2>1. pc'[r] \notin {"logID", "insertLog", "commit"}
    BY <1>4 DEF Release, Answer, Fail, RefuseRevert
  <2> QED
    BY <2>1, <1>b
<1>5. CASE Snapshot(r)
  <2>1. pc'[r] \notin {"logID", "insertLog", "commit"}
    BY <1>5 DEF Release, Answer, Fail, Snapshot
  <2> QED
    BY <2>1, <1>b
<1>6. CASE LockOrInsertRow(r)
  <2>1. pc'[r] \notin {"logID", "insertLog", "commit"}
    BY <1>6 DEF Release, Answer, Fail, LockOrInsertRow, Acquire
  <2> QED
    BY <2>1, <1>b
<1>7. CASE Execute(r)
  <2>1. pc'[r] \notin {"logID", "insertLog", "commit"}
    BY <1>7 DEF Release, Answer, Fail, Execute
  <2> QED
    BY <2>1, <1>b
<1>8. CASE UpdateRow(r)
  <2>1. pc'[r] \notin {"logID", "insertLog", "commit"}
    BY <1>8 DEF Release, Answer, Fail, UpdateRow, Acquire
  <2> QED
    BY <2>1, <1>b
<1>9. CASE NextTransactionID(r)
  <2>1. pc'[r] \notin {"logID", "insertLog", "commit"}
    BY <1>9 DEF Release, Answer, Fail, NextTransactionID
  <2> QED
    BY <2>1, <1>b
<1>10. CASE InsertTransaction(r)
  <2>1. pc'[r] \notin {"logID", "insertLog", "commit"}
    BY <1>10 DEF Release, Answer, Fail, InsertTransaction, Acquire
  <2> QED
    BY <2>1, <1>b
<1>11. CASE ReferenceConflict(r)
  <2>1. pc'[r] \notin {"logID", "insertLog", "commit"}
    BY <1>11 DEF Release, Answer, Fail, ReferenceConflict
  <2> QED
    BY <2>1, <1>b
<1>12. CASE ReadAccounts(r)
  <2>1. pc'[r] \notin {"logID", "insertLog", "commit"}
    BY <1>12 DEF Release, Answer, Fail, ReadAccounts
  <2> QED
    BY <2>1, <1>b
<1>13. CASE InsertAccounts(r)
  <2>1. pc'[r] \notin {"logID", "insertLog", "commit"}
    BY <1>13 DEF Release, Answer, Fail, InsertAccounts
  <2> QED
    BY <2>1, <1>b
<1>14. CASE AccountsConflict(r)
  <2>1. pc'[r] \notin {"logID", "insertLog", "commit"}
    BY <1>14 DEF Release, Answer, Fail, AccountsConflict
  <2> QED
    BY <2>1, <1>b
<1>15. CASE LockLogs(r)
  BY <1>15 DEF Chained, LockLogs, Acquire
<1>16. CASE NextLogID(r)
  <2>1. HashLogs => work'[r].log = [id |-> logSeq + 1, prev |-> LastIn(logs)]
    BY <1>16 DEF NextLogID, Work
  <2>2. \A l \in logs : l.id < logSeq + 1
    BY DEF TypeOK
  <2>3. (HashLogs => pc[r] = "logID") /\ pc'[r] = "insertLog" /\ UNCHANGED <<logs, locks>>
    BY <1>16 DEF NextLogID, db
  <2> QED
    BY <2>1, <2>2, <2>3 DEF Chained
<1>17. CASE InsertLog(r)
  BY <1>17 DEF Chained, db, InsertLog, Acquire
<1>18. CASE IdempotencyKeyConflict(r)
  <2>1. pc'[r] \notin {"logID", "insertLog", "commit"}
    BY <1>18 DEF Release, Answer, Fail, IdempotencyKeyConflict, Retry
  <2> QED
    BY <2>1, <1>b
<1>19. CASE FetchIK(r)
  <2>1. pc'[r] \notin {"logID", "insertLog", "commit"}
    BY <1>19 DEF Release, Answer, Fail, FetchIK, AnswerFromLog
  <2> QED
    BY <2>1, <1>b
<1>20. CASE Commit(r)
  <2>1. pc'[r] \notin {"logID", "insertLog", "commit"}
    BY <1>20 DEF Release, Answer, Fail, Commit
  <2> QED
    BY <2>1, <1>b
<1>21. CASE RollbackDryRun(r)
  <2>1. pc'[r] \notin {"logID", "insertLog", "commit"}
    BY <1>21 DEF Release, Answer, Fail, RollbackDryRun
  <2> QED
    BY <2>1, <1>b
<1>22. CASE DeadlockDetected(r)
  <2>1. pc'[r] \notin {"logID", "insertLog", "commit"}
    BY <1>22 DEF Release, Answer, Fail, DeadlockDetected, Retry
  <2> QED
    BY <2>1, <1>b
<1>23. CASE Resend(r)
  <2>1. pc'[r] \notin {"logID", "insertLog", "commit"}
    BY <1>23 DEF Release, Answer, Fail, Resend
  <2> QED
    BY <2>1, <1>b
<1> QED
  BY <1>1, <1>2, <1>3, <1>4, <1>5, <1>6, <1>7, <1>8, <1>9, <1>10, <1>11,
     <1>12, <1>13, <1>14, <1>15, <1>16, <1>17, <1>18, <1>19, <1>20, <1>21,
     <1>22, <1>23 DEF Step

\* The id of the last record of a table.
LEMMA LastInIs ==
  ASSUME NEW table, NEW n \in Nat, NEW x \in table, x.id = n,
         \A y \in table : y.id \in Nat /\ y.id <= n
  PROVE  LastIn(table) = n
<1> DEFINE IsLast(m) == m \in IdsOf(table) /\ \A k \in IdsOf(table) : k <= m
<1>1. IsLast(n)
  BY DEF IdsOf
<1>2. ASSUME NEW m, IsLast(m) PROVE m = n
  <2>1. m \in Nat /\ m <= n /\ n <= m
    BY <1>1, <1>2 DEF IdsOf
  <2> QED
    BY <2>1
<1>3. table # {}
  OBVIOUS
<1>4. LastIn(table) = CHOOSE m \in IdsOf(table) : \A k \in IdsOf(table) : k <= m
  BY <1>3 DEF LastIn
<1> QED
  BY <1>1, <1>2, <1>4

\* The Genesis logs form a chain.
LEMMA ChainInit == Init => LogChain /\ \A r \in Requests : Chained(r)
<1> SUFFICES ASSUME Init PROVE LogChain /\ \A r \in Requests : Chained(r)
  OBVIOUS
<1>1. Len(Genesis) \in Nat /\ DOMAIN Genesis = 1..Len(Genesis)
  BY CommandAssumption, LenProperties
<1> DEFINE log(i) == [id |-> i, prev |-> IF HashLogs THEN i - 1 ELSE 0, ik |-> None,
                      input |-> None, tx |-> i]
<1>2. logs = { log(i) : i \in 1..Len(Genesis) }
  BY <1>1 DEF Init, GenesisLogs
<1>3. ASSUME HashLogs, NEW i \in 1..Len(Genesis)
      PROVE  log(i).prev = LastIn({ k \in logs : k.id < log(i).id })
  <2> DEFINE before == { k \in logs : k.id < log(i).id }
  <2>1. log(i).prev = i - 1 /\ log(i).id = i /\ i \in Nat
    BY <1>1, <1>3
  <2>2. \A k \in before : k.id \in Nat /\ k.id >= 1 /\ k.id <= i - 1
    BY <1>1, <1>2, <2>1
  <2>3. CASE i = 1
    <3>1. before = {}
      BY <2>2, <2>3
    <3>2. LastIn(before) = 0
      BY <3>1 DEF LastIn
    <3> HIDE DEF before, log
    <3> QED
      BY <2>1, <2>3, <3>2 DEF before
  <2>4. CASE i # 1
    <3>1. i - 1 \in 1..Len(Genesis) /\ log(i - 1) \in logs /\ log(i - 1).id = i - 1
      BY <1>1, <1>2, <2>1, <2>4
    <3>2. log(i - 1) \in before /\ i - 1 \in Nat
      BY <2>1, <3>1
    <3> HIDE DEF before, log
    <3>3. LastIn(before) = i - 1
      BY <2>2, <3>1, <3>2, LastInIs
    <3> QED
      BY <2>1, <3>3 DEF before
  <2> QED
    BY <2>3, <2>4
<1>4. LogChain
  <2> HIDE DEF log
  <2> QED
    BY <1>2, <1>3 DEF LogChain
<1> QED
  BY <1>4 DEF Init, Chained

\* Nobody commits a log between the trigger and the commit of another request.
LEMMA ChainStep ==
  ASSUME Protected, LogChain, \A q \in Requests : Chained(q), [Next]_vars
  PROVE  LogChain' /\ \A q \in Requests : Chained(q)'
<1>1. CASE UNCHANGED vars
  BY <1>1 DEF vars, db, LogChain, Chained
<1>2. ASSUME NEW r \in Requests, Step(r) \/ Resend(r), NEW q \in Requests PROVE Chained(q)'
  <2>1. CASE q = r
    BY <1>2, <2>1, OwnChainStep DEF Protected
  <2>2. CASE q # r
    <3>1. pc'[q] = pc[q] /\ work'[q] = work[q] /\ locks'[q] = locks[q]
      BY <1>2, <2>2, StepTouchesOne DEF Untouched, Protected
    <3>2. CASE UNCHANGED db
      BY <3>1, <3>2 DEF Chained, db
    <3>3. CASE Commit(r)
      <4>1. HashLogs => LogTable \in locks[r]
        BY <3>3 DEF Commit, Chained
      <4>2. HashLogs => LogTable \notin locks[q]
        BY <2>2, <4>1 DEF Protected, MutualExclusion
      <4> QED
        BY <3>1, <4>2 DEF Chained
    <3> QED
      BY <1>2, <3>2, <3>3, StepTouchesOne DEF Protected
  <2> QED
    BY <2>1, <2>2
<1>3. ASSUME NEW r \in Requests, Step(r) \/ Resend(r) PROVE LogChain'
  <2>1. CASE UNCHANGED db
    BY <2>1 DEF LogChain, db
  <2>2. CASE Commit(r)
    <3> SUFFICES ASSUME HashLogs, NEW l \in logs'
                 PROVE  l.prev = LastIn({ k \in logs' : k.id < l.id })
      BY DEF LogChain
    <3>1. pc[r] = "commit" /\ logs' = logs \cup {NewLog(r)}
      BY <2>2 DEF Commit
    <3>2. NewLog(r).id = work[r].log.id /\ NewLog(r).prev = work[r].log.prev
      BY DEF NewLog
    <3>3. NewLog(r).prev = LastIn(logs) /\ \A k \in logs : k.id < NewLog(r).id
      BY <3>1, <3>2 DEF Chained
    <3>4. \A k \in logs' : k.id \in Nat
      BY <3>1, <3>2 DEF Protected, TypeOK, Work
    <3>5. CASE l \in logs
      <4>1. { k \in logs' : k.id < l.id } = { k \in logs : k.id < l.id }
        BY <3>1, <3>3, <3>4, <3>5
      <4> QED
        BY <3>5, <4>1 DEF LogChain
    <3>6. CASE l = NewLog(r)
      <4>1. { k \in logs' : k.id < l.id } = logs
        BY <3>1, <3>3, <3>4, <3>6
      <4> QED
        BY <3>3, <3>6, <4>1
    <3> QED
      BY <3>1, <3>5, <3>6
  <2> QED
    BY <1>3, <2>1, <2>2, StepTouchesOne DEF Protected
<1> QED
  BY <1>1, <1>2, <1>3 DEF Next, AllAnswered

(***************************************************************************)
(* With HASH_LOGS = SYNC the log a hash is computed from is the one just   *)
(* before, in the order of the ids, of all the logs ever committed.        *)
(***************************************************************************)
THEOREM HashedLogsAreAChain == Spec => []LogChain
<1> DEFINE CInv == LogChain /\ \A q \in Requests : Chained(q)
<1>1. Protected /\ CInv /\ [Next]_vars => CInv'
  BY ChainStep
<1>2. Init => CInv
  BY ChainInit
<1>3. CInv => LogChain
  OBVIOUS
<1> HIDE DEF CInv
<1> QED
  BY <1>1, <1>2, <1>3, ProtectedInit, ProtectedStep, PTL DEF Spec

-----------------------------------------------------------------------------
(* What a set of transactions adds up to. *)

\* The terms of TotalOf: what each transaction brings to an account, and takes.
BroughtBy(txs, a) == [t \in txs |-> InputOf(t.postings, a)]
TakenBy(txs, a)   == [t \in txs |-> OutputOf(t.postings, a)]

LEMMA TotalOfIs ==
  ASSUME NEW txs, IsFiniteSet(txs), \A t \in txs : t.postings \in Seq(Posting), NEW a
  PROVE  /\ TotalOf(txs, a) = [in  |-> SumFunctionOnSet(BroughtBy(txs, a), txs),
                               out |-> SumFunctionOnSet(TakenBy(txs, a), txs)]
         /\ \A t \in txs : BroughtBy(txs, a)[t] \in Nat /\ TakenBy(txs, a)[t] \in Nat
         /\ TotalOf(txs, a) \in Volume
<1>1. \A t \in txs : BroughtBy(txs, a)[t] \in Nat /\ TakenBy(txs, a)[t] \in Nat
  BY InputOutputNat DEF BroughtBy, TakenBy
<1>2. DOMAIN BroughtBy(txs, a) = txs /\ DOMAIN TakenBy(txs, a) = txs
  BY DEF BroughtBy, TakenBy
<1>3. TotalOf(txs, a) =
        [in  |-> SumFunctionOnSet(BroughtBy(txs, a), DOMAIN BroughtBy(txs, a)),
         out |-> SumFunctionOnSet(TakenBy(txs, a), DOMAIN TakenBy(txs, a))]
  BY DEF TotalOf, SumFunction, BroughtBy, TakenBy
<1>4. SumFunctionOnSet(BroughtBy(txs, a), txs) \in Nat /\ SumFunctionOnSet(TakenBy(txs, a), txs) \in Nat
  BY <1>1, SumNat
<1> QED
  BY <1>1, <1>2, <1>3, <1>4 DEF Volume

\* Transactions that do not name an account do not count in its total.
LEMMA TotalOfInvolved ==
  ASSUME NEW txs, IsFiniteSet(txs), \A t \in txs : t.postings \in Seq(Posting), NEW a,
         NEW some \in SUBSET txs, \A t \in txs \ some : a \notin Involved(t.postings)
  PROVE  TotalOf(some, a) = TotalOf(txs, a)
<1>1. IsFiniteSet(some)
  BY FS_Subset
<1>2. \A t \in some : /\ BroughtBy(some, a)[t] = BroughtBy(txs, a)[t]
                      /\ TakenBy(some, a)[t] = TakenBy(txs, a)[t]
  BY DEF BroughtBy, TakenBy
<1>3. \A t \in txs : BroughtBy(txs, a)[t] \in Int /\ TakenBy(txs, a)[t] \in Int
  BY TotalOfIs
<1>4. \A t \in txs \ some : BroughtBy(txs, a)[t] = 0 /\ TakenBy(txs, a)[t] = 0
  BY UnnamedMovesNothing DEF Involved, BroughtBy, TakenBy
<1>5. SumFunctionOnSet(BroughtBy(some, a), some) = SumFunctionOnSet(BroughtBy(txs, a), some)
  BY <1>1, <1>2, <1>3, SumEqual
<1>6. SumFunctionOnSet(TakenBy(some, a), some) = SumFunctionOnSet(TakenBy(txs, a), some)
  BY <1>1, <1>2, <1>3, SumEqual
<1>7. SumFunctionOnSet(BroughtBy(txs, a), some) = SumFunctionOnSet(BroughtBy(txs, a), txs)
  BY <1>3, <1>4, SumWithout
<1>8. SumFunctionOnSet(TakenBy(txs, a), some) = SumFunctionOnSet(TakenBy(txs, a), txs)
  BY <1>3, <1>4, SumWithout
<1> QED
  BY <1>1, <1>5, <1>6, <1>7, <1>8, TotalOfIs

\* One more transaction adds its postings.
LEMMA TotalOfGrows ==
  ASSUME NEW txs, IsFiniteSet(txs), NEW t, t \notin txs,
         \A u \in txs \cup {t} : u.postings \in Seq(Posting), NEW a
  PROVE  TotalOf(txs \cup {t}, a) = AddPostings(TotalOf(txs, a), t.postings, a)
<1> DEFINE all == txs \cup {t}
<1>1. IsFiniteSet(all)
  BY FS_AddElement
<1>2. \A u \in txs : /\ BroughtBy(txs, a)[u] = BroughtBy(all, a)[u]
                     /\ TakenBy(txs, a)[u] = TakenBy(all, a)[u]
  BY DEF BroughtBy, TakenBy
<1>3. BroughtBy(all, a)[t] = InputOf(t.postings, a) /\ TakenBy(all, a)[t] = OutputOf(t.postings, a)
  BY DEF BroughtBy, TakenBy
<1>4. \A u \in all : BroughtBy(all, a)[u] \in Nat /\ TakenBy(all, a)[u] \in Nat
  BY <1>1, TotalOfIs
<1>5. \A u \in txs \cup {t} : BroughtBy(all, a)[u] \in Int /\ TakenBy(all, a)[u] \in Int
  <2> SUFFICES ASSUME NEW u \in txs \cup {t}
               PROVE  BroughtBy(all, a)[u] \in Int /\ TakenBy(all, a)[u] \in Int
    OBVIOUS
  <2>1. BroughtBy(all, a)[u] \in Nat /\ TakenBy(all, a)[u] \in Nat
    BY <1>4
  <2> QED
    BY <2>1
<1>6. /\ TotalOf(all, a) = [in  |-> SumFunctionOnSet(BroughtBy(all, a), all),
                            out |-> SumFunctionOnSet(TakenBy(all, a), all)]
      /\ TotalOf(txs, a) = [in  |-> SumFunctionOnSet(BroughtBy(txs, a), txs),
                            out |-> SumFunctionOnSet(TakenBy(txs, a), txs)]
      /\ TotalOf(txs, a) \in Volume
  BY <1>1, TotalOfIs
<1>7. SumFunctionOnSet(BroughtBy(txs, a), txs) = SumFunctionOnSet(BroughtBy(all, a), txs)
  BY <1>2, <1>5, SumEqual
<1>8. SumFunctionOnSet(TakenBy(txs, a), txs) = SumFunctionOnSet(TakenBy(all, a), txs)
  BY <1>2, <1>5, SumEqual
<1>9. SumFunctionOnSet(BroughtBy(all, a), txs \cup {t}) =
        BroughtBy(all, a)[t] + SumFunctionOnSet(BroughtBy(all, a), txs)
  BY <1>5, SumAdd
<1>10. SumFunctionOnSet(TakenBy(all, a), txs \cup {t}) =
        TakenBy(all, a)[t] + SumFunctionOnSet(TakenBy(all, a), txs)
  BY <1>5, SumAdd
<1>11. TotalOf(txs, a).in \in Nat /\ TotalOf(txs, a).out \in Nat
         /\ InputOf(t.postings, a) \in Nat /\ OutputOf(t.postings, a) \in Nat
  BY <1>6, InputOutputNat DEF Volume
<1> HIDE DEF all
<1>12. SumFunctionOnSet(BroughtBy(all, a), all) = TotalOf(txs, a).in + InputOf(t.postings, a)
  BY <1>3, <1>6, <1>7, <1>9, <1>11 DEF all
<1>13. SumFunctionOnSet(TakenBy(all, a), all) = TotalOf(txs, a).out + OutputOf(t.postings, a)
  BY <1>3, <1>6, <1>8, <1>10, <1>11 DEF all
<1>14. TotalOf(all, a) = AddPostings(TotalOf(txs, a), t.postings, a)
  BY <1>6, <1>12, <1>13 DEF AddPostings
<1> QED
  BY <1>14 DEF all

\* Postings leave alone the volumes of an account they do not name.
LEMMA AddNothing ==
  ASSUME NEW ps \in Seq(Posting), NEW a, a \notin Involved(ps), NEW v \in Volume
  PROVE  AddPostings(v, ps, a) = v
<1>1. InputOf(ps, a) = 0 /\ OutputOf(ps, a) = 0
  BY UnnamedMovesNothing DEF Involved
<1> QED
  BY <1>1 DEF AddPostings, Volume

-----------------------------------------------------------------------------
(* The tables left by the Genesis transactions. *)

GenesisTransaction(i) ==
  [id |-> i, postings |-> Genesis[i], ref |-> None, reverts |-> 0,
   pcv |-> [a \in Accounts |-> IF a \in Involved(Genesis[i]) THEN GenesisVolume(i, a) ELSE None]]

LEMMA GenesisTransactionsAre ==
  /\ Len(Genesis) \in Nat /\ DOMAIN Genesis = 1..Len(Genesis)
  /\ GenesisTransactions = { GenesisTransaction(i) : i \in 1..Len(Genesis) }
  /\ \A i \in 1..Len(Genesis) : GenesisTransaction(i).id = i /\ GenesisTransaction(i).postings = Genesis[i]
  /\ \A t \in GenesisTransactions : /\ t.id \in 1..Len(Genesis) /\ t = GenesisTransaction(t.id)
                                    /\ t.postings = Genesis[t.id] /\ t.postings \in Seq(Posting)
  /\ \A a : a \in GenesisAccounts <=> \E t \in GenesisTransactions : a \in Involved(t.postings)
<1>1. Len(Genesis) \in Nat /\ DOMAIN Genesis = 1..Len(Genesis)
        /\ \A i \in 1..Len(Genesis) : Genesis[i] \in Seq(Posting)
  BY CommandAssumption, LenProperties, ElementOfSeq
<1>2. GenesisTransactions = { GenesisTransaction(i) : i \in 1..Len(Genesis) }
  BY <1>1 DEF GenesisTransactions, GenesisTransaction
<1>3. \A i \in 1..Len(Genesis) : GenesisTransaction(i).id = i /\ GenesisTransaction(i).postings = Genesis[i]
  BY DEF GenesisTransaction
<1>4. \A t \in GenesisTransactions : /\ t.id \in 1..Len(Genesis) /\ t = GenesisTransaction(t.id)
                                     /\ t.postings = Genesis[t.id] /\ t.postings \in Seq(Posting)
  BY <1>1, <1>2, <1>3
<1>5. \A a : a \in GenesisAccounts <=> \E i \in 1..Len(Genesis) : a \in Involved(Genesis[i])
  BY <1>1 DEF GenesisAccounts
<1>6. \A a : a \in GenesisAccounts <=> \E t \in GenesisTransactions : a \in Involved(t.postings)
  BY <1>2, <1>3, <1>5
<1> QED
  BY <1>1, <1>2, <1>3, <1>4, <1>6

\* The volumes after the first n of them are what these add up to.
LEMMA GenesisTotal ==
  ASSUME NEW n \in 0..Len(Genesis), NEW a
  PROVE  LET first == { t \in GenesisTransactions : t.id <= n }
         IN  IsFiniteSet(first) /\ GenesisVolume(n, a) = TotalOf(first, a)
<1> DEFINE first == { t \in GenesisTransactions : t.id <= n }
           b == [i \in 1..n |-> GenesisTransaction(i)]
<1>1. n \in Nat /\ n <= Len(Genesis) /\ Len(Genesis) \in Nat
  BY GenesisVolumeIs
<1>2. \A i \in 1..n : b[i] \in first
  BY <1>1, GenesisTransactionsAre
<1>3. \A t \in first : t.id \in 1..n /\ b[t.id] = t
  BY <1>1, GenesisTransactionsAre
<1>4. \A t \in first : \E i \in 1..n : b[i] = t
  BY <1>3
<1>5. \A i, j \in 1..n : b[i] = b[j] => i = j
  BY <1>1, GenesisTransactionsAre
<1>6. \A i \in 1..n : b[i].postings = Genesis[i]
  BY <1>1, GenesisTransactionsAre
<1> HIDE DEF b, first
<1>7. \A i \in 1..n : /\ Received(n, a)[i] = BroughtBy(first, a)[b[i]] /\ Received(n, a)[i] \in Int
                      /\ Given(n, a)[i] = TakenBy(first, a)[b[i]] /\ Given(n, a)[i] \in Int
  <2>1. \A i \in 1..n : Received(n, a)[i] \in Nat /\ Given(n, a)[i] \in Nat
    BY GenesisVolumeIs
  <2>2. \A i \in 1..n : Received(n, a)[i] = InputOf(Genesis[i], a) /\ Given(n, a)[i] = OutputOf(Genesis[i], a)
    BY DEF Received, Given
  <2>3. \A t \in first : /\ BroughtBy(first, a)[t] = InputOf(t.postings, a)
                         /\ TakenBy(first, a)[t] = OutputOf(t.postings, a)
    BY DEF BroughtBy, TakenBy
  <2>4. \A i \in 1..n : Received(n, a)[i] \in Int /\ Given(n, a)[i] \in Int
    BY <2>1
  <2> QED
    <3>1. ASSUME NEW i \in 1..n PROVE /\ Received(n, a)[i] = BroughtBy(first, a)[b[i]]
                                      /\ Given(n, a)[i] = TakenBy(first, a)[b[i]]
      <4>1. b[i] \in first /\ b[i].postings = Genesis[i]
        BY <1>2, <1>6
      <4> QED
        BY <2>2, <2>3, <4>1
    <3> QED
      BY <2>4, <3>1
<1>8. IsFiniteSet(1..n)
  BY GenesisVolumeIs
<1>9. Renames(Received(n, a), BroughtBy(first, a), b, 1..n, first)
  BY <1>2, <1>4, <1>5, <1>7, <1>8 DEF Renames
<1>10. Renames(Given(n, a), TakenBy(first, a), b, 1..n, first)
  BY <1>2, <1>4, <1>5, <1>7, <1>8 DEF Renames
<1>11. IsFiniteSet(first)
         /\ SumFunctionOnSet(Received(n, a), 1..n) = SumFunctionOnSet(BroughtBy(first, a), first)
  BY <1>9, SumRenamed
<1>12. SumFunctionOnSet(Given(n, a), 1..n) = SumFunctionOnSet(TakenBy(first, a), first)
  BY <1>10, SumRenamed
<1>13. \A t \in first : t.postings \in Seq(Posting)
  BY GenesisTransactionsAre DEF first
<1>14. GenesisVolume(n, a) = TotalOf(first, a)
  BY <1>11, <1>12, <1>13, GenesisVolumeIs, TotalOfIs
<1> QED
  BY <1>11, <1>14 DEF first

-----------------------------------------------------------------------------
(* What a step does to its own attempt: it ends it, or brings it forward.   *)

Executed == {"updateVolumes"} \cup HasTransactionID
Reading  == {"balances", "getBalances"} \cup Executed
Outside  == {"idle", "fetchIK", "done"}

Ends(r) == work'[r] = NoWork /\ pc'[r] \in Outside

Fields     == {"postings", "reverts", "seen", "written", "txid", "log"}
Kept(r, F) == \A f \in F : work'[r][f] = work[r][f]

Begins(r) ==
  /\ pc[r] = "idle" /\ pc'[r] \in {"readIK", FirstStatement(r)}
  /\ work'[r].postings = IF Cmd[r].op = "create" THEN Cmd[r].postings ELSE <<>>
  /\ Kept(r, Fields \ {"postings"})

FindsNoKey(r) == pc[r] = "readIK" /\ pc'[r] = FirstStatement(r) /\ Kept(r, Fields)

Reverts(r) ==
  /\ pc[r] = "revert" /\ pc'[r] = "balances"
  /\ \E t \in transactions :
       /\ t.id = Cmd[r].target
       /\ work'[r].postings = ReversePostings(t.postings) /\ work'[r].reverts = t.id
  /\ Kept(r, Fields \ {"postings", "reverts"})

TakesSnapshot(r) ==
  /\ pc[r] = "balances" /\ pc'[r] = "getBalances"
  /\ work'[r].seen = Queried(r) \cap Rows(volumes)
  /\ Kept(r, Fields \ {"seen"})

LocksRow(r) == pc[r] = "getBalances" /\ pc'[r] = "getBalances" /\ Kept(r, Fields)

Executes(r) ==
  /\ pc[r] = "getBalances" /\ pc'[r] = "updateVolumes" /\ Kept(r, Fields)
  /\ ToRead(r) = {} /\ work[r].postings # <<>>
  /\ Sufficient(r, work[r].postings, BalancesRead(r))

Updates(r) ==
  /\ pc[r] = "updateVolumes" /\ pc'[r] = "updateVolumes"
  /\ \E a \in ToUpdate(r) : /\ Row(a) \in locks'[r]
                            /\ Rows(work'[r].written) \subseteq Rows(work[r].written) \cup {a}
  /\ Kept(r, Fields \ {"written"})

DrawsTransactionID(r) ==
  /\ pc[r] = "updateVolumes" /\ pc'[r] = "insertTransaction"
  /\ ToUpdate(r) = {} /\ work'[r].txid = txSeq + 1
  /\ Kept(r, Fields \ {"txid"})

DrawsLogID(r) ==
  /\ pc[r] \in {"log", "logID"} /\ pc'[r] = "insertLog"
  /\ work'[r].log.id = logSeq + 1 /\ (HashLogs \/ work'[r].log.prev = 0)
  /\ Kept(r, Fields \ {"log"})

Continues(r) ==
  /\ pc[r] \in HasTransactionID /\ pc'[r] \in HasTransactionID
  /\ pc'[r] \in {"insertLog", "commit"} => pc[r] \in {"insertLog", "commit"}
  /\ Kept(r, Fields)

Proceeds(r) ==
  \/ Begins(r) \/ FindsNoKey(r) \/ Reverts(r) \/ TakesSnapshot(r) \/ LocksRow(r) \/ Executes(r)
  \/ Updates(r) \/ DrawsTransactionID(r) \/ DrawsLogID(r) \/ Continues(r)

\* Each of the actions is one of these.
LEMMA OwnStep ==
  ASSUME TypeOK, NEW r \in Requests, Step(r) \/ Resend(r)
  PROVE  \/ Ends(r)
         \/ UNCHANGED db /\ locks[r] \subseteq locks'[r] /\ Proceeds(r)
<1>e. pc \in [Requests -> Statements] /\ work \in [Requests -> Work]
        /\ locks \in [Requests -> SUBSET Resources]
  BY DEF TypeOK
<1>f. /\ FirstStatement(r) \in {"balances", "revert"} /\ Cmd[r].op \in {"create", "revert"}
  BY CommandAssumption DEF FirstStatement, Command
<1> USE <1>e DEF Goto, Others, db
<1>1. CASE Begin(r)
  <2>1. Begins(r)
    BY <1>1 DEF Begin, Begins, Kept, Fields, Work
  <2> QED
    BY <1>1, <2>1 DEF Begin, Proceeds
<1>2. CASE ReadIK(r)
  <2>1. CASE AnswerFromLog(r)
    BY <2>1 DEF AnswerFromLog, Release, Answer, Fail, Ends, Outside
  <2>2. CASE ~AnswerFromLog(r)
    <3>1. FindsNoKey(r)
      BY <1>2, <2>2 DEF ReadIK, FindsNoKey, Kept
    <3> QED
      BY <1>2, <2>2, <3>1 DEF ReadIK, Proceeds
  <2> QED
    BY <2>1, <2>2
<1>3. CASE RevertTransaction(r)
  <2>1. Reverts(r)
    <3>1. PICK t \in transactions :
            /\ t.id = Cmd[r].target /\ pc[r] = "revert" /\ pc' = [pc EXCEPT ![r] = "balances"]
            /\ work' = [work EXCEPT ![r].postings = ReversePostings(t.postings), ![r].reverts = t.id]
      BY <1>3 DEF RevertTransaction
    <3>2. work'[r].postings = ReversePostings(t.postings) /\ work'[r].reverts = t.id
      BY <3>1 DEF Work
    <3>3. Kept(r, Fields \ {"postings", "reverts"})
      BY <3>1 DEF Kept, Fields, Work
    <3> QED
      BY <3>1, <3>2, <3>3 DEF Reverts
  <2> QED
    BY <1>3, <2>1 DEF RevertTransaction, Acquire, Proceeds
<1>4. CASE RefuseRevert(r)
  BY <1>4 DEF RefuseRevert, Release, Answer, Fail, Ends, Outside
<1>5. CASE Snapshot(r)
  <2>1. TakesSnapshot(r)
    BY <1>5 DEF Snapshot, TakesSnapshot, Kept, Fields, Work
  <2> QED
    BY <1>5, <2>1 DEF Snapshot, Proceeds
<1>6. CASE LockOrInsertRow(r)
  <2>1. LocksRow(r)
    BY <1>6 DEF LockOrInsertRow, LocksRow, Kept
  <2> QED
    BY <1>6, <2>1 DEF LockOrInsertRow, Acquire, Proceeds
<1>7. CASE Execute(r)
  <2>1. CASE pc'[r] = "done"
    BY <1>7, <2>1 DEF Execute, Release, Answer, Fail, Ends, Outside
  <2>2. CASE pc'[r] # "done"
    <3>1. pc'[r] = "updateVolumes" /\ work' = work /\ locks' = locks /\ UNCHANGED db
            /\ work[r].postings # <<>> /\ Sufficient(r, work[r].postings, BalancesRead(r))
      BY <1>7, <2>2 DEF Execute, Answer, Fail, Statements
    <3>2. Executes(r)
      BY <1>7, <3>1 DEF Execute, Executes, Kept
    <3> QED
      BY <3>1, <3>2 DEF Proceeds
  <2> QED
    BY <2>1, <2>2
<1>8. CASE UpdateRow(r)
  <2>1. PICK a \in ToUpdate(r) :
          /\ Acquire(r, Row(a)) /\ UNCHANGED <<db, pc>> /\ pc[r] = "updateVolumes"
          /\ work' = [work EXCEPT ![r].written[a] = AddPostings(Latest(a), work[r].postings, a)]
    BY <1>8 DEF UpdateRow
  <2>2. Kept(r, Fields \ {"written"})
    BY <2>1 DEF Kept, Fields, Work
  <2>3. Rows(work'[r].written) \subseteq Rows(work[r].written) \cup {a}
    BY <2>1 DEF Rows, Work, VolumeTable
  <2>4. locks'[r] = locks[r] \cup {Row(a)}
    BY <2>1 DEF Acquire
  <2>5. Updates(r)
    BY <2>1, <2>2, <2>3, <2>4 DEF Updates
  <2> QED
    BY <2>1, <2>4, <2>5 DEF Proceeds
<1>9. CASE NextTransactionID(r)
  <2>1. DrawsTransactionID(r)
    BY <1>9 DEF NextTransactionID, DrawsTransactionID, Kept, Fields, Work
  <2> QED
    BY <1>9, <2>1 DEF NextTransactionID, Proceeds
<1>10. CASE InsertTransaction(r)
  <2>1. Continues(r)
    BY <1>10, <1>f DEF InsertTransaction, Acquire, Continues, HasTransactionID, Kept
  <2> QED
    BY <1>10, <2>1 DEF InsertTransaction, Acquire, Proceeds
<1>11. CASE ReferenceConflict(r)
  BY <1>11 DEF ReferenceConflict, Release, Answer, Fail, Ends, Outside
<1>12. CASE ReadAccounts(r)
  <2>1. Continues(r)
    BY <1>12 DEF ReadAccounts, Continues, HasTransactionID, Kept, Fields, Work
  <2> QED
    BY <1>12, <2>1 DEF ReadAccounts, Proceeds
<1>13. CASE InsertAccounts(r)
  <2>1. Continues(r)
    BY <1>13 DEF InsertAccounts, Continues, HasTransactionID, Kept, Fields, Work
  <2> QED
    BY <1>13, <2>1 DEF InsertAccounts, Proceeds
<1>14. CASE AccountsConflict(r)
  BY <1>14 DEF AccountsConflict, Release, Answer, Fail, Ends, Outside
<1>15. CASE LockLogs(r)
  <2>1. Continues(r)
    BY <1>15 DEF LockLogs, Continues, HasTransactionID, Kept
  <2> QED
    BY <1>15, <2>1 DEF LockLogs, Acquire, Proceeds
<1>16. CASE NextLogID(r)
  <2>1. DrawsLogID(r)
    BY <1>16 DEF NextLogID, DrawsLogID, Kept, Fields, Work
  <2> QED
    BY <1>16, <2>1 DEF NextLogID, Proceeds
<1>17. CASE InsertLog(r)
  <2>1. Continues(r)
    BY <1>17 DEF InsertLog, Continues, HasTransactionID, Kept
  <2> QED
    BY <1>17, <2>1 DEF InsertLog, Acquire, Proceeds
<1>18. CASE IdempotencyKeyConflict(r)
  BY <1>18 DEF IdempotencyKeyConflict, Retry, Release, Ends, Outside
<1>19. CASE FetchIK(r)
  BY <1>19 DEF FetchIK, AnswerFromLog, Release, Answer, Ends, Outside
<1>20. CASE Commit(r)
  BY <1>20 DEF Commit, Release, Answer, Ends, Outside
<1>21. CASE RollbackDryRun(r)
  BY <1>21 DEF RollbackDryRun, Release, Answer, Fail, Ends, Outside
<1>22. CASE DeadlockDetected(r)
  BY <1>22 DEF DeadlockDetected, Retry, Release, Ends, Outside
<1>23. CASE Resend(r)
  BY <1>23 DEF Resend, Release, Ends, Outside
<1> QED
  BY <1>1, <1>2, <1>3, <1>4, <1>5, <1>6, <1>7, <1>8, <1>9, <1>10, <1>11,
     <1>12, <1>13, <1>14, <1>15, <1>16, <1>17, <1>18, <1>19, <1>20, <1>21,
     <1>22, <1>23 DEF Step

-----------------------------------------------------------------------------
(* What an attempt has asked for, read and written.                         *)

\* The postings are those of the request, or reverse those of its target.
AsksFor(r) ==
  /\ pc[r] \in Outside => work[r] = NoWork
  /\ pc[r] = "revert" => Cmd[r].op = "revert"
  /\ pc[r] \notin Outside /\ Cmd[r].op = "create" =>
       work[r].postings = Cmd[r].postings /\ work[r].reverts = 0
  /\ pc[r] \in Reading /\ Cmd[r].op = "revert" =>
       /\ work[r].reverts = Cmd[r].target
       /\ \E t \in transactions : t.id = Cmd[r].target /\ work[r].postings = ReversePostings(t.postings)

\* The rows it has seen it holds, so that its check of the balances stays true.
HasRead(r) ==
  /\ pc[r] \in {"getBalances"} \cup Executed =>
       /\ work[r].seen \subseteq Rows(volumes)
       /\ GenesisAccounts \cap Queried(r) \subseteq work[r].seen
  /\ pc[r] \in Executed =>
       /\ work[r].seen \subseteq Held(r) /\ work[r].postings # <<>>
       /\ Sufficient(r, work[r].postings, BalancesRead(r))

\* It writes the rows of the accounts its postings name, all of them before it
\* draws an id.
HasWritten(r) ==
  /\ pc[r] \notin Executed => Written(r) = {}
  /\ pc[r] = "updateVolumes" => Written(r) \subseteq Involved(work[r].postings)
  /\ pc[r] \in HasTransactionID => Written(r) = Involved(work[r].postings)

\* Its ids follow those of the committed transactions on the same accounts.
IsLater(r) ==
  \A t \in transactions : Overlap(t.postings, work[r].postings) =>
    /\ pc[r] \in HasTransactionID => t.id < work[r].txid
    /\ pc[r] \in {"insertLog", "commit"} =>
         \A l \in logs : l.tx = t.id => l.id < work[r].log.id

Attempted(r) == AsksFor(r) /\ HasRead(r) /\ HasWritten(r) /\ IsLater(r)

\* The ids it has drawn are its own, and not in the tables before it commits.
DrawnOnce ==
  \A r \in Requests :
    /\ work[r].txid # 0 =>
         /\ work[r].txid \notin IdsOf(transactions)
         /\ \A q \in Requests \ {r} : work[q].txid # work[r].txid
    /\ work[r].log.id # 0 =>
         /\ work[r].log.id \notin IdsOf(logs)
         /\ \A q \in Requests \ {r} : work[q].log.id # work[r].log.id

\* Nothing is the lowest of a set of accounts only if the set is empty.
LEMMA NoLowest ==
  ASSUME NEW S \in SUBSET Accounts, Lowest(S) = {}
  PROVE  S = {}
<1>1. S \subseteq Nat
  BY CommandAssumption
<1> QED
  BY <1>1, Least DEF Lowest

\* An attempt that ends has asked for nothing.
LEMMA EndedAttempt ==
  ASSUME NEW r \in Requests, Ends(r)
  PROVE  Attempted(r)'
<1>1. Rows(NoWork.written) = {}
  BY DEF Rows, NoWork, NoRows
<1>2. Outside \cap Executed = {} /\ Outside \cap Reading = {} /\ "getBalances" \notin Outside
        /\ "revert" \notin Outside /\ {"insertLog", "commit"} \subseteq HasTransactionID
        /\ HasTransactionID \subseteq Executed
  BY DEF Outside, Executed, Reading, HasTransactionID
<1>3. pc'[r] \in Outside /\ work'[r] = NoWork
  BY DEF Ends
<1>4. AsksFor(r)'
  BY <1>2, <1>3 DEF AsksFor
<1>5. HasRead(r)'
  BY <1>2, <1>3 DEF HasRead
<1>6. HasWritten(r)'
  BY <1>1, <1>2, <1>3 DEF HasWritten, Written, Executed
<1>7. IsLater(r)'
  BY <1>2, <1>3 DEF IsLater
<1> QED
  BY <1>4, <1>5, <1>6, <1>7 DEF Attempted

\* What a step of r does to the first part.
LEMMA OwnAsksFor ==
  ASSUME NEW r \in Requests, AsksFor(r), UNCHANGED db, Proceeds(r)
  PROVE  AsksFor(r)'
<1>1. Cmd[r].op \in {"create", "revert"}
  BY CommandAssumption DEF Command
<1> USE <1>1 DEF AsksFor, Kept, Fields, Outside, Reading, Executed, HasTransactionID, db
<1>2. CASE Begins(r)
  BY <1>2 DEF Begins, FirstStatement, NoWork
<1>3. CASE FindsNoKey(r)
  BY <1>3 DEF FindsNoKey, FirstStatement
<1>4. CASE Reverts(r)
  BY <1>4 DEF Reverts
<1>5. CASE TakesSnapshot(r)
  BY <1>5 DEF TakesSnapshot
<1>6. CASE LocksRow(r)
  BY <1>6 DEF LocksRow
<1>7. CASE Executes(r)
  BY <1>7 DEF Executes
<1>8. CASE Updates(r)
  BY <1>8 DEF Updates
<1>9. CASE DrawsTransactionID(r)
  BY <1>9 DEF DrawsTransactionID
<1>10. CASE DrawsLogID(r)
  BY <1>10 DEF DrawsLogID
<1>11. CASE Continues(r)
  BY <1>11 DEF Continues
<1> QED
  BY <1>2, <1>3, <1>4, <1>5, <1>6, <1>7, <1>8, <1>9, <1>10, <1>11 DEF Proceeds

\* To the second: the rows are seen in the snapshot and then locked.
LEMMA OwnHasRead ==
  ASSUME TypeOK, NEW r \in Requests, HasRead(r), GenesisAccounts \subseteq Rows(volumes),
         UNCHANGED db, locks[r] \subseteq locks'[r], Proceeds(r)
  PROVE  HasRead(r)'
<1>a. Held(r) \subseteq Held(r)'
  BY DEF Held
<1>b. ASSUME work'[r].postings = work[r].postings, work'[r].seen = work[r].seen,
             pc[r] \in Executed, pc'[r] \in Executed
      PROVE  HasRead(r)'
  <2>1. Queried(r)' = Queried(r)
    BY <1>b DEF Queried
  <2>2. BalancesRead(r)' = BalancesRead(r)
    BY <1>b, <2>1 DEF BalancesRead, db
  <2> QED
    BY <1>a, <1>b, <2>1, <2>2 DEF HasRead, db
<1>c. "getBalances" \notin Executed /\ HasTransactionID \subseteq Executed /\ "updateVolumes" \in Executed
  BY DEF Executed, HasTransactionID
<1>2. CASE Begins(r)
  BY <1>2 DEF Begins, FirstStatement, HasRead, Executed, HasTransactionID
<1>3. CASE FindsNoKey(r)
  BY <1>3 DEF FindsNoKey, FirstStatement, HasRead, Executed, HasTransactionID
<1>4. CASE Reverts(r)
  BY <1>4 DEF Reverts, HasRead, Executed, HasTransactionID
<1>5. CASE TakesSnapshot(r)
  <2>1. work'[r].postings = work[r].postings /\ work'[r].seen = Queried(r) \cap Rows(volumes)
          /\ pc'[r] = "getBalances"
    BY <1>5 DEF TakesSnapshot, Kept, Fields
  <2>2. Queried(r)' = Queried(r) /\ volumes' = volumes
    BY <2>1 DEF Queried, db
  <2> QED
    BY <1>c, <2>1, <2>2 DEF HasRead
<1>6. CASE LocksRow(r)
  <2>1. work'[r].postings = work[r].postings /\ work'[r].seen = work[r].seen
          /\ pc[r] = "getBalances" /\ pc'[r] = "getBalances"
    BY <1>6 DEF LocksRow, Kept, Fields
  <2>2. Queried(r)' = Queried(r) /\ volumes' = volumes
    BY <2>1 DEF Queried, db
  <2> QED
    BY <1>c, <2>1, <2>2 DEF HasRead
<1>7. CASE Executes(r)
  <2>1. work'[r].postings = work[r].postings /\ work'[r].seen = work[r].seen
          /\ pc[r] = "getBalances" /\ pc'[r] = "updateVolumes"
    BY <1>7 DEF Executes, Kept, Fields
  <2>2. Queried(r)' = Queried(r) /\ volumes' = volumes
    BY <2>1 DEF Queried, db
  <2>3. BalancesRead(r)' = BalancesRead(r)
    BY <2>1, <2>2 DEF BalancesRead
  <2>4. work[r].seen \subseteq Held(r)
    <3>1. Lowest(ToLock(r)) = {} \/ ToLock(r) = {}
      BY <1>7 DEF Executes, ToRead
    <3>2. ToLock(r) \in SUBSET Accounts
      BY DEF ToLock, TypeOK, Work
    <3>3. ToLock(r) = {}
      BY <3>1, <3>2, NoLowest
    <3> QED
      BY <3>3 DEF ToLock
  <2> QED
    BY <1>7, <1>a, <2>1, <2>2, <2>3, <2>4 DEF HasRead, Executes
<1>8. CASE Updates(r)
  BY <1>8, <1>b, <1>c DEF Updates, Kept, Fields
<1>9. CASE DrawsTransactionID(r)
  BY <1>9, <1>b DEF DrawsTransactionID, Kept, Fields, Executed, HasTransactionID
<1>10. CASE DrawsLogID(r)
  BY <1>10, <1>b DEF DrawsLogID, Kept, Fields, Executed, HasTransactionID
<1>11. CASE Continues(r)
  BY <1>11, <1>b DEF Continues, Kept, Fields, Executed
<1> QED
  BY <1>2, <1>3, <1>4, <1>5, <1>6, <1>7, <1>8, <1>9, <1>10, <1>11 DEF Proceeds

\* To the third: an id is drawn once no row is left to update.
LEMMA OwnHasWritten ==
  ASSUME TypeOK, NEW r \in Requests, HasWritten(r), Proceeds(r)
  PROVE  HasWritten(r)'
<1>a. "updateVolumes" \in Executed /\ HasTransactionID \subseteq Executed /\ "updateVolumes" \notin HasTransactionID
  BY DEF Executed, HasTransactionID
<1>b. ASSUME pc[r] \notin Executed, pc'[r] \notin HasTransactionID, work'[r].written = work[r].written
      PROVE  HasWritten(r)'
  BY <1>b DEF HasWritten, Written
<1>c. ASSUME pc[r] \in HasTransactionID, pc'[r] \in HasTransactionID,
             work'[r].written = work[r].written, work'[r].postings = work[r].postings
      PROVE  HasWritten(r)'
  BY <1>a, <1>c DEF HasWritten, Written
<1> USE DEF Kept, Fields
<1>2. CASE Begins(r)
  BY <1>2, <1>b DEF Begins, FirstStatement, Executed, HasTransactionID
<1>3. CASE FindsNoKey(r)
  BY <1>3, <1>b DEF FindsNoKey, FirstStatement, Executed, HasTransactionID
<1>4. CASE Reverts(r)
  BY <1>4, <1>b DEF Reverts, Executed, HasTransactionID
<1>5. CASE TakesSnapshot(r)
  BY <1>5, <1>b DEF TakesSnapshot, Executed, HasTransactionID
<1>6. CASE LocksRow(r)
  BY <1>6, <1>b DEF LocksRow, Executed, HasTransactionID
<1>7. CASE Executes(r)
  BY <1>7, <1>b DEF Executes, Executed, HasTransactionID
<1>8. CASE Updates(r)
  <2>1. PICK a \in ToUpdate(r) : Written(r)' \subseteq Written(r) \cup {a}
    BY <1>8 DEF Updates, Written
  <2>2. a \in Involved(work[r].postings)
    BY <2>1 DEF ToUpdate, Lowest
  <2>3. pc[r] = "updateVolumes" /\ pc'[r] = "updateVolumes" /\ work'[r].postings = work[r].postings
    BY <1>8 DEF Updates
  <2> QED
    BY <1>a, <2>1, <2>2, <2>3 DEF HasWritten
<1>9. CASE DrawsTransactionID(r)
  <2>1. /\ pc[r] = "updateVolumes" /\ pc'[r] = "insertTransaction" /\ ToUpdate(r) = {}
        /\ work'[r].postings = work[r].postings /\ work'[r].written = work[r].written
    BY <1>9 DEF DrawsTransactionID
  <2>2. Involved(work[r].postings) \in SUBSET Accounts
    BY ScriptsClosed DEF TypeOK, Work
  <2>3. Involved(work[r].postings) \ Rows(work[r].written) = {}
    BY <2>1, <2>2, NoLowest DEF ToUpdate
  <2>4. Written(r) = Involved(work[r].postings)
    BY <2>1, <2>3 DEF HasWritten, Written
  <2>5. Written(r)' = Involved(work'[r].postings) /\ pc'[r] \in Executed /\ pc'[r] # "updateVolumes"
    BY <1>a, <2>1, <2>4 DEF Written, HasTransactionID
  <2> QED
    BY <2>5 DEF HasWritten
<1>10. CASE DrawsLogID(r)
  BY <1>10, <1>c DEF DrawsLogID, HasTransactionID
<1>11. CASE Continues(r)
  BY <1>11, <1>c DEF Continues
<1> QED
  BY <1>2, <1>3, <1>4, <1>5, <1>6, <1>7, <1>8, <1>9, <1>10, <1>11 DEF Proceeds

\* To the fourth: a sequence gives ids higher than all it has given.
LEMMA OwnIsLater ==
  ASSUME TypeOK, NEW r \in Requests, IsLater(r), UNCHANGED db, Proceeds(r)
  PROVE  IsLater(r)'
<1>a. /\ {"insertLog", "commit"} \subseteq HasTransactionID
      /\ {"log", "logID", "insertTransaction"} \subseteq HasTransactionID
      /\ "insertTransaction" \notin {"insertLog", "commit"}
  BY DEF HasTransactionID
<1>b. ASSUME pc'[r] \notin HasTransactionID PROVE IsLater(r)'
  BY <1>a, <1>b DEF IsLater
<1>c. \A t \in transactions : t.id \in Nat /\ t.id <= txSeq
  BY DEF TypeOK
<1>d. \A l \in logs : l.id \in Nat /\ l.id <= logSeq
  BY DEF TypeOK
<1>e. txSeq \in Nat /\ logSeq \in Nat
  BY DEF TypeOK
<1> USE DEF Kept, Fields
<1>2. CASE Begins(r)
  BY <1>2, <1>b DEF Begins, FirstStatement, HasTransactionID
<1>3. CASE FindsNoKey(r)
  BY <1>3, <1>b DEF FindsNoKey, FirstStatement, HasTransactionID
<1>4. CASE Reverts(r)
  BY <1>4, <1>b DEF Reverts, HasTransactionID
<1>5. CASE TakesSnapshot(r)
  BY <1>5, <1>b DEF TakesSnapshot, HasTransactionID
<1>6. CASE LocksRow(r)
  BY <1>6, <1>b DEF LocksRow, HasTransactionID
<1>7. CASE Executes(r)
  BY <1>7, <1>b DEF Executes, HasTransactionID
<1>8. CASE Updates(r)
  BY <1>8, <1>b DEF Updates, HasTransactionID
<1>9. CASE DrawsTransactionID(r)
  <2>1. pc'[r] = "insertTransaction" /\ work'[r].txid = txSeq + 1 /\ UNCHANGED <<transactions, logs>>
    BY <1>9 DEF DrawsTransactionID, db
  <2>2. \A t \in transactions : t.id < txSeq + 1
    BY <1>c, <1>e
  <2> QED
    BY <1>a, <2>1, <2>2 DEF IsLater
<1>10. CASE DrawsLogID(r)
  <2>1. /\ pc[r] \in {"log", "logID"} /\ pc'[r] = "insertLog" /\ work'[r].log.id = logSeq + 1
        /\ work'[r].txid = work[r].txid /\ work'[r].postings = work[r].postings
        /\ UNCHANGED <<transactions, logs>>
    BY <1>10 DEF DrawsLogID, db
  <2>2. \A l \in logs : l.id < logSeq + 1
    BY <1>d, <1>e
  <2> QED
    BY <1>a, <2>1, <2>2 DEF IsLater
<1>11. CASE Continues(r)
  <2>1. /\ pc[r] \in HasTransactionID /\ pc'[r] \in HasTransactionID
        /\ pc'[r] \in {"insertLog", "commit"} => pc[r] \in {"insertLog", "commit"}
        /\ work'[r].txid = work[r].txid /\ work'[r].postings = work[r].postings
        /\ work'[r].log = work[r].log /\ UNCHANGED <<transactions, logs>>
    BY <1>11 DEF Continues, db
  <2> QED
    BY <2>1 DEF IsLater
<1> QED
  BY <1>2, <1>3, <1>4, <1>5, <1>6, <1>7, <1>8, <1>9, <1>10, <1>11 DEF Proceeds

\* Ids that have been drawn are not drawn again.
LEMMA DrawnOnceStep ==
  ASSUME TypeOK, DrawnOnce, NEW r \in Requests, Step(r) \/ Resend(r)
  PROVE  DrawnOnce'
<1>1. \A q \in Requests \ {r} : work'[q] = work[q]
  BY StepTouchesOne DEF Untouched
<1>2. \A q \in Requests : work[q].txid \in 0..txSeq /\ work[q].log.id \in 0..logSeq
  BY DEF TypeOK, Work
<1>3. /\ \A t \in transactions : t.id \in 1..txSeq
      /\ \A l \in logs : l.id \in 1..logSeq
      /\ txSeq \in Nat /\ logSeq \in Nat
  BY DEF TypeOK
<1>4. \/ Ends(r)
      \/ /\ UNCHANGED <<transactions, logs>>
         /\ work'[r].txid \in {work[r].txid, txSeq + 1}
         /\ work'[r].log.id \in {work[r].log.id, logSeq + 1}
  <2>1. Ends(r) \/ (UNCHANGED db /\ Proceeds(r))
    BY OwnStep
  <2>2. Proceeds(r) => /\ work'[r].txid \in {work[r].txid, txSeq + 1}
                       /\ work'[r].log.id \in {work[r].log.id, logSeq + 1}
    BY DEF Proceeds, Begins, FindsNoKey, Reverts, TakesSnapshot, LocksRow, Executes, Updates,
           DrawsTransactionID, DrawsLogID, Continues, Kept, Fields
  <2> QED
    BY <2>1, <2>2 DEF db
<1>5. CASE UNCHANGED <<transactions, logs>>
  <2>1. \/ work'[r].txid = 0 /\ work'[r].log.id = 0
        \/ /\ work'[r].txid \in {work[r].txid, txSeq + 1}
           /\ work'[r].log.id \in {work[r].log.id, logSeq + 1}
    BY <1>4 DEF Ends, NoWork
  <2>2. \A q \in Requests : work[q].txid # txSeq + 1 /\ work[q].log.id # logSeq + 1
    BY <1>2, <1>3
  <2>3. txSeq + 1 \notin IdsOf(transactions) /\ logSeq + 1 \notin IdsOf(logs)
    BY <1>3 DEF IdsOf
  <2>4. \A q \in Requests : work'[q].txid # 0 =>
          /\ work'[q].txid \notin IdsOf(transactions)
          /\ \A p \in Requests \ {q} : work'[p].txid # work'[q].txid
    BY <1>1, <2>1, <2>2, <2>3 DEF DrawnOnce
  <2>5. \A q \in Requests : work'[q].log.id # 0 =>
          /\ work'[q].log.id \notin IdsOf(logs)
          /\ \A p \in Requests \ {q} : work'[p].log.id # work'[q].log.id
    BY <1>1, <2>1, <2>2, <2>3 DEF DrawnOnce
  <2> QED
    BY <1>5, <2>4, <2>5 DEF DrawnOnce
<1>6. CASE Commit(r)
  <2>1. transactions' = transactions \cup {NewTransaction(r)} /\ logs' = logs \cup {NewLog(r)}
    BY <1>6 DEF Commit
  <2>2. work'[r].txid = 0 /\ work'[r].log.id = 0
    BY <1>6 DEF Commit, Answer, Release, TypeOK, NoWork
  <2>3. NewTransaction(r).id = work[r].txid /\ NewLog(r).id = work[r].log.id
    BY DEF NewTransaction, NewLog
  <2>4. \A i : i \in IdsOf(transactions') => i \in IdsOf(transactions) \/ i = work[r].txid
    BY <2>1, <2>3 DEF IdsOf
  <2>5. \A i : i \in IdsOf(logs') => i \in IdsOf(logs) \/ i = work[r].log.id
    BY <2>1, <2>3 DEF IdsOf
  <2>6. \A q \in Requests : work'[q].txid # 0 =>
          /\ work'[q].txid \notin IdsOf(transactions')
          /\ \A p \in Requests \ {q} : work'[p].txid # work'[q].txid
    BY <1>1, <2>2, <2>4 DEF DrawnOnce
  <2>7. \A q \in Requests : work'[q].log.id # 0 =>
          /\ work'[q].log.id \notin IdsOf(logs')
          /\ \A p \in Requests \ {q} : work'[p].log.id # work'[q].log.id
    BY <1>1, <2>2, <2>5 DEF DrawnOnce
  <2> QED
    BY <2>6, <2>7 DEF DrawnOnce
<1> QED
  BY <1>5, <1>6, StepTouchesOne DEF db

-----------------------------------------------------------------------------
(* The tables: volumes are the totals of the transactions.                  *)

TablesMatch ==
  /\ IsFiniteSet(transactions) /\ GenesisTransactions \subseteq transactions
  /\ \A t, u \in transactions : t.id = u.id => t = u
  /\ \A t \in transactions : Rows(t.pcv) \subseteq Involved(t.postings)
  /\ \A a \in Accounts : Latest(a) = TotalOf(transactions, a)
  /\ \A t \in transactions : \A a \in Rows(t.pcv) :
       t.pcv[a] = TotalOf({ u \in transactions : u.id <= t.id }, a)
  /\ GenesisAccounts \subseteq Rows(volumes)

Attempts == \A r \in Requests : Attempted(r)

UpToDate == \A r \in Requests : WritesUpToDate(r) /\ WritesAfterReads(r)

Matching == Protected /\ UpToDate /\ DrawnOnce /\ TablesMatch /\ Attempts

\* What a request that commits adds to the tables.
LEMMA Committed ==
  ASSUME Matching, NEW r \in Requests, Commit(r)
  PROVE  LET new == NewTransaction(r)
         IN  /\ transactions' = transactions \cup {new} /\ new \notin transactions
             /\ new.id = work[r].txid /\ new.id \notin IdsOf(transactions) /\ new.id \in Nat
             /\ new.postings = work[r].postings /\ new.postings \in Seq(Posting)
             /\ Involved(new.postings) \subseteq Accounts
             /\ new.pcv = work[r].written /\ new.pcv \in VolumeTable
             /\ Rows(new.pcv) = Involved(new.postings)
             /\ \A a \in Involved(new.postings) :
                  Row(a) \in locks[r] /\ new.pcv[a] = AddPostings(Latest(a), new.postings, a)
             /\ \A t \in transactions : Overlap(t.postings, new.postings) => t.id < new.id
             /\ volumes' = Merged(volumes, new.pcv)
             /\ \A a \in Accounts : Latest(a)' = AddPostings(Latest(a), new.postings, a)
<1> DEFINE new == NewTransaction(r)
<1>0. TypeOK /\ work[r] \in Work /\ pc[r] = "commit" /\ "commit" \in HasTransactionID
  BY DEF Matching, Protected, TypeOK, Commit, HasTransactionID
<1>1. /\ transactions' = transactions \cup {new} /\ volumes' = Merged(volumes, work[r].written)
      /\ new.id = work[r].txid /\ new.postings = work[r].postings /\ new.pcv = work[r].written
  BY DEF Commit, NewTransaction
<1>2. work[r].txid # 0 /\ work[r].txid \in Nat
  BY <1>0 DEF Matching, Protected, HoldsLocks, Holds, Work
<1>3. new.id \notin IdsOf(transactions)
  BY <1>1, <1>2 DEF Matching, DrawnOnce
<1>4. new \notin transactions
  BY <1>3 DEF IdsOf
<1>5. new.postings \in Seq(Posting) /\ Involved(new.postings) \subseteq Accounts /\ new.pcv \in VolumeTable
  BY <1>0, <1>1, ScriptsClosed DEF Work
<1>6. Rows(new.pcv) = Involved(new.postings)
  BY <1>0, <1>1 DEF Matching, Attempts, Attempted, HasWritten, Written
<1>7. \A a \in Involved(new.postings) :
        Row(a) \in locks[r] /\ new.pcv[a] = AddPostings(Latest(a), new.postings, a)
  BY <1>1, <1>6 DEF Matching, Protected, HoldsLocks, Holds, UpToDate, WritesUpToDate, Written
<1>8. \A t \in transactions : Overlap(t.postings, new.postings) => t.id < new.id
  BY <1>0, <1>1 DEF Matching, Attempts, Attempted, IsLater
<1> HIDE DEF new
<1>9. ASSUME NEW a \in Accounts PROVE Latest(a)' = AddPostings(Latest(a), new.postings, a)
  <2>1. CASE a \in Rows(new.pcv)
    <3>1. volumes'[a] = new.pcv[a] /\ new.pcv[a] # None
      BY <1>1, <2>1 DEF Merged, Rows
    <3>2. Latest(a)' = new.pcv[a]
      BY <3>1 DEF Latest, LatestIn, Rows
    <3> QED
      BY <1>6, <1>7, <2>1, <3>2
  <2>2. CASE a \notin Rows(new.pcv)
    <3>1. volumes'[a] = volumes[a]
      BY <1>1, <2>2 DEF Merged
    <3>2. Latest(a)' = Latest(a)
      BY <3>1 DEF Latest, LatestIn, Rows
    <3>3. Latest(a) \in Volume
      BY <1>0 DEF TypeOK, VolumeTable, Latest, LatestIn, Rows, Nothing, Volume
    <3>4. a \notin Involved(new.postings)
      BY <1>6, <2>2
    <3> QED
      BY <1>5, <3>2, <3>3, <3>4, AddNothing
  <2> QED
    BY <2>1, <2>2
<1>10. volumes' = Merged(volumes, new.pcv) /\ new.id \in Nat
  BY <1>1, <1>2
<1> QED
  BY <1>1, <1>3, <1>4, <1>5, <1>6, <1>7, <1>8, <1>9, <1>10 DEF new

\* A commit adds its postings to the total of the accounts they name, and its id
\* comes after those of the transactions that name one of them.
LEMMA TablesStep ==
  ASSUME Matching, NEW r \in Requests, Commit(r)
  PROVE  TablesMatch'
<1> DEFINE new == NewTransaction(r)
           upto(txs, n) == { u \in txs : u.id <= n }
<1>1. /\ transactions' = transactions \cup {new} /\ new \notin transactions
      /\ new.id \notin IdsOf(transactions) /\ new.id \in Nat
      /\ new.postings \in Seq(Posting) /\ Involved(new.postings) \subseteq Accounts
      /\ Rows(new.pcv) = Involved(new.postings)
      /\ \A a \in Involved(new.postings) : new.pcv[a] = AddPostings(Latest(a), new.postings, a)
      /\ \A t \in transactions : Overlap(t.postings, new.postings) => t.id < new.id
      /\ volumes' = Merged(volumes, new.pcv)
      /\ \A a \in Accounts : Latest(a)' = AddPostings(Latest(a), new.postings, a)
  BY Committed
<1>2. /\ IsFiniteSet(transactions) /\ GenesisTransactions \subseteq transactions
      /\ \A t, u \in transactions : t.id = u.id => t = u
      /\ \A t \in transactions : Rows(t.pcv) \subseteq Involved(t.postings)
      /\ \A a \in Accounts : Latest(a) = TotalOf(transactions, a)
      /\ \A t \in transactions : \A a \in Rows(t.pcv) :
           t.pcv[a] = TotalOf({ u \in transactions : u.id <= t.id }, a)
      /\ GenesisAccounts \subseteq Rows(volumes)
  BY DEF Matching, TablesMatch
<1>3. \A t \in transactions : t.id \in Nat /\ t.postings \in Seq(Posting)
  BY ScriptsClosed DEF Matching, Protected, TypeOK
<1> HIDE DEF new
<1>4. IsFiniteSet(transactions') /\ GenesisTransactions \subseteq transactions'
        /\ \A t \in transactions' : t.id \in Nat /\ t.postings \in Seq(Posting)
  BY <1>1, <1>2, <1>3, FS_AddElement
<1>5. \A t, u \in transactions' : t.id = u.id => t = u
  BY <1>1, <1>2 DEF IdsOf
<1>6. \A t \in transactions' : Rows(t.pcv) \subseteq Involved(t.postings)
  BY <1>1, <1>2
<1>7. \A a \in Accounts : Latest(a)' = TotalOf(transactions', a)
  BY <1>1, <1>2, <1>4, TotalOfGrows
<1>8. \A a \in Accounts : TotalOf(upto(transactions', new.id), a) = TotalOf(transactions', a)
                            \/ a \notin Involved(new.postings)
  <2> SUFFICES ASSUME NEW a \in Accounts, a \in Involved(new.postings)
               PROVE  TotalOf(upto(transactions', new.id), a) = TotalOf(transactions', a)
    OBVIOUS
  <2>1. \A t \in transactions' \ upto(transactions', new.id) : a \notin Involved(t.postings)
    BY <1>1, <1>3 DEF Overlap
  <2>2. upto(transactions', new.id) \in SUBSET transactions'
    OBVIOUS
  <2> HIDE DEF upto
  <2> QED
    BY <1>4, <2>1, <2>2, TotalOfInvolved
<1>9. ASSUME NEW t \in transactions, NEW a \in Rows(t.pcv)
      PROVE  t.pcv[a] = TotalOf(upto(transactions', t.id), a)
  <2>1. t.pcv[a] = TotalOf(upto(transactions, t.id), a) /\ a \in Involved(t.postings)
    BY <1>2, <1>9
  <2>2. upto(transactions', t.id) \in SUBSET transactions' /\ upto(transactions, t.id) \in SUBSET upto(transactions', t.id)
    BY <1>1
  <2>3. IsFiniteSet(upto(transactions', t.id)) /\ \A u \in upto(transactions', t.id) : u.postings \in Seq(Posting)
    <3>1. \A u \in upto(transactions', t.id) : u \in transactions'
      BY <2>2
    <3> HIDE DEF upto
    <3> QED
      BY <1>4, <2>2, <3>1, FS_Subset
  <2>4. \A u \in upto(transactions', t.id) \ upto(transactions, t.id) : a \notin Involved(u.postings)
    <3> SUFFICES ASSUME NEW u \in transactions', u \notin transactions, u.id <= t.id PROVE a \notin Involved(u.postings)
      OBVIOUS
    <3>1. u = new
      BY <1>1
    <3>2. ~Overlap(t.postings, new.postings)
      BY <1>1, <1>3, <3>1
    <3> QED
      BY <2>1, <3>1, <3>2 DEF Overlap
  <2> HIDE DEF upto
  <2> QED
    BY <2>1, <2>2, <2>3, <2>4, TotalOfInvolved
<1>10. ASSUME NEW a \in Rows(new.pcv) PROVE new.pcv[a] = TotalOf(upto(transactions', new.id), a)
  <2>1. a \in Accounts /\ a \in Involved(new.postings)
    BY <1>1
  <2>2. new.pcv[a] = Latest(a)'
    BY <1>1, <2>1
  <2> HIDE DEF upto
  <2> QED
    BY <1>7, <1>8, <2>1, <2>2
<1>11. \A t \in transactions' : \A a \in Rows(t.pcv) : t.pcv[a] = TotalOf(upto(transactions', t.id), a)
  <2> HIDE DEF upto
  <2> QED
    BY <1>1, <1>9, <1>10
<1>12. GenesisAccounts \subseteq Rows(volumes')
  BY <1>1, <1>2 DEF Merged, Rows
<1> QED
  BY <1>4, <1>5, <1>6, <1>7, <1>11, <1>12 DEF TablesMatch

\* A commit of r leaves what another attempt has read, and it names no account of
\* an attempt that has drawn an id.
LEMMA OthersStep ==
  ASSUME Matching, NEW r \in Requests, NEW q \in Requests \ {r}, Commit(r), Untouched(q)
  PROVE  Attempted(q)'
<1> DEFINE new == NewTransaction(r)
<1>0. TypeOK /\ MutualExclusion /\ HoldsLocks /\ Attempted(q)
  BY DEF Matching, Protected, Attempts
<1>1. locks'[q] = locks[q] /\ pc'[q] = pc[q] /\ work'[q] = work[q]
  BY DEF Untouched
<1>2. /\ transactions' = transactions \cup {new} /\ volumes' = Merged(volumes, new.pcv)
      /\ Rows(new.pcv) = Involved(new.postings) /\ new.id = work[r].txid
      /\ new.id \notin IdsOf(transactions)
      /\ \A a \in Involved(new.postings) : a \in Accounts /\ Row(a) \in locks[r]
  BY Committed
<1>3. logs' = logs \cup {NewLog(r)} /\ NewLog(r).tx = new.id
  BY <1>2 DEF Commit, NewLog
<1> HIDE DEF new
<1>4. \A a \in Involved(new.postings) : Row(a) \notin locks[q]
  BY <1>0, <1>2 DEF MutualExclusion
<1>5. AsksFor(q)'
  BY <1>0, <1>1, <1>2 DEF Attempted, AsksFor
<1>6. HasRead(q)'
  <2>1. Rows(volumes) \subseteq Rows(volumes') /\ Queried(q)' = Queried(q) /\ Held(q)' = Held(q)
    BY <1>1, <1>2 DEF Merged, Rows, Queried, Held
  <2>2. ASSUME pc[q] \in Executed PROVE BalancesRead(q)' = BalancesRead(q)
    <3>1. \A a \in work[q].seen : a \in Accounts /\ Row(a) \in locks[q]
      BY <1>0, <2>2 DEF Attempted, HasRead, Held
    <3>2. \A a \in work[q].seen : volumes'[a] = volumes[a]
      BY <1>2, <1>4, <3>1 DEF Merged
    <3> QED
      BY <1>1, <2>1, <3>2 DEF BalancesRead
  <2> QED
    BY <1>0, <1>1, <2>1, <2>2 DEF Attempted, HasRead
<1>7. HasWritten(q)'
  BY <1>0, <1>1 DEF Attempted, HasWritten, Written
<1>8. ASSUME pc[q] \in HasTransactionID PROVE ~Overlap(new.postings, work[q].postings)
  <2>1. Written(q) = Involved(work[q].postings)
    BY <1>0, <1>8 DEF Attempted, HasWritten
  <2>2. \A a \in Involved(work[q].postings) : Row(a) \in locks[q]
    BY <1>0, <2>1 DEF HoldsLocks, Holds, Written
  <2> QED
    BY <1>4, <2>2 DEF Overlap
<1>9. IsLater(q)'
  <2>1. {"insertLog", "commit"} \subseteq HasTransactionID
    BY DEF HasTransactionID
  <2>2. \A t \in transactions : t.id # new.id
    BY <1>2 DEF IdsOf
  <2> SUFFICES ASSUME NEW t \in transactions', Overlap(t.postings, work[q].postings)
               PROVE  /\ pc[q] \in HasTransactionID => t.id < work[q].txid
                      /\ pc[q] \in {"insertLog", "commit"} =>
                           \A l \in logs' : l.tx = t.id => l.id < work[q].log.id
    BY <1>1 DEF IsLater
  <2>3. CASE t = new
    BY <1>8, <2>1, <2>3
  <2>4. CASE t # new
    <3>1. t \in transactions
      BY <1>2, <2>4
    <3>2. \A l \in logs' : l.tx = t.id => l \in logs
      BY <1>3, <2>2, <3>1
    <3> QED
      BY <1>0, <3>1, <3>2 DEF Attempted, IsLater
  <2> QED
    BY <2>3, <2>4
<1> QED
  BY <1>5, <1>6, <1>7, <1>9 DEF Attempted

\* The whole is kept by every step.
LEMMA MatchingStep == Matching /\ [Next]_vars => Matching'
<1> SUFFICES ASSUME Matching, [Next]_vars PROVE Matching'
  OBVIOUS
<1>1. Protected'
  BY ProtectedStep DEF Matching
<1>2. UpToDate'
  BY WritesStep DEF Matching, UpToDate
<1>3. ASSUME NEW r \in Requests, Step(r) \/ Resend(r) PROVE DrawnOnce' /\ TablesMatch' /\ Attempts'
  <2>0. TypeOK /\ DrawnOnce /\ TablesMatch /\ \A q \in Requests : Attempted(q)
    BY DEF Matching, Protected, Attempts
  <2>1. DrawnOnce'
    BY <1>3, <2>0, DrawnOnceStep
  <2>2. \A q \in Requests \ {r} : Untouched(q)
    BY <1>3, <2>0, StepTouchesOne
  <2>3. Attempted(r)'
    <3>1. CASE Ends(r)
      BY <3>1, EndedAttempt
    <3>2. CASE UNCHANGED db /\ locks[r] \subseteq locks'[r] /\ Proceeds(r)
      <4>1. GenesisAccounts \subseteq Rows(volumes)
        BY <2>0 DEF TablesMatch
      <4>2. AsksFor(r)'
        BY <2>0, <3>2, OwnAsksFor DEF Attempted
      <4>3. HasRead(r)'
        BY <2>0, <3>2, <4>1, OwnHasRead DEF Attempted
      <4>4. HasWritten(r)'
        BY <2>0, <3>2, OwnHasWritten DEF Attempted
      <4>5. IsLater(r)'
        BY <2>0, <3>2, OwnIsLater DEF Attempted
      <4> QED
        BY <4>2, <4>3, <4>4, <4>5 DEF Attempted
    <3> QED
      BY <1>3, <2>0, <3>1, <3>2, OwnStep
  <2>4. CASE Commit(r)
    BY <2>1, <2>2, <2>3, <2>4, TablesStep, OthersStep DEF Attempts
  <2>5. CASE UNCHANGED db
    <3>1. TablesMatch'
      BY <2>0, <2>5 DEF TablesMatch, db, Latest
    <3>2. \A q \in Requests \ {r} : Attempted(q)'
      BY <2>0, <2>2, <2>5 DEF Untouched, db, Attempted, AsksFor, HasRead, HasWritten, IsLater,
                              Queried, BalancesRead, Held, Written
    <3> QED
      BY <2>1, <2>3, <3>1, <3>2 DEF Attempts
  <2> QED
    BY <1>3, <2>0, <2>4, <2>5, StepTouchesOne
<1>4. CASE UNCHANGED vars
  <2> USE <1>4 DEF vars, db, Matching
  <2>1. DrawnOnce'
    BY DEF DrawnOnce
  <2>2. TablesMatch'
    BY DEF TablesMatch, Latest
  <2>3. Attempts'
    BY DEF Attempts, Attempted, AsksFor, HasRead, HasWritten, IsLater, Queried, BalancesRead,
           Held, Written
  <2> QED
    BY <1>1, <1>2, <2>1, <2>2, <2>3
<1> QED
  BY <1>1, <1>2, <1>3, <1>4 DEF Next, AllAnswered, Matching

\* It holds of the Genesis transactions.
LEMMA MatchingInit == Init => Matching
<1> SUFFICES ASSUME Init PROVE Matching
  OBVIOUS
<1>1. \A r \in Requests : locks[r] = {} /\ pc[r] = "idle" /\ work[r] = NoWork
  BY DEF Init
<1>2. Rows(NoWork.written) = {} /\ NoWork.txid = 0 /\ NoWork.log.id = 0
  BY DEF Rows, NoWork, NoRows
<1>3. Protected
  BY ProtectedInit
<1>4. UpToDate /\ DrawnOnce
  BY <1>1, <1>2 DEF UpToDate, WritesUpToDate, WritesAfterReads, Written, DrawnOnce
<1>5. Attempts
  BY <1>1, <1>2 DEF Attempts, Attempted, AsksFor, HasRead, HasWritten, IsLater, Written,
                    Outside, Executed, Reading, HasTransactionID
<1>6. TablesMatch
  <2> DEFINE N == Len(Genesis)
             upto(n) == { u \in GenesisTransactions : u.id <= n }
  <2>1. transactions = GenesisTransactions /\ volumes = GenesisVolumes
    BY DEF Init
  <2>2. /\ N \in Nat
        /\ \A t \in GenesisTransactions : /\ t.id \in 1..N /\ t = GenesisTransaction(t.id)
                                          /\ t.postings = Genesis[t.id] /\ t.postings \in Seq(Posting)
    BY GenesisTransactionsAre
  <2>3. upto(N) = GenesisTransactions /\ N \in 0..N
    BY <2>2
  <2>4. \A a : \A n \in 0..N : GenesisVolume(n, a) = TotalOf(upto(n), a) /\ GenesisVolume(n, a) \in Volume
    BY GenesisTotal, GenesisVolumeIs
  <2>5. IsFiniteSet(GenesisTransactions)
    <3>1. IsFiniteSet(upto(N))
      BY <2>3, GenesisTotal
    <3> QED
      BY <2>3, <3>1
  <2>6. \A t, u \in GenesisTransactions : t.id = u.id => t = u
    BY <2>2
  <2>7. ASSUME NEW t \in GenesisTransactions
        PROVE  /\ Rows(t.pcv) \subseteq Involved(t.postings)
               /\ \A a \in Rows(t.pcv) : t.pcv[a] = TotalOf(upto(t.id), a)
    <3>1. t.id \in 0..N /\ t.postings = Genesis[t.id]
      BY <2>2
    <3>2. t.pcv = [a \in Accounts |-> IF a \in Involved(t.postings) THEN GenesisVolume(t.id, a) ELSE None]
      BY <2>2, <3>1 DEF GenesisTransaction
    <3>3. Rows(t.pcv) \subseteq Involved(t.postings)
      BY <3>2 DEF Rows
    <3>4. \A a \in Rows(t.pcv) : t.pcv[a] = GenesisVolume(t.id, a)
      BY <3>2, <3>3 DEF Rows
    <3> HIDE DEF upto, N
    <3> QED
      BY <2>4, <3>1, <3>3, <3>4
  <2>8. GenesisAccounts \subseteq Rows(volumes)
    <3>1. GenesisAccounts \subseteq Accounts
      <4>1. \A i \in DOMAIN Genesis : Involved(Genesis[i]) \subseteq Accounts
        BY ScriptsClosed DEF Scripts, GivenScripts
      <4> QED
        BY <4>1 DEF GenesisAccounts
    <3>2. \A a \in GenesisAccounts : volumes[a] \in Volume
      BY <2>1, <2>3, <2>4, <3>1 DEF GenesisVolumes
    <3> QED
      BY <3>1, <3>2, CommandAssumption DEF Rows
  <2>9. ASSUME NEW a \in Accounts PROVE Latest(a) = TotalOf(GenesisTransactions, a)
    <3>1. CASE a \in GenesisAccounts
      <4>1. Latest(a) = GenesisVolume(N, a)
        BY <2>1, <2>8, <3>1 DEF Latest, LatestIn, GenesisVolumes
      <4>2. GenesisVolume(N, a) = TotalOf(upto(N), a)
        BY <2>3, <2>4
      <4> QED
        BY <2>3, <4>1, <4>2
    <3>2. CASE a \notin GenesisAccounts
      <4>1. Latest(a) = Nothing
        BY <2>1, <3>2 DEF Latest, LatestIn, Rows, GenesisVolumes
      <4>2. \A t \in GenesisTransactions \ {} : a \notin Involved(t.postings)
        BY <3>2, GenesisTransactionsAre
      <4>3. {} \in SUBSET GenesisTransactions
        OBVIOUS
      <4>4. TotalOf({}, a) = TotalOf(GenesisTransactions, a)
        BY <2>2, <2>5, <4>2, <4>3, TotalOfInvolved
      <4>5. TotalOf({}, a) = Nothing
        BY TotalOfIs, FS_EmptySet, SumEmpty DEF Nothing
      <4> QED
        BY <4>1, <4>4, <4>5
    <3> QED
      BY <3>1, <3>2
  <2>10. \A t \in GenesisTransactions : \A a \in Rows(t.pcv) :
           t.pcv[a] = TotalOf({ u \in GenesisTransactions : u.id <= t.id }, a)
    BY <2>7
  <2> QED
    BY <2>1, <2>5, <2>6, <2>7, <2>8, <2>9, <2>10 DEF TablesMatch
<1> QED
  BY <1>3, <1>4, <1>5, <1>6 DEF Matching

(***************************************************************************)
(* The volumes of every account are the sums of the committed postings,    *)
(* and the volumes recorded with a transaction are those sums up to its id *)
(* (VolumesMatchTransactions): no interleaving of the row updates and of   *)
(* the sequence loses a posting or records it out of order.                *)
(***************************************************************************)
THEOREM VolumesAreSums == Spec => []VolumesMatchTransactions
<1>1. Matching => VolumesMatchTransactions
  <2> SUFFICES ASSUME Matching PROVE VolumesMatchTransactions
    OBVIOUS
  <2>1. \A a \in Rows(volumes) : volumes[a] = TotalOf(transactions, a)
    BY DEF Matching, TablesMatch, Latest, LatestIn, Rows
  <2> QED
    BY <2>1 DEF Matching, TablesMatch, VolumesMatchTransactions
<1> QED
  BY <1>1, MatchingInit, MatchingStep, PTL DEF Spec

-----------------------------------------------------------------------------
(* What a request has checked when it commits is true of the balances then. *)

(***************************************************************************)
(* A row that appears after GetBalances took its snapshot is reported as   *)
(* 0.  That is prudent as long as accounts without a row at first cannot   *)
(* go below 0: only those that have one may be drawn with an overdraft, or *)
(* by a forced revert.                                                     *)
(***************************************************************************)
OverdraftsHaveRows ==
  \A r \in Requests :
    /\ Cmd[r].op = "create" /\ Cmd[r].overdraft # 0 =>
         \A a \in Sources(Cmd[r].postings) :
           \/ IsWorld(a) \/ a \in GenesisAccounts
           \/ OutputOf(Cmd[r].postings, a) <= InputOf(Cmd[r].postings, a)
    /\ Cmd[r].op = "revert" /\ Cmd[r].force => Cmd[r].target \in DOMAIN Genesis

NewAccountsFloor == \A a \in Accounts \ GenesisAccounts : IsWorld(a) \/ Balance(Latest(a)) >= 0

BalancesNow(r) == [a \in Queried(r) |-> Balance(Latest(a))]

\* Volumes have integer balances.
LEMMA LatestType ==
  ASSUME TypeOK, NEW a \in Accounts
  PROVE  Latest(a) \in Volume /\ Balance(Latest(a)) \in Int
<1>1. Latest(a) \in Volume
  BY DEF TypeOK, VolumeTable, Latest, LatestIn, Rows, Nothing, Volume
<1> QED
  BY <1>1 DEF Volume, Balance

\* The balances read are at most those of the rows now.
LEMMA ReadBelowNow ==
  ASSUME Matching, NewAccountsFloor, NEW r \in Requests, pc[r] \in Executed
  PROVE  /\ Queried(r) \subseteq Accounts
         /\ BalancesRead(r) \in [Queried(r) -> Int] /\ BalancesNow(r) \in [Queried(r) -> Int]
         /\ \A a \in Queried(r) : IsWorld(a) \/ BalancesRead(r)[a] <= BalancesNow(r)[a]
<1>0. TypeOK /\ work[r] \in Work /\ HasRead(r)
  BY DEF Matching, Protected, TypeOK, Attempts, Attempted
<1>1. Queried(r) \subseteq Accounts
  <2>1. Involved(work[r].postings) \subseteq Accounts
    BY <1>0, ScriptsClosed DEF Work
  <2> QED
    BY <2>1 DEF Queried, Query, Involved
<1>2. /\ work[r].seen \subseteq Rows(volumes) /\ GenesisAccounts \cap Queried(r) \subseteq work[r].seen
  BY <1>0 DEF HasRead
<1>3. \A a \in Queried(r) :
        \/ BalancesRead(r)[a] = Balance(Latest(a))
        \/ BalancesRead(r)[a] = 0 /\ a \in Accounts \ GenesisAccounts
  BY <1>1, <1>2 DEF BalancesRead, Latest, LatestIn
<1>4. \A a \in Queried(r) : BalancesNow(r)[a] = Balance(Latest(a)) /\ Balance(Latest(a)) \in Int
  BY <1>0, <1>1, LatestType DEF BalancesNow
<1>5. BalancesRead(r) \in [Queried(r) -> Int] /\ BalancesNow(r) \in [Queried(r) -> Int]
  BY <1>3, <1>4 DEF BalancesRead, BalancesNow
<1>6. \A a \in Queried(r) : IsWorld(a) \/ BalancesRead(r)[a] <= BalancesNow(r)[a]
  BY <1>3, <1>4 DEF NewAccountsFloor
<1> QED
  BY <1>1, <1>5, <1>6

\* So the machine would run on the rows of now, and the revert be accepted.
LEMMA StillSufficient ==
  ASSUME Matching, NewAccountsFloor, NEW r \in Requests, pc[r] \in Executed
  PROVE  Sufficient(r, work[r].postings, BalancesNow(r))
<1>0. TypeOK /\ work[r] \in Work /\ HasRead(r) /\ Command(Cmd[r])
  BY CommandAssumption DEF Matching, Protected, TypeOK, Attempts, Attempted
<1>1. Sufficient(r, work[r].postings, BalancesRead(r))
  BY <1>0 DEF HasRead
<1>2. work[r].postings \in Seq(Posting)
  BY <1>0, ScriptsClosed DEF Work
<1>3. CASE Cmd[r].op = "create" /\ Cmd[r].overdraft = Unbounded
  <2>1. BalancesRead(r) = BalancesNow(r)
    BY <1>3 DEF BalancesRead, BalancesNow, Queried, Query
  <2> QED
    BY <1>1, <2>1
<1>4. CASE Cmd[r].op = "create" /\ Cmd[r].overdraft # Unbounded
  <2>1. Cmd[r].overdraft \in Int
    BY <1>0, <1>4 DEF Command
  <2>2. \A a \in Queried(r) : ~IsWorld(a)
    BY <1>4 DEF Queried, Query
  <2>3. Executable(work[r].postings, Cmd[r].overdraft, BalancesRead(r))
    BY <1>1, <1>4 DEF Sufficient
  <2>4. Executable(work[r].postings, Cmd[r].overdraft, BalancesNow(r))
    <3>1. /\ BalancesRead(r) \in [Queried(r) -> Int] /\ BalancesNow(r) \in [Queried(r) -> Int]
          /\ \A a \in Queried(r) : BalancesRead(r)[a] <= BalancesNow(r)[a]
      BY <2>2, ReadBelowNow
    <3> QED
      BY <1>2, <2>1, <2>3, <3>1, ExecutableMonotone
  <2> QED
    BY <1>4, <2>4 DEF Sufficient
<1>5. CASE Cmd[r].op = "revert"
  <2>1. Revertible(work[r].postings, BalancesRead(r)) => Revertible(work[r].postings, BalancesNow(r))
    BY <1>2, ReadBelowNow, RevertibleMonotone
  <2> QED
    BY <1>1, <1>5, <2>1 DEF Sufficient
<1> QED
  BY <1>0, <1>3, <1>4, <1>5 DEF Command

\* What its postings take from an account is within what the request may draw.
LEMMA DrawnWithin ==
  ASSUME Matching, NewAccountsFloor, NEW r \in Requests, pc[r] \in Executed,
         NEW a \in Accounts, ~IsWorld(a),
         InputOf(work[r].postings, a) < OutputOf(work[r].postings, a)
  PROVE  LET after == Balance(AddPostings(Latest(a), work[r].postings, a))
         IN  /\ a \in Sources(work[r].postings)
             /\ Cmd[r].op = "create" /\ Cmd[r].overdraft # Unbounded => after >= -Cmd[r].overdraft
             /\ Cmd[r].op = "revert" /\ ~Cmd[r].force => after >= 0
<1> DEFINE ps == work[r].postings
           Q  == Queried(r)
           after == Balance(AddPostings(Latest(a), ps, a))
<1>1. TypeOK /\ ps \in Seq(Posting) /\ Command(Cmd[r])
  BY ScriptsClosed, CommandAssumption DEF Matching, Protected, TypeOK, Work
<1>2. InputOf(ps, a) \in Nat /\ OutputOf(ps, a) \in Nat
  BY <1>1, InputOutputNat
<1>3. a \in Sources(ps)
  <2> HIDE DEF ps
  <2> QED
    BY <1>1, <1>2, UnnamedMovesNothing DEF ps
<1>4. Sufficient(r, ps, BalancesNow(r)) /\ BalancesNow(r) \in [Q -> Int]
  BY StillSufficient, ReadBelowNow
<1>5. Latest(a) \in Volume /\ Balance(Latest(a)) \in Int
  BY <1>1, LatestType
<1>6. after = Balance(Latest(a)) + InputOf(ps, a) - OutputOf(ps, a)
  BY <1>2, <1>5 DEF AddPostings, Balance, Volume
<1>7. a \in Q => /\ BalancesNow(r)[a] = Balance(Latest(a))
                 /\ After(BalancesNow(r), ps)[a] = Balance(Latest(a)) + InputOf(ps, a) - OutputOf(ps, a)
  BY DEF BalancesNow, After
<1>8. InputOf(ps, a) < OutputOf(ps, a)
  OBVIOUS
<1>9. ASSUME Cmd[r].op = "create", Cmd[r].overdraft # Unbounded
      PROVE  after >= -Cmd[r].overdraft
  <2>1. a \in Q
    BY <1>3, <1>9 DEF Queried, Query
  <2>2. Cmd[r].overdraft \in Int
    BY <1>1, <1>9 DEF Command
  <2>3. Executable(ps, Cmd[r].overdraft, BalancesNow(r))
    BY <1>4, <1>9 DEF Sufficient
  <2> HIDE DEF ps, Q, after
  <2>4. \/ After(BalancesNow(r), ps)[a] >= BalancesNow(r)[a]
        \/ After(BalancesNow(r), ps)[a] >= -Cmd[r].overdraft
    BY <1>1, <1>4, <2>1, <2>2, <2>3, ExecutableFloorAtEnd
  <2> QED
    BY <1>2, <1>5, <1>6, <1>7, <1>8, <2>1, <2>2, <2>4
<1>10. ASSUME Cmd[r].op = "revert", ~Cmd[r].force PROVE after >= 0
  <2>1. a \in Q
    BY <1>3, <1>10 DEF Queried, Query
  <2>2. Revertible(ps, BalancesNow(r))
    BY <1>4, <1>10 DEF Sufficient
  <2>3. After(BalancesNow(r), ps)[a] >= 0
    BY <1>4, <2>1, <2>2 DEF Revertible
  <2> QED
    BY <1>6, <1>7, <2>1, <2>3
<1> QED
  BY <1>3, <1>9, <1>10

\* The balance of an account after a commit.
LEMMA BalanceAfter ==
  ASSUME Matching, NEW r \in Requests, Commit(r), NEW a \in Accounts
  PROVE  /\ pc[r] \in Executed
         /\ Balance(Latest(a)) \in Int
         /\ Latest(a)' = AddPostings(Latest(a), work[r].postings, a)
         /\ Balance(Latest(a)') \in Int
         /\ \/ InputOf(work[r].postings, a) < OutputOf(work[r].postings, a)
            \/ Balance(Latest(a)') >= Balance(Latest(a))
<1>1. TypeOK /\ work[r].postings \in Seq(Posting)
  BY ScriptsClosed DEF Matching, Protected, TypeOK, Work
<1>2. InputOf(work[r].postings, a) \in Nat /\ OutputOf(work[r].postings, a) \in Nat
  BY <1>1, InputOutputNat
<1>3. Latest(a) \in Volume
  BY <1>1, LatestType
<1>4. Latest(a)' = AddPostings(Latest(a), work[r].postings, a)
  <2>1. \A b \in Accounts : Latest(b)' = AddPostings(Latest(b), NewTransaction(r).postings, b)
    BY Committed
  <2>2. NewTransaction(r).postings = work[r].postings
    BY DEF NewTransaction
  <2> QED
    BY <2>1, <2>2
<1>5. pc[r] \in Executed
  BY DEF Commit, Executed, HasTransactionID
<1>6. /\ Balance(Latest(a)') = Balance(Latest(a)) + InputOf(work[r].postings, a) - OutputOf(work[r].postings, a)
      /\ Balance(Latest(a)) \in Int
  BY <1>2, <1>3, <1>4 DEF AddPostings, Balance, Volume
<1> QED
  BY <1>2, <1>4, <1>5, <1>6

\* Accounts without a row at first stay at or above 0.
LEMMA FloorStep ==
  OverdraftsHaveRows /\ Matching /\ NewAccountsFloor /\ [Next]_vars => NewAccountsFloor'
<1> SUFFICES ASSUME OverdraftsHaveRows, Matching, NewAccountsFloor, [Next]_vars PROVE NewAccountsFloor'
  OBVIOUS
<1>1. CASE UNCHANGED db
  BY <1>1 DEF db, NewAccountsFloor, Latest
<1>2. ASSUME NEW r \in Requests, Commit(r) PROVE NewAccountsFloor'
  <2> SUFFICES ASSUME NEW a \in Accounts \ GenesisAccounts, ~IsWorld(a) PROVE Balance(Latest(a)') >= 0
    BY DEF NewAccountsFloor
  <2>1. /\ pc[r] \in Executed /\ Balance(Latest(a)) \in Int /\ Balance(Latest(a)') \in Int
        /\ Latest(a)' = AddPostings(Latest(a), work[r].postings, a)
        /\ \/ InputOf(work[r].postings, a) < OutputOf(work[r].postings, a)
           \/ Balance(Latest(a)') >= Balance(Latest(a))
    BY <1>2, BalanceAfter
  <2>2. Balance(Latest(a)) >= 0
    BY DEF NewAccountsFloor
  <2>3. ASSUME InputOf(work[r].postings, a) < OutputOf(work[r].postings, a)
        PROVE  Balance(Latest(a)') >= 0
    <3>1. /\ a \in Sources(work[r].postings)
          /\ Cmd[r].op = "create" /\ Cmd[r].overdraft # Unbounded =>
               Balance(Latest(a)') >= -Cmd[r].overdraft
          /\ Cmd[r].op = "revert" /\ ~Cmd[r].force => Balance(Latest(a)') >= 0
      BY <2>1, <2>3, DrawnWithin
    <3>2. AsksFor(r) /\ pc[r] \in Reading /\ pc[r] \notin Outside
      BY <2>1 DEF Matching, Attempts, Attempted, Reading, Outside, Executed, HasTransactionID
    <3>3. CASE Cmd[r].op = "create"
      <4>1. work[r].postings = Cmd[r].postings
        BY <3>2, <3>3 DEF AsksFor
      <4>2. InputOf(work[r].postings, a) \in Nat /\ OutputOf(work[r].postings, a) \in Nat
        BY ScriptsClosed, InputOutputNat DEF Matching, Protected, TypeOK, Work
      <4>3. Cmd[r].overdraft = 0
        BY <2>3, <3>1, <3>3, <4>1, <4>2 DEF OverdraftsHaveRows
      <4>4. Cmd[r].overdraft # Unbounded
        BY <4>3, CommandAssumption
      <4> QED
        BY <2>1, <3>1, <3>3, <4>3, <4>4
    <3>4. CASE Cmd[r].op = "revert" /\ Cmd[r].force
      <4>1. PICK t \in transactions : t.id = Cmd[r].target /\ work[r].postings = ReversePostings(t.postings)
        BY <3>2, <3>4 DEF AsksFor
      <4>2. t.id \in 1..Len(Genesis)
        BY <3>4, <4>1, GenesisTransactionsAre DEF OverdraftsHaveRows
      <4>3. /\ GenesisTransaction(t.id) \in transactions /\ GenesisTransaction(t.id).id = t.id
            /\ GenesisTransaction(t.id) \in GenesisTransactions
        BY <4>2, GenesisTransactionsAre DEF Matching, TablesMatch
      <4>4. t = GenesisTransaction(t.id)
        BY <4>3 DEF Matching, TablesMatch
      <4>5. t \in GenesisTransactions /\ t.postings \in Seq(Posting)
        BY <4>3, <4>4, GenesisTransactionsAre
      <4>6. a \in Involved(t.postings)
        <5>1. Involved(ReversePostings(t.postings)) = Involved(t.postings)
          BY <4>5, ReverseNames
        <5>2. a \in Involved(work[r].postings)
          BY <3>1 DEF Involved
        <5> QED
          BY <4>1, <5>1, <5>2
      <4> QED
        BY <4>5, <4>6, GenesisTransactionsAre
    <3> QED
      BY <3>1, <3>3, <3>4, CommandAssumption DEF Command
  <2> QED
    BY <2>1, <2>2, <2>3
<1> QED
  BY <1>1, <1>2, StepTouchesOne DEF Next, AllAnswered, vars, Matching, Protected

\* They have no row at first.
LEMMA FloorInit == Init => NewAccountsFloor
<1> SUFFICES ASSUME Init, NEW a \in Accounts \ GenesisAccounts PROVE Balance(Latest(a)) >= 0
  BY DEF NewAccountsFloor
<1>1. volumes[a] = None
  BY DEF Init, GenesisVolumes
<1>2. Latest(a) = Nothing
  BY <1>1 DEF Latest, LatestIn, Rows
<1> QED
  BY <1>2 DEF Balance, Nothing

-----------------------------------------------------------------------------
(* The overdrafts. *)

\* What OverdraftBound says of one account and its volumes.
WithinOverdraft(a, v) ==
  Bounded(a) /\ Balance(v) < 0 => \E r \in Drawers(a) : Balance(v) + Cmd[r].overdraft >= 0

\* The transactions committed before left the accounts within the overdrafts.
GenesisWithinOverdrafts ==
  \A a \in GenesisAccounts : WithinOverdraft(a, GenesisVolume(Len(Genesis), a))

\* A commit leaves every account within the overdrafts.
LEMMA OverdraftStep ==
  Matching /\ NewAccountsFloor /\ (\A a \in Accounts : WithinOverdraft(a, Latest(a))) /\ [Next]_vars
    => \A a \in Accounts : WithinOverdraft(a, Latest(a)')
<1> SUFFICES ASSUME Matching, NewAccountsFloor, \A a \in Accounts : WithinOverdraft(a, Latest(a)),
                    [Next]_vars
             PROVE  \A a \in Accounts : WithinOverdraft(a, Latest(a)')
  OBVIOUS
<1>1. CASE UNCHANGED db
  BY <1>1 DEF db, Latest
<1>2. ASSUME NEW r \in Requests, Commit(r), NEW a \in Accounts, Bounded(a), Balance(Latest(a)') < 0
      PROVE  \E q \in Drawers(a) : Balance(Latest(a)') + Cmd[q].overdraft >= 0
  <2>1. /\ pc[r] \in Executed /\ Balance(Latest(a)) \in Int /\ Balance(Latest(a)') \in Int
        /\ Latest(a)' = AddPostings(Latest(a), work[r].postings, a)
        /\ \/ InputOf(work[r].postings, a) < OutputOf(work[r].postings, a)
           \/ Balance(Latest(a)') >= Balance(Latest(a))
    BY <1>2, BalanceAfter
  <2>2. \A q \in Drawers(a) : q \in Requests /\ Cmd[q].overdraft \in Nat
    BY <1>2, CommandAssumption DEF Bounded, Drawers, Command
  <2>3. CASE Balance(Latest(a)') >= Balance(Latest(a))
    <3>1. Balance(Latest(a)) < 0
      BY <1>2, <2>1, <2>3
    <3>2. PICK q \in Drawers(a) : Balance(Latest(a)) + Cmd[q].overdraft >= 0
      BY <1>2, <3>1 DEF WithinOverdraft
    <3> QED
      BY <2>1, <2>2, <2>3, <3>2
  <2>4. CASE InputOf(work[r].postings, a) < OutputOf(work[r].postings, a)
    <3>1. /\ a \in Sources(work[r].postings)
          /\ Cmd[r].op = "create" /\ Cmd[r].overdraft # Unbounded =>
               Balance(Latest(a)') >= -Cmd[r].overdraft
          /\ Cmd[r].op = "revert" /\ ~Cmd[r].force => Balance(Latest(a)') >= 0
      BY <1>2, <2>1, <2>4, DrawnWithin DEF Bounded
    <3>2. AsksFor(r) /\ pc[r] \notin Outside
      BY <2>1 DEF Matching, Attempts, Attempted, Outside, Executed, HasTransactionID
    <3>3. Cmd[r].op = "create"
      BY <1>2, <2>1, <3>1, CommandAssumption DEF Command, Bounded
    <3>4. r \in Drawers(a)
      BY <3>1, <3>2, <3>3 DEF AsksFor, Drawers
    <3>5. Balance(Latest(a)') >= -Cmd[r].overdraft
      BY <1>2, <3>1, <3>3, <3>4 DEF Bounded
    <3> QED
      BY <2>1, <2>2, <3>4, <3>5
  <2> QED
    BY <2>1, <2>3, <2>4
<1>3. ASSUME NEW r \in Requests, Commit(r) PROVE \A a \in Accounts : WithinOverdraft(a, Latest(a)')
  BY <1>2, <1>3 DEF WithinOverdraft
<1> QED
  BY <1>1, <1>3, StepTouchesOne DEF Next, AllAnswered, vars, Matching, Protected

(***************************************************************************)
(* No interleaving lets an account go below the largest overdraft a        *)
(* request may use on it (OverdraftBound): the balances the machine ran on *)
(* are locked, or prudent, until the transaction commits.                  *)
(***************************************************************************)
THEOREM OverdraftsRespected ==
  ASSUME OverdraftsHaveRows, GenesisWithinOverdrafts
  PROVE  Spec => []OverdraftBound
<1> DEFINE Bound == \A a \in Accounts : WithinOverdraft(a, Latest(a))
           OInv  == Matching /\ NewAccountsFloor /\ Bound
<1>1. Init => OInv
  <2> SUFFICES ASSUME Init, NEW a \in Accounts PROVE WithinOverdraft(a, Latest(a))
    BY MatchingInit, FloorInit
  <2>1. CASE a \in GenesisAccounts
    <3>1. Len(Genesis) \in 0..Len(Genesis)
      BY GenesisTransactionsAre
    <3>2. GenesisVolume(Len(Genesis), a) \in Volume
      BY <3>1, GenesisVolumeIs
    <3>3. Latest(a) = GenesisVolume(Len(Genesis), a)
      BY <2>1, <3>2, CommandAssumption DEF Init, GenesisVolumes, Latest, LatestIn, Rows
    <3> QED
      BY <2>1, <3>3 DEF GenesisWithinOverdrafts
  <2>2. CASE a \notin GenesisAccounts
    <3>1. Latest(a) = Nothing
      BY <2>2 DEF Init, GenesisVolumes, Latest, LatestIn, Rows
    <3> QED
      BY <3>1 DEF WithinOverdraft, Balance, Nothing
  <2> QED
    BY <2>1, <2>2
<1>2. OInv /\ [Next]_vars => OInv'
  <2> SUFFICES ASSUME OInv, [Next]_vars PROVE OInv'
    OBVIOUS
  <2>1. Matching' /\ NewAccountsFloor'
    BY MatchingStep, FloorStep
  <2>2. \A a \in Accounts : WithinOverdraft(a, Latest(a)')
    BY OverdraftStep
  <2>3. Bound'
    BY <2>2 DEF WithinOverdraft
  <2> QED
    BY <2>1, <2>3
<1>3. OInv => OverdraftBound
  <2> SUFFICES ASSUME OInv PROVE OverdraftBound
    OBVIOUS
  <2>1. \A a \in Rows(volumes) : a \in Accounts /\ Latest(a) = volumes[a]
    BY DEF Rows, Latest, LatestIn
  <2> QED
    BY <2>1 DEF OverdraftBound, WithinOverdraft
<1> HIDE DEF OInv
<1> QED
  BY <1>1, <1>2, <1>3, PTL DEF Spec

-----------------------------------------------------------------------------
(* Serializability.  First, the operators of the instance are those of the  *)
(* modules it is given: both are the same text over the same constants.     *)

LEMMA SerialSums ==
  /\ \A f : Serial!SumFunction(f) = SumFunction(f)
  /\ \A ps, a : Serial!InputOf(ps, a) = InputOf(ps, a) /\ Serial!OutputOf(ps, a) = OutputOf(ps, a)
<1>1. \A f : Serial!SumFunction(f) = SumFunction(f)
  BY DEF Serial!SumFunction, SumFunction, Serial!SumFunctionOnSet, SumFunctionOnSet,
         Serial!FoldFunctionOnSet, FoldFunctionOnSet, Serial!MapThenFoldSet, MapThenFoldSet
<1> QED
  BY <1>1 DEF Serial!InputOf, InputOf, Serial!OutputOf, OutputOf

LEMMA SerialPostings ==
  /\ \A ps : Serial!Involved(ps) = Involved(ps) /\ Serial!Sources(ps) = Sources(ps)
  /\ \A ps : Serial!ReversePostings(ps) = ReversePostings(ps)
  /\ \A ps, qs : Serial!Overlap(ps, qs) = Overlap(ps, qs)
  /\ \A v, ps, a : Serial!AddPostings(v, ps, a) = AddPostings(v, ps, a)
<1>1. \A ps : Serial!Involved(ps) = Involved(ps) /\ Serial!Sources(ps) = Sources(ps)
  BY DEF Serial!Involved, Involved, Serial!Sources, Sources, Serial!Destinations, Destinations
<1>2. \A ps : Serial!ReversePostings(ps) = ReversePostings(ps)
  BY DEF Serial!ReversePostings, ReversePostings, Serial!Swap, Swap
<1>3. \A ps, qs : Serial!Overlap(ps, qs) = Overlap(ps, qs)
  BY <1>1 DEF Serial!Overlap, Overlap
<1>4. \A v, ps, a : Serial!AddPostings(v, ps, a) = AddPostings(v, ps, a)
  BY SerialSums DEF Serial!AddPostings, AddPostings
<1> QED
  BY <1>1, <1>2, <1>3, <1>4

LEMMA SerialChecks ==
  /\ \A r, ps, bal : Serial!Sufficient(r, ps, bal) = Sufficient(r, ps, bal)
  /\ \A r, ps : Serial!Query(r, ps) = Query(r, ps)
<1>1. \A a : Serial!IsWorld(a) = IsWorld(a)
  BY DEF Serial!IsWorld, IsWorld
<1>2. \A bal, ps : Serial!After(bal, ps) = After(bal, ps)
  BY SerialSums DEF Serial!After, After
<1>3. \A ps, overdraft, bal : Serial!Executable(ps, overdraft, bal) = Executable(ps, overdraft, bal)
  BY <1>2 DEF Serial!Executable, Executable, Serial!Short, Short
<1>4. \A ps, bal : Serial!Revertible(ps, bal) = Revertible(ps, bal)
  BY <1>1, <1>2 DEF Serial!Revertible, Revertible
<1> QED
  BY <1>1, <1>3, <1>4, SerialPostings DEF Serial!Sufficient, Sufficient, Serial!Query, Query

LEMMA SerialTables ==
  /\ Serial!GenesisVolumes = GenesisVolumes /\ Serial!GenesisTransactions = GenesisTransactions
  /\ Serial!GenesisLogs = GenesisLogs
  /\ \A table, a : Serial!LatestIn(table, a) = LatestIn(table, a)
  /\ \A old, new : Serial!Merged(old, new) = Merged(old, new)
  /\ \A table : Serial!IdsOf(table) = IdsOf(table) /\ Serial!LastIn(table) = LastIn(table)
  /\ \A v : Serial!Balance(v) = Balance(v)
  /\ \A r : Serial!Input(r) = Input(r)
<1>1. \A n, a : Serial!GenesisVolume(n, a) = GenesisVolume(n, a)
  BY SerialSums DEF Serial!GenesisVolume, GenesisVolume
<1>2. Serial!GenesisAccounts = GenesisAccounts
  BY SerialPostings DEF Serial!GenesisAccounts, GenesisAccounts
<1>3. Serial!GenesisVolumes = GenesisVolumes
  BY <1>1, <1>2 DEF Serial!GenesisVolumes, GenesisVolumes
<1>4. Serial!GenesisTransactions = GenesisTransactions
  BY <1>1, SerialPostings DEF Serial!GenesisTransactions, GenesisTransactions
<1>5. Serial!GenesisLogs = GenesisLogs
  BY DEF Serial!GenesisLogs, GenesisLogs
<1>6. \A table : Serial!Rows(table) = Rows(table)
  BY DEF Serial!Rows, Rows
<1>7. \A table, a : Serial!LatestIn(table, a) = LatestIn(table, a)
  BY <1>6 DEF Serial!LatestIn, LatestIn, Serial!Nothing, Nothing
<1>8. \A old, new : Serial!Merged(old, new) = Merged(old, new)
  BY <1>6 DEF Serial!Merged, Merged
<1>9. \A table : Serial!IdsOf(table) = IdsOf(table) /\ Serial!LastIn(table) = LastIn(table)
  BY DEF Serial!LastIn, LastIn, Serial!IdsOf, IdsOf
<1>10. (\A v : Serial!Balance(v) = Balance(v)) /\ \A r : Serial!Input(r) = Input(r)
  BY DEF Serial!Balance, Balance, Serial!Input, Input
<1> QED
  BY <1>3, <1>4, <1>5, <1>7, <1>8, <1>9, <1>10

-----------------------------------------------------------------------------
(* The whole of what an attempt knows, and what it leads to.                *)

\* Logs that are not hashed have no predecessor.
Unhashed == \A r \in Requests : ~HashLogs => work[r].log.prev = 0

LEMMA UnhashedStep == TypeOK /\ Unhashed /\ [Next]_vars => Unhashed'
<1> SUFFICES ASSUME TypeOK, Unhashed, [Next]_vars, ~HashLogs, NEW r \in Requests
             PROVE  work'[r].log.prev = 0
  BY DEF Unhashed
<1>0. work[r].log.prev = 0
  BY DEF Unhashed
<1>1. CASE UNCHANGED work
  BY <1>0, <1>1
<1>2. ASSUME NEW q \in Requests, Step(q) \/ Resend(q) PROVE work'[r].log.prev = 0
  <2>1. CASE q # r
    BY <1>0, <1>2, <2>1, StepTouchesOne DEF Untouched
  <2>2. CASE q = r
    <3>1. Ends(r) \/ Proceeds(r)
      BY <1>2, <2>2, OwnStep
    <3>2. Ends(r) => work'[r].log.prev = 0
      BY DEF Ends, NoWork
    <3>3. Proceeds(r) => work'[r].log = work[r].log \/ work'[r].log.prev = 0
      BY DEF Proceeds, Begins, FindsNoKey, Reverts, TakesSnapshot, LocksRow, Executes,
             Updates, DrawsTransactionID, DrawsLogID, Continues, Kept, Fields
    <3> QED
      BY <1>0, <3>1, <3>2, <3>3
  <2> QED
    BY <2>1, <2>2
<1> QED
  BY <1>1, <1>2 DEF Next, AllAnswered, vars

(***************************************************************************)
(* All that serializability needs of a state.                              *)
(***************************************************************************)
SerialInv ==
  /\ Matching /\ NewAccountsFloor /\ Unhashed
  /\ LogChain /\ \A r \in Requests : Chained(r)

LEMMA SerialInvInit == Init => SerialInv
<1> SUFFICES ASSUME Init PROVE SerialInv
  OBVIOUS
<1>1. Unhashed
  BY DEF Init, Unhashed, NoWork
<1> QED
  BY <1>1, MatchingInit, FloorInit, ChainInit DEF SerialInv

LEMMA SerialInvStep == OverdraftsHaveRows /\ SerialInv /\ [Next]_vars => SerialInv'
<1> SUFFICES ASSUME OverdraftsHaveRows, SerialInv, [Next]_vars PROVE SerialInv'
  OBVIOUS
<1>1. Protected /\ TypeOK
  BY DEF SerialInv, Matching, Protected
<1>2. LogChain' /\ \A r \in Requests : Chained(r)'
  BY <1>1, ChainStep DEF SerialInv
<1> QED
  BY <1>1, <1>2, MatchingStep, FloorStep, UnhashedStep DEF SerialInv

\* A hashed log comes after every other.
LEMMA LastBelow ==
  ASSUME TypeOK, NEW n \in Nat, n # 0, \A l \in logs : l.id < n
  PROVE  n > LastIn(logs)
<1>1. CASE logs = {}
  BY <1>1 DEF LastIn
<1>2. CASE logs # {}
  <2>1. IdsOf(logs) # {} /\ IdsOf(logs) \subseteq 1..logSeq /\ logSeq \in Nat
    BY <1>2 DEF IdsOf, TypeOK
  <2>2. \E m \in IdsOf(logs) : \A k \in IdsOf(logs) : k <= m
    BY <2>1, Greatest
  <2>3. LastIn(logs) \in IdsOf(logs)
    BY <1>2, <2>2 DEF LastIn
  <2> QED
    BY <2>3 DEF IdsOf
<1> QED
  BY <1>1, <1>2

-----------------------------------------------------------------------------
(* A commit executes the request, at once and as a whole.                   *)

\* What a request committed is what it asked for, of transactions that are not
\* reverted.
LEMMA CommitsAsked ==
  ASSUME SerialInv, NEW r \in Requests, Commit(r)
  PROVE  [postings |-> work[r].postings, reverts |-> work[r].reverts] \in Serial!Asked(r)
<1> DEFINE w == [postings |-> work[r].postings, reverts |-> work[r].reverts]
<1>1. /\ AsksFor(r) /\ Holds(r) /\ TypeOK /\ pc[r] = "commit"
      /\ \A x \in locks[r] : Fresh(x)
  BY DEF SerialInv, Matching, Attempts, Attempted, Protected, HoldsLocks, LocksAreFresh, Commit
<1>2. "commit" \in Reading /\ "commit" \notin Outside
  BY DEF Reading, Executed, HasTransactionID, Outside
<1>3. CASE Cmd[r].op = "create"
  <2>1. work[r].postings = Cmd[r].postings /\ work[r].reverts = 0
    BY <1>1, <1>2, <1>3 DEF AsksFor
  <2> QED
    BY <1>3, <2>1 DEF Serial!Asked
<1>4. CASE Cmd[r].op # "create"
  <2>1. Cmd[r].op = "revert"
    BY <1>4, CommandAssumption DEF Command
  <2>2. PICK t \in transactions : /\ work[r].reverts = Cmd[r].target /\ t.id = Cmd[r].target
                                  /\ work[r].postings = ReversePostings(t.postings)
    BY <1>1, <1>2, <2>1 DEF AsksFor
  <2>3. work[r].reverts # 0
    BY <1>1, <2>2 DEF TypeOK
  <2>4. Fresh(TxRow(work[r].reverts))
    BY <1>1, <2>3 DEF Holds
  <2>5. t.id \notin reverted
    BY <2>2, <2>4 DEF Fresh, TxRow
  <2>6. w = [postings |-> Serial!ReversePostings(t.postings), reverts |-> t.id]
    BY <2>2, SerialPostings
  <2> QED
    BY <1>4, <2>2, <2>5, <2>6 DEF Serial!Asked
<1> QED
  BY <1>3, <1>4

\* Its key and its reference are new.
LEMMA CommitsNew ==
  ASSUME SerialInv, NEW r \in Requests, Commit(r)
  PROVE  /\ \A l \in logs : Cmd[r].ik # None => l.ik # Cmd[r].ik
         /\ \A t \in transactions : Cmd[r].op = "create" /\ Cmd[r].ref # None => t.ref # Cmd[r].ref
<1>1. /\ Holds(r) /\ pc[r] = "commit" /\ \A x \in locks[r] : Fresh(x)
  BY DEF SerialInv, Matching, Protected, HoldsLocks, LocksAreFresh, Commit
<1>2. Cmd[r].ik # None => Fresh(IK(Cmd[r].ik))
  BY <1>1 DEF Holds
<1>3. Cmd[r].op = "create" /\ Cmd[r].ref # None => Fresh(Ref(Cmd[r].ref))
  BY <1>1 DEF Holds, HasTransactionID
<1> QED
  BY <1>2, <1>3 DEF Fresh

\* Its ids are new, and follow those of the transactions on the same accounts.
LEMMA CommitsLater ==
  ASSUME SerialInv, NEW r \in Requests, Commit(r)
  PROVE  LET id == work[r].txid
             n  == work[r].log.id
         IN  /\ id \in (1..MaxId) \ IdsOf(transactions) /\ n \in (1..MaxId) \ IdsOf(logs)
             /\ Serial!FollowsOn(work[r].postings, id, n)
             /\ HashLogs => n > LastIn(logs)
             /\ work[r].log.prev = IF HashLogs THEN LastIn(logs) ELSE 0
<1>1. /\ IsLater(r) /\ Holds(r) /\ TypeOK /\ pc[r] = "commit" /\ Chained(r) /\ DrawnOnce
      /\ "commit" \in HasTransactionID
  BY DEF SerialInv, Matching, Attempts, Attempted, Protected, HoldsLocks, Commit, HasTransactionID
<1>2. /\ work[r].txid # 0 /\ work[r].txid \in 0..txSeq /\ txSeq \in 0..MaxId
      /\ work[r].log.id # 0 /\ work[r].log.id \in 0..logSeq /\ logSeq \in 0..MaxId
  BY <1>1 DEF Holds, TypeOK, Work
<1>3. MaxId \in Nat
  BY BoundsAssumption
<1>4. work[r].txid \in 1..MaxId /\ work[r].log.id \in 1..MaxId
  BY <1>2, <1>3
<1>5. work[r].txid \notin IdsOf(transactions) /\ work[r].log.id \notin IdsOf(logs)
  BY <1>1, <1>2 DEF DrawnOnce
<1>6. Serial!FollowsOn(work[r].postings, work[r].txid, work[r].log.id)
  BY <1>1, SerialPostings DEF IsLater, Serial!FollowsOn
<1>7. HashLogs => work[r].log.id > LastIn(logs) /\ work[r].log.prev = LastIn(logs)
  <2> SUFFICES ASSUME HashLogs PROVE work[r].log.id > LastIn(logs) /\ work[r].log.prev = LastIn(logs)
    OBVIOUS
  <2>1. work[r].log.prev = LastIn(logs) /\ \A l \in logs : l.id < work[r].log.id
    BY <1>1 DEF Chained
  <2> QED
    BY <1>1, <1>2, <2>1, LastBelow
<1>8. ~HashLogs => work[r].log.prev = 0
  BY DEF SerialInv, Unhashed
<1> QED
  BY <1>4, <1>5, <1>6, <1>7, <1>8

\* The postings are executed on the balances of now.
LEMMA CommitsApplicable ==
  ASSUME SerialInv, NEW r \in Requests, Commit(r)
  PROVE  [postings |-> work[r].postings, reverts |-> work[r].reverts] \in Serial!Applicable(r)
<1> DEFINE w == [postings |-> work[r].postings, reverts |-> work[r].reverts]
<1>1. /\ HasRead(r) /\ pc[r] = "commit" /\ "commit" \in Executed
  BY DEF SerialInv, Matching, Attempts, Attempted, Commit, Executed, HasTransactionID
<1>2. w.postings # <<>>
  BY <1>1 DEF HasRead
<1>3. Serial!Balances(r, work[r].postings) = BalancesNow(r)
  BY SerialChecks, SerialTables DEF Serial!Balances, BalancesNow, Queried, Latest
<1>4. Sufficient(r, work[r].postings, BalancesNow(r))
  BY <1>1, StillSufficient DEF SerialInv
<1>5. Serial!Sufficient(r, w.postings, Serial!Balances(r, w.postings))
  BY <1>3, <1>4, SerialChecks
<1>6. w \in Serial!Asked(r)
  BY CommitsAsked
<1> QED
  BY <1>2, <1>5, <1>6 DEF Serial!Applicable

LEMMA CommitExecutes ==
  ASSUME SerialInv, NEW r \in Requests, Commit(r)
  PROVE  Serial!Execute(r)
<1> DEFINE w   == [postings |-> work[r].postings, reverts |-> work[r].reverts]
           ps  == work[r].postings
           pcv == [a \in Accounts |-> IF a \in Serial!Involved(ps)
                     THEN Serial!AddPostings(Serial!LatestIn(volumes, a), ps, a) ELSE None]
           id  == work[r].txid
           n   == work[r].log.id
<1>1. w \in Serial!Applicable(r) /\ w.postings = ps /\ w.reverts = work[r].reverts
  BY CommitsApplicable
<1>2. pcv = work[r].written
  <2>1. /\ work[r].written \in VolumeTable /\ Rows(work[r].written) = Involved(ps)
        /\ \A a \in Involved(ps) : work[r].written[a] = AddPostings(Latest(a), ps, a)
    BY Committed DEF SerialInv, NewTransaction
  <2>2. \A a \in Accounts : pcv[a] = work[r].written[a]
    BY <2>1, SerialPostings, SerialTables DEF Rows, Latest
  <2> HIDE DEF ps
  <2> QED
    BY <2>1, <2>2 DEF VolumeTable
<1>3. /\ id \in (1..MaxId) \ Serial!IdsOf(transactions) /\ n \in (1..MaxId) \ Serial!IdsOf(logs)
      /\ Serial!FollowsOn(ps, id, n)
      /\ HashLogs => n > Serial!LastIn(logs)
      /\ work[r].log.prev = IF HashLogs THEN Serial!LastIn(logs) ELSE 0
  BY CommitsLater, SerialTables
<1>4. /\ ~Cmd[r].dry
      /\ volumes' = Serial!Merged(volumes, work[r].written)
      /\ reverted' = reverted \cup ({w.reverts} \ {0})
      /\ Serial!Answer(r, "ok", n)
  BY SerialTables DEF Commit, Answer, Serial!Answer
<1>5. transactions' = transactions \cup
        {[id |-> id, postings |-> ps, reverts |-> w.reverts, pcv |-> work[r].written,
          ref |-> IF Cmd[r].op = "create" THEN Cmd[r].ref ELSE None]}
  BY DEF Commit, NewTransaction
<1>6. logs' = logs \cup {[id |-> n, prev |-> IF HashLogs THEN Serial!LastIn(logs) ELSE 0,
                          ik |-> Cmd[r].ik, input |-> Serial!Input(r), tx |-> id]}
  BY <1>3, SerialTables DEF Commit, NewLog
<1>7. [a \in Accounts |-> IF a \in Serial!Involved(w.postings)
         THEN Serial!AddPostings(Serial!LatestIn(volumes, a), w.postings, a) ELSE None]
        = work[r].written
  BY <1>1, <1>2
<1> HIDE DEF w
<1>8. \E v \in Serial!Applicable(r) :
        LET qs  == v.postings
            new == [a \in Accounts |-> IF a \in Serial!Involved(qs)
                      THEN Serial!AddPostings(Serial!LatestIn(volumes, a), qs, a) ELSE None]
        IN  /\ volumes' = Serial!Merged(volumes, new)
            /\ reverted' = reverted \cup ({v.reverts} \ {0})
            /\ \E i \in (1..MaxId) \ Serial!IdsOf(transactions), m \in (1..MaxId) \ Serial!IdsOf(logs) :
                 /\ Serial!FollowsOn(qs, i, m)
                 /\ HashLogs => m > Serial!LastIn(logs)
                 /\ Serial!Answer(r, "ok", m)
                 /\ transactions' = transactions \cup
                      {[id |-> i, postings |-> qs, reverts |-> v.reverts, pcv |-> new,
                        ref |-> IF Cmd[r].op = "create" THEN Cmd[r].ref ELSE None]}
                 /\ logs' = logs \cup {[id |-> m, prev |-> IF HashLogs THEN Serial!LastIn(logs) ELSE 0,
                                        ik |-> Cmd[r].ik, input |-> Serial!Input(r), tx |-> i]}
  <2> w \in Serial!Applicable(r)
    BY <1>1
  <2> WITNESS w \in Serial!Applicable(r)
  <2>1. w.postings = ps
    BY <1>1
  <2> QED
    BY <1>3, <1>4, <1>5, <1>6, <1>7, <2>1
<1> QED
  BY <1>4, <1>8, CommitsNew DEF Serial!Execute

-----------------------------------------------------------------------------
(* The other answers. *)

\* A request answered from the log of its key.
LEMMA AnsweredFromLog ==
  ASSUME NEW r \in Requests, AnswerFromLog(r)
  PROVE  Serial!Replay(r) \/ Serial!Refuse(r)
<1>1. PICK l \in LogWithIK(Cmd[r].ik) :
        /\ IF l.input = Input(r) THEN Answer(r, "hit", l.id) ELSE Answer(r, "ik_input_mismatch", 0)
        /\ UNCHANGED db
  BY DEF AnswerFromLog
<1>2. l \in logs /\ Cmd[r].ik # None /\ l.ik = Cmd[r].ik /\ UNCHANGED Serial!tables
  BY <1>1 DEF LogWithIK, db, Serial!tables
<1>3. CASE l.input = Input(r)
  BY <1>1, <1>2, <1>3, SerialTables DEF Answer, Serial!Answer, Serial!Replay
<1>4. CASE l.input # Input(r)
  <2>1. Serial!Answer(r, "ik_input_mismatch", 0)
    BY <1>1, <1>4 DEF Answer, Serial!Answer
  <2>2. "ik_input_mismatch" \in Serial!Reasons(r)
    BY <1>2, <1>4, SerialTables DEF Serial!Reasons
  <2> QED
    BY <1>2, <2>1, <2>2 DEF Serial!Refuse
<1> QED
  BY <1>3, <1>4

\* A request that fails for one of the reasons.
LEMMA FailureRefuses ==
  ASSUME NEW r \in Requests, NEW k \in Serial!Reasons(r), Fail(r, k)
  PROVE  Serial!Refuse(r)
BY DEF Fail, Answer, db, Serial!Refuse, Serial!Answer, Serial!tables

\* Every step of a request is a step of the serial ledger, or none.
LEMMA SerialStep ==
  ASSUME SerialInv, NEW r \in Requests, Step(r) \/ Resend(r)
  PROVE  Serial!Next \/ UNCHANGED Serial!vars
<1> DEFINE Stutters == UNCHANGED <<db, reply>>
<1>a. Stutters => UNCHANGED Serial!vars
  BY DEF db, Serial!vars, Serial!tables
<1>b. Serial!Execute(r) \/ Serial!Replay(r) \/ Serial!Refuse(r) \/ Serial!Forget(r) => Serial!Next
  BY DEF Serial!Next
<1>c. {"insufficient_fund", "no_postings", "not_found", "dry_run", "accounts_conflict", "panic"}
        \subseteq Serial!Reasons(r)
  BY DEF Serial!Reasons
<1>1. CASE Begin(r) \/ RevertTransaction(r) \/ Snapshot(r) \/ LockOrInsertRow(r) \/ UpdateRow(r)
             \/ NextTransactionID(r) \/ InsertTransaction(r) \/ ReadAccounts(r) \/ InsertAccounts(r)
             \/ LockLogs(r) \/ NextLogID(r) \/ InsertLog(r) \/ IdempotencyKeyConflict(r)
             \/ DeadlockDetected(r)
  <2>1. Stutters
    BY <1>1 DEF Begin, RevertTransaction, Snapshot, LockOrInsertRow, UpdateRow, NextTransactionID,
                InsertTransaction, ReadAccounts, InsertAccounts, LockLogs, NextLogID, InsertLog,
                IdempotencyKeyConflict, DeadlockDetected, Retry, Others
  <2> QED
    BY <1>a, <2>1
<1>2. CASE ReadIK(r)
  <2>1. CASE AnswerFromLog(r)
    BY <1>b, <2>1, AnsweredFromLog
  <2>2. CASE ~AnswerFromLog(r)
    BY <1>a, <1>2, <2>2 DEF ReadIK, Others
  <2> QED
    BY <2>1, <2>2
<1>3. CASE RefuseRevert(r)
  <2>1. CASE Cmd[r].target \in reverted /\ Fail(r, "already_reverted")
    <3>1. "already_reverted" \in Serial!Reasons(r)
      BY <2>1 DEF Serial!Reasons
    <3> QED
      BY <1>b, <2>1, <3>1, FailureRefuses
  <2>2. CASE Fail(r, "not_found")
    BY <1>b, <1>c, <2>2, FailureRefuses
  <2> QED
    BY <1>3, <2>1, <2>2 DEF RefuseRevert
<1>4. CASE Execute(r)
  <2>1. CASE Fail(r, "panic") \/ Fail(r, "insufficient_fund") \/ Fail(r, "no_postings")
    BY <1>b, <1>c, <2>1, FailureRefuses
  <2>2. CASE Stutters
    BY <1>a, <2>2
  <2> QED
    BY <1>4, <2>1, <2>2 DEF Execute, Others
<1>5. CASE ReferenceConflict(r)
  <2>1. "reference_conflict" \in Serial!Reasons(r) /\ Fail(r, "reference_conflict")
    BY <1>5 DEF ReferenceConflict, Serial!Reasons
  <2> QED
    BY <1>b, <2>1, FailureRefuses
<1>6. CASE AccountsConflict(r)
  BY <1>b, <1>c, <1>6, FailureRefuses DEF AccountsConflict
<1>7. CASE FetchIK(r)
  BY <1>b, <1>7, AnsweredFromLog DEF FetchIK
<1>8. CASE Commit(r)
  BY <1>b, <1>8, CommitExecutes
<1>9. CASE RollbackDryRun(r)
  BY <1>b, <1>c, <1>9, FailureRefuses DEF RollbackDryRun
<1>10. CASE Resend(r)
  <2>1. Serial!Forget(r)
    BY <1>10 DEF Resend, db, Serial!Forget, Serial!tables
  <2> QED
    BY <1>b, <2>1
<1> QED
  BY <1>1, <1>2, <1>3, <1>4, <1>5, <1>6, <1>7, <1>8, <1>9, <1>10 DEF Step

(***************************************************************************)
(* What the tables and the clients show of the concurrent writes is a      *)
(* serial execution of the requests (Serializable): the point at which a   *)
(* request takes effect is its commit.                                     *)
(***************************************************************************)
THEOREM WritesAreSerializable ==
  ASSUME OverdraftsHaveRows
  PROVE  Spec => Serializable
<1>1. Init => Serial!Init
  BY SerialTables DEF Init, Serial!Init
<1>2. Init => SerialInv
  BY SerialInvInit
<1>3. SerialInv /\ [Next]_vars => SerialInv'
  BY SerialInvStep
<1>4. SerialInv /\ [Next]_vars => [Serial!Next]_(Serial!vars)
  <2> SUFFICES ASSUME SerialInv, [Next]_vars PROVE Serial!Next \/ UNCHANGED Serial!vars
    OBVIOUS
  <2>1. UNCHANGED vars => UNCHANGED Serial!vars
    BY DEF vars, db, Serial!vars, Serial!tables
  <2> QED
    BY <2>1, SerialStep DEF Next, AllAnswered
<1> QED
  BY <1>1, <1>2, <1>3, <1>4, PTL DEF Spec, Serializable, Serial!Spec
=============================================================================
