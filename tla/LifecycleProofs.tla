-------------------------- MODULE LifecycleProofs --------------------------
(***************************************************************************)
(* For any number of writes, dry runs, imports of any logs and bulks, and  *)
(* any sharing of controllers: a ledger is filled by imports until its     *)
(* first write commits, and by writes from then on; ids are drawn free and *)
(* hashed logs committed in their order, both as long as atomic bulks meet *)
(* ledgers in use only; a bulk publishes what it has committed.            *)
(***************************************************************************)
EXTENDS Lifecycle, SequenceTheorems, WellFoundedInduction, TLAPS

(* The atomic bulk writes behind the state tracker: on a ledger that has   *)
(* not been written the theorems about ids and imports are false with it.  *)
BulksOnUsed == \A m \in Meetings : m.used \/ \A r \in m.requests : Kind[r] # "bulk"

Pcs == Ended \cup {"start", "lock", "mark", "insert", "drawn",
           "commit", "remember", "check", "last", "stream", "stuck"}

(* The part of the state the argument is about.                            *)
StateOK ==
    /\ row \in States
    /\ logs \in Seq(Log)
    /\ lock \in Requests \cup {Free}
    /\ cached \in [Facades -> States \cup {Unread}]
    /\ pc \in [Requests -> Pcs]
    /\ staged \in [Requests -> Seq(Nat)]
    /\ id \in [Requests -> Nat]
    /\ seq \in Nat
    /\ next \in [Requests -> Nat \ {0}]

(* A log of a write is only committed along with the state "in-use".       *)
WrittenInUse == \A i \in DOMAIN logs : logs[i].from = "write" => row = "in-use"

(* What controllers remember of a ledger in use is true for ever.          *)
CacheTrue == \A f \in Facades : cached[f] = "in-use" => row = "in-use"

(* A write past handleState holds the lock, or found the ledger in use.    *)
WritesLockOrInUse ==
    \A r \in Requests : pc[r] \in {"insert", "drawn", "commit"} /\ lock # r => row = "in-use"
RememberInUse == \A r \in Requests : pc[r] = "remember" => row = "in-use"

(* An atomic bulk is only made on a ledger in use.                         *)
BulksInUse == \A r \in Requests : Kind[r] = "bulk" /\ pc[r] # "absent" => row = "in-use"

(* The holder of the lock, and what an import knows while it holds it.     *)
HoldersLock ==
    \A r \in Requests : pc[r] \in {"mark", "check", "last", "stream", "stuck"} => lock = r
ImportsInitializing ==
    \A r \in Requests : pc[r] \in {"last", "stream"} => row = "initializing"

IInv ==
    /\ StateOK
    /\ WrittenInUse
    /\ CacheTrue
    /\ WritesLockOrInUse
    /\ RememberInUse
    /\ BulksInUse
    /\ HoldersLock
    /\ ImportsInitializing
    /\ ImportBeforeWrites

(* A set of naturals that is not empty has a least element.                *)
LEMMA LeastNatural ==
    ASSUME NEW S, S \subseteq Nat, S # {}
    PROVE  \E x \in S : \A y \in S : x <= y
<1>1. PICK x \in S : \A y \in S : ~ (<<y, x>> \in OpToRel(<, Nat))
  BY NatLessThanWellFounded, WFMin
<1>2. \A y \in S : ~ (y < x)
  BY <1>1 DEF OpToRel
<1>. QED BY <1>2

(* One of finitely many numbers is the highest: the shortest row of them   *)
(* without a highest one would have one before its last number.            *)
LEMMA Highest ==
    ASSUME NEW n \in Nat \ {0}, NEW f \in [1..n -> Nat]
    PROVE  \E m \in 1..n : \A i \in 1..n : f[m] >= f[i]
<1>. DEFINE Bad == {k \in 1..n : \A m \in 1..k : \E i \in 1..k : ~(f[m] >= f[i])}
<1>1. SUFFICES ASSUME n \in Bad PROVE FALSE
  OBVIOUS
<1>2. PICK k \in Bad : \A j \in Bad : k <= j
  <2>1. Bad \subseteq Nat
    OBVIOUS
  <2>. HIDE DEF Bad
  <2>. QED BY <1>1, <2>1, LeastNatural
<1>3. k \in 1..n /\ \A m \in 1..k : \E i \in 1..k : ~(f[m] >= f[i])
  BY <1>2
<1>4. k # 1
  BY <1>3
<1>5. k - 1 \in 1..n /\ ~(k <= k - 1)
  BY <1>3, <1>4
<1>6. k - 1 \notin Bad
  <2>. HIDE DEF Bad
  <2>. QED BY <1>2, <1>5
<1>7. PICK m \in 1..(k - 1) : \A i \in 1..(k - 1) : f[m] >= f[i]
  BY <1>5, <1>6
<1>8. CASE f[m] >= f[k]
  BY <1>3, <1>7, <1>8
<1>9. CASE ~(f[m] >= f[k])
  <2>1. f[k] \in Nat /\ f[m] \in Nat /\ \A i \in 1..(k - 1) : f[i] \in Nat
    BY <1>3, <1>7
  <2>2. \A i \in 1..k : f[k] >= f[i]
    BY <1>3, <1>7, <1>9, <2>1
  <2>. QED BY <1>3, <2>2
<1>. QED BY <1>8, <1>9

(* Imports send ids of the exported ledger.                                *)
LEMMA StreamType ==
    ASSUME NEW r \in Requests, NEW k \in 1..Len(Stream[r])
    PROVE  Stream[r][k] \in Nat \ {0}
<1>1. Stream[r] \in Seq(Exported)
  BY ConstantsAssumption
<1>. DEFINE s == Stream[r]
<1>2. s[k] \in Exported
  <2>. HIDE DEF s
  <2>. QED BY <1>1 DEF s
<1>. QED BY <1>2, ConstantsAssumption

(* The highest id of the table is a number, and none is higher.            *)
LEMMA MaxIdType ==
    ASSUME logs \in Seq(Log)
    PROVE  MaxId \in Nat /\ \A x \in Ids : x <= MaxId
<1>. DEFINE f == [i \in 1..Len(logs) |-> logs[i].id]
<1>1. f \in [1..Len(logs) -> Nat]
  <2>1. \A i \in 1..Len(logs) : logs[i] \in Log
    OBVIOUS
  <2>. QED BY <2>1 DEF Log
<1>2. Len(logs) \in Nat /\ DOMAIN logs = 1..Len(logs)
  OBVIOUS
<1>3. Ids = {f[i] : i \in 1..Len(logs)}
  BY <1>2 DEF Ids
<1>4. CASE Ids = {}
  BY <1>4 DEF MaxId
<1>5. CASE Ids # {}
  <2>. HIDE DEF f
  <2>1. Len(logs) \in Nat \ {0}
    BY <1>2, <1>3, <1>5
  <2>2. PICK m \in 1..Len(logs) : \A i \in 1..Len(logs) : f[m] >= f[i]
    BY <1>1, <2>1, Highest
  <2>3. f[m] \in Ids /\ \A x \in Ids : f[m] >= x
    BY <1>3, <2>2
  <2>4. Max(Ids) \in Ids /\ \A x \in Ids : Max(Ids) >= x
    BY <2>3 DEF Max
  <2>5. Ids \subseteq Nat
    BY <1>1, <1>3
  <2>. QED BY <1>5, <2>4, <2>5 DEF MaxId
<1>. QED BY <1>4, <1>5

Written(s) == [i \in DOMAIN s |-> [id |-> s[i], from |-> "write"]]

(* The logs of a transaction, appended to the table.                       *)
LEMMA WrittenAppended ==
    ASSUME NEW s \in Seq(Nat), NEW t \in Seq(Log)
    PROVE  /\ t \o Written(s) \in Seq(Log)
           /\ \A i \in DOMAIN (t \o Written(s)) :
                 \/ i \in DOMAIN t /\ (t \o Written(s))[i] = t[i]
                 \/ /\ i \notin DOMAIN t /\ i > Len(t) /\ (t \o Written(s))[i].from = "write"
                    /\ i - Len(t) \in DOMAIN s /\ (t \o Written(s))[i].id = s[i - Len(t)]
<1>1. Written(s) \in Seq(Log) /\ Len(Written(s)) = Len(s)
  <2>1. DOMAIN s = 1..Len(s) /\ Len(s) \in Nat
    OBVIOUS
  <2>2. Written(s) \in [1..Len(s) -> Log]
    BY <2>1 DEF Written, Log
  <2>3. Written(s) \in Seq(Log)
    BY <2>1, <2>2, SeqDef
  <2>4. DOMAIN Written(s) = 1..Len(s)
    BY <2>1 DEF Written
  <2>5. DOMAIN Written(s) = 1..Len(Written(s)) /\ Len(Written(s)) \in Nat
    BY <2>3
  <2>. QED BY <2>1, <2>3, <2>4, <2>5
<1>2. \A i \in DOMAIN Written(s) :
        i \in DOMAIN s /\ Written(s)[i].from = "write" /\ Written(s)[i].id = s[i]
  BY DEF Written
<1>. DEFINE w == Written(s)
<1>3. t \o w \in Seq(Log)
  BY <1>1
<1>4. ASSUME NEW i \in DOMAIN (t \o w)
      PROVE \/ i \in DOMAIN t /\ (t \o w)[i] = t[i]
            \/ /\ i \notin DOMAIN t /\ i > Len(t) /\ (t \o w)[i].from = "write"
               /\ i - Len(t) \in DOMAIN s /\ (t \o w)[i].id = s[i - Len(t)]
  <2>1. i \in 1..(Len(t) + Len(w))
    BY <1>1, <1>4
  <2>2. CASE i <= Len(t)
    BY <1>1, <2>1, <2>2
  <2>3. CASE i > Len(t)
    <3>1. (t \o w)[i] = w[i - Len(t)] /\ i - Len(t) \in DOMAIN w
      BY <1>1, <2>1, <2>3
    <3>. QED BY <1>2, <2>3, <3>1
  <2>. QED BY <1>1, <2>1, <2>2, <2>3
<1>. HIDE DEF w
<1>. QED BY <1>3, <1>4 DEF w

LEMMA InitIInv ==
    ASSUME BulksOnUsed, Init
    PROVE  IInv
<1>1. PICK m \in Meetings :
        /\ row = IF m.used THEN "in-use" ELSE "initializing"
        /\ logs = IF m.used THEN <<[id |-> 1, from |-> "write"]>> ELSE <<>>
        /\ pc = [r \in Requests |-> IF r \in m.requests THEN "start" ELSE "absent"]
  BY DEF Init
<1>2. logs \in Seq(Log)
  <2>1. [id |-> 1, from |-> "write"] \in Log
    BY DEF Log
  <2>. QED BY <1>1, <2>1
<1>3. StateOK
  BY <1>1, <1>2, ConstantsAssumption DEF Init, StateOK, States, Pcs, Ended, Unread
<1>4. WrittenInUse /\ ImportBeforeWrites
  BY <1>1 DEF WrittenInUse, ImportBeforeWrites
<1>5. BulksInUse
  BY <1>1, ConstantsAssumption DEF BulksOnUsed, BulksInUse, Meeting
<1>6. CacheTrue /\ WritesLockOrInUse /\ RememberInUse /\ HoldersLock /\ ImportsInitializing
  BY <1>1 DEF Init, CacheTrue, WritesLockOrInUse, RememberInUse, BulksInUse, HoldersLock, ImportsInitializing, Unread
<1>. QED BY <1>3, <1>4, <1>5, <1>6 DEF IInv

(* The end of a request that leaves row, logs and cached alone.            *)
LEMMA EndKeeps ==
    ASSUME IInv, NEW r \in Requests, pc[r] # "absent", NEW a \in Ended \cup {"remember"},
           a = "remember" => row' = "in-use",
           End(r, a), UNCHANGED <<row, logs, cached, id, seq, next>>
    PROVE  IInv'
<1>1. StateOK'
  BY DEF IInv, StateOK, End, Pcs
<1>2. WrittenInUse' /\ CacheTrue' /\ ImportBeforeWrites'
  BY DEF IInv, WrittenInUse, CacheTrue, ImportBeforeWrites
<1>3. WritesLockOrInUse' /\ RememberInUse' /\ BulksInUse' /\ HoldersLock' /\ ImportsInitializing'
  BY ConstantsAssumption DEF IInv, StateOK, WritesLockOrInUse, RememberInUse, BulksInUse, HoldersLock,
     ImportsInitializing, End, Locked, Pcs, Ended
<1>. QED BY <1>1, <1>2, <1>3 DEF IInv

(* Every step keeps the invariant.                                         *)
LEMMA NextIInv ==
    ASSUME IInv, [Next]_vars
    PROVE  IInv'
<1>1. ASSUME NEW f \in Facades, Open(f) PROVE IInv'
  <2>1. StateOK'
    BY <1>1 DEF IInv, StateOK, Open
  <2>2. CacheTrue'
    BY <1>1 DEF IInv, StateOK, CacheTrue, Open
  <2>3. WrittenInUse' /\ ImportBeforeWrites' /\ WritesLockOrInUse' /\ RememberInUse'
        /\ BulksInUse' /\ HoldersLock' /\ ImportsInitializing'
    BY <1>1 DEF IInv, Open, WrittenInUse, ImportBeforeWrites, WritesLockOrInUse, RememberInUse, BulksInUse,
       HoldersLock, ImportsInitializing
  <2>. QED BY <2>1, <2>2, <2>3 DEF IInv
<1>2. ASSUME NEW r \in Requests, Begin(r) PROVE IInv'
  <2>1. StateOK'
    BY <1>2, ConstantsAssumption DEF IInv, StateOK, Begin, Pcs
  <2>2. WrittenInUse' /\ CacheTrue' /\ ImportBeforeWrites'
    BY <1>2 DEF IInv, StateOK, Begin, WrittenInUse, CacheTrue, ImportBeforeWrites
  <2>3. WritesLockOrInUse' /\ RememberInUse' /\ BulksInUse' /\ HoldersLock' /\ ImportsInitializing'
    BY <1>2, ConstantsAssumption DEF IInv, StateOK, Begin, CacheTrue,
       WritesLockOrInUse, RememberInUse, BulksInUse, HoldersLock, ImportsInitializing
  <2>. QED BY <2>1, <2>2, <2>3 DEF IInv
<1>3. ASSUME NEW r \in Requests, BeginBulk(r) PROVE IInv'
  <2>1. StateOK'
    BY <1>3 DEF IInv, StateOK, BeginBulk, Pcs
  <2>2. WrittenInUse' /\ CacheTrue' /\ ImportBeforeWrites'
    BY <1>3 DEF IInv, StateOK, BeginBulk, WrittenInUse, CacheTrue, ImportBeforeWrites
  <2>3. WritesLockOrInUse' /\ RememberInUse' /\ BulksInUse' /\ HoldersLock' /\ ImportsInitializing'
    BY <1>3, ConstantsAssumption DEF IInv, StateOK, BeginBulk, CacheTrue,
       WritesLockOrInUse, RememberInUse, BulksInUse, HoldersLock, ImportsInitializing
  <2>. QED BY <2>1, <2>2, <2>3 DEF IInv
<1>4. ASSUME NEW r \in Requests, LockLedger(r) PROVE IInv'
  <2>1. StateOK'
    BY <1>4 DEF IInv, StateOK, LockLedger, Pcs
  <2>2. WrittenInUse' /\ CacheTrue' /\ ImportBeforeWrites'
    BY <1>4 DEF IInv, StateOK, LockLedger, WrittenInUse, CacheTrue, ImportBeforeWrites
  <2>3. WritesLockOrInUse' /\ RememberInUse' /\ BulksInUse' /\ HoldersLock' /\ ImportsInitializing'
    BY <1>4, ConstantsAssumption DEF IInv, StateOK, LockLedger, CacheTrue,
       WritesLockOrInUse, RememberInUse, BulksInUse, HoldersLock, ImportsInitializing
  <2>. QED BY <2>1, <2>2, <2>3 DEF IInv
<1>5. ASSUME NEW r \in Requests, MarkInUse(r) PROVE IInv'
  <2>1. WrittenInUse' /\ CacheTrue' /\ ImportBeforeWrites'
    BY <1>5 DEF IInv, MarkInUse, WrittenInUse, CacheTrue, ImportBeforeWrites
  <2>2. WritesLockOrInUse' /\ RememberInUse' /\ BulksInUse' /\ HoldersLock' /\ ImportsInitializing'
    BY <1>5 DEF IInv, StateOK, MarkInUse, WritesLockOrInUse, RememberInUse, BulksInUse, HoldersLock,
       ImportsInitializing
  <2>3. StateOK'
    BY <1>5, MaxIdType DEF IInv, StateOK, MarkInUse, Pcs
  <2>. QED BY <2>1, <2>2, <2>3 DEF IInv
<1>6. ASSUME NEW r \in Requests, DrawId(r) PROVE IInv'
  <2>1. StateOK'
    BY <1>6 DEF IInv, StateOK, DrawId, Pcs
  <2>2. WrittenInUse' /\ CacheTrue' /\ ImportBeforeWrites'
    BY <1>6 DEF IInv, StateOK, DrawId, WrittenInUse, CacheTrue, ImportBeforeWrites
  <2>3. WritesLockOrInUse' /\ RememberInUse' /\ BulksInUse' /\ HoldersLock' /\ ImportsInitializing'
    BY <1>6, ConstantsAssumption DEF IInv, StateOK, DrawId, CacheTrue,
       WritesLockOrInUse, RememberInUse, BulksInUse, HoldersLock, ImportsInitializing
  <2>. QED BY <2>1, <2>2, <2>3 DEF IInv
<1>7. ASSUME NEW r \in Requests, InsertLog(r) PROVE IInv'
  <2>1. CASE id[r] \in Ids \cup StagedBy(r)
    BY <1>7, <2>1, EndKeeps DEF InsertLog, Ended
  <2>2. CASE id[r] \notin Ids \cup StagedBy(r)
    <3>1. /\ staged' = [staged EXCEPT ![r] = Append(@, id[r])]
          /\ pc' = [pc EXCEPT ![r] =
                 IF Kind[r] = "bulk" /\ Len(staged[r]) + 1 < BulkSize THEN "insert" ELSE "commit"]
          /\ pc[r] = "drawn"
          /\ UNCHANGED <<row, logs, seq, cached, id, lock, next>>
      BY <1>7, <2>2 DEF InsertLog
    <3>2. \E c \in {"insert", "commit"} : pc' = [pc EXCEPT ![r] = c]
      BY <3>1
    <3>3. StateOK'
      BY <3>1, <3>2 DEF IInv, StateOK, Pcs
    <3>4. WrittenInUse' /\ CacheTrue' /\ ImportBeforeWrites'
      BY <3>1 DEF IInv, WrittenInUse, CacheTrue, ImportBeforeWrites
    <3>5. WritesLockOrInUse' /\ RememberInUse' /\ BulksInUse' /\ HoldersLock' /\ ImportsInitializing'
      BY <3>1, <3>2 DEF IInv, StateOK, WritesLockOrInUse, RememberInUse, BulksInUse, HoldersLock,
         ImportsInitializing
    <3>. QED BY <3>3, <3>4, <3>5 DEF IInv
  <2>. QED BY <2>1, <2>2
<1>8. ASSUME NEW r \in Requests, Commit(r) PROVE IInv'
  <2>1. CASE Kind[r] = "dry"
    BY <1>8, <2>1, EndKeeps DEF Commit, Ended
  <2>2. CASE Kind[r] # "dry"
    <3>1. /\ row' = IF lock = r THEN "in-use" ELSE row
          /\ logs' = logs \o Written(staged[r])
          /\ pc[r] = "commit"
          /\ cached' = cached
      BY <1>8, <2>2 DEF Commit, Locked, Written
    <3>2. row' = "in-use"
      BY <3>1 DEF IInv, WritesLockOrInUse
    <3>3. /\ logs' \in Seq(Log)
          /\ \A i \in DOMAIN logs' :
                \/ i \in DOMAIN logs /\ logs'[i] = logs[i]
                \/ i \notin DOMAIN logs /\ i > Len(logs) /\ logs'[i].from = "write"
      <4>1. staged[r] \in Seq(Nat) /\ logs \in Seq(Log)
        BY DEF IInv, StateOK
      <4>2. logs \o Written(staged[r]) = logs'
        BY <3>1
      <4>3. /\ logs \o Written(staged[r]) \in Seq(Log)
            /\ \A i \in DOMAIN (logs \o Written(staged[r])) :
                  \/ i \in DOMAIN logs /\ (logs \o Written(staged[r]))[i] = logs[i]
                  \/ i \notin DOMAIN logs /\ i > Len(logs)
                        /\ (logs \o Written(staged[r]))[i].from = "write"
        BY <4>1, WrittenAppended
      <4>. QED BY <4>2, <4>3, Zenon
    <3>4. StateOK'
      BY <1>8, <3>2, <3>3 DEF IInv, StateOK, Commit, End, Pcs, Ended, States
    <3>5. ImportBeforeWrites'
      <4>. SUFFICES ASSUME NEW i \in DOMAIN logs', NEW j \in DOMAIN logs', i < j,
                           logs'[i].from = "write"
                    PROVE  logs'[j].from = "write"
        BY DEF ImportBeforeWrites
      <4>. DOMAIN logs = 1..Len(logs) /\ DOMAIN logs' = 1..Len(logs') /\ Len(logs) \in Nat
        BY <3>3 DEF IInv, StateOK
      <4>. QED BY <3>3 DEF IInv, ImportBeforeWrites
    <3>6. WrittenInUse' /\ CacheTrue' /\ RememberInUse' /\ WritesLockOrInUse' /\ BulksInUse'
      BY <3>2 DEF WrittenInUse, CacheTrue, RememberInUse, WritesLockOrInUse, BulksInUse
    <3>7. HoldersLock' /\ ImportsInitializing'
      BY <1>8, <3>1 DEF IInv, StateOK, HoldersLock, ImportsInitializing, Commit, End, Locked, Ended
    <3>. QED BY <3>4, <3>5, <3>6, <3>7 DEF IInv
  <2>. QED BY <2>1, <2>2
<1>9. ASSUME NEW r \in Requests, Remember(r) PROVE IInv'
  <2>1. StateOK'
    BY <1>9, ConstantsAssumption DEF IInv, StateOK, Remember, Pcs, Ended, States
  <2>2. WrittenInUse' /\ CacheTrue' /\ ImportBeforeWrites'
    BY <1>9, ConstantsAssumption DEF IInv, StateOK, Remember, WrittenInUse, CacheTrue,
       ImportBeforeWrites, RememberInUse
  <2>3. WritesLockOrInUse' /\ RememberInUse' /\ BulksInUse' /\ HoldersLock' /\ ImportsInitializing'
    BY <1>9, ConstantsAssumption DEF IInv, StateOK, Remember, CacheTrue,
       WritesLockOrInUse, RememberInUse, BulksInUse, HoldersLock, ImportsInitializing, Ended, States
  <2>. QED BY <2>1, <2>2, <2>3 DEF IInv
<1>10. ASSUME NEW r \in Requests, Fail(r) \/ FailImport(r) \/ EndImport(r) PROVE IInv'
  BY <1>10, EndKeeps DEF Fail, FailImport, EndImport, Ended
<1>11. ASSUME NEW r \in Requests, LockImport(r) PROVE IInv'
  <2>1. StateOK'
    BY <1>11 DEF IInv, StateOK, LockImport, Pcs
  <2>2. WrittenInUse' /\ CacheTrue' /\ ImportBeforeWrites'
    BY <1>11 DEF IInv, StateOK, LockImport, WrittenInUse, CacheTrue, ImportBeforeWrites
  <2>3. WritesLockOrInUse' /\ RememberInUse' /\ BulksInUse' /\ HoldersLock' /\ ImportsInitializing'
    BY <1>11, ConstantsAssumption DEF IInv, StateOK, LockImport, CacheTrue,
       WritesLockOrInUse, RememberInUse, BulksInUse, HoldersLock, ImportsInitializing
  <2>. QED BY <2>1, <2>2, <2>3 DEF IInv
<1>12. ASSUME NEW r \in Requests, CheckState(r) PROVE IInv'
  <2>1. StateOK'
    <3>1. cached' \in [Facades -> States \cup {Unread}] /\ UNCHANGED <<row, logs, id, seq, next>>
      BY <1>12, ConstantsAssumption DEF IInv, StateOK, CheckState
    <3>2. CASE row = "initializing"
      BY <1>12, <3>1, <3>2 DEF IInv, StateOK, CheckState, Pcs
    <3>3. CASE row # "initializing"
      <4>1. End(r, "refused")
        BY <1>12, <3>3 DEF CheckState
      <4>. QED BY <3>1, <4>1 DEF IInv, StateOK, End, Pcs, Ended
    <3>. QED BY <3>2, <3>3
  <2>2. WrittenInUse' /\ CacheTrue' /\ ImportBeforeWrites'
    BY <1>12 DEF IInv, StateOK, CheckState, WrittenInUse, CacheTrue, ImportBeforeWrites
  <2>3. WritesLockOrInUse' /\ RememberInUse' /\ BulksInUse' /\ HoldersLock' /\ ImportsInitializing'
    BY <1>12, ConstantsAssumption DEF IInv, StateOK, CheckState, End, Locked, Ended, States,
       WritesLockOrInUse, RememberInUse, BulksInUse, HoldersLock, ImportsInitializing
  <2>. QED BY <2>1, <2>2, <2>3 DEF IInv
<1>13. ASSUME NEW r \in Requests, ReadLast(r) PROVE IInv'
  <2>1. StateOK'
    BY <1>13 DEF IInv, StateOK, ReadLast, Pcs
  <2>2. WrittenInUse' /\ CacheTrue' /\ ImportBeforeWrites'
    BY <1>13 DEF IInv, StateOK, ReadLast, WrittenInUse, CacheTrue, ImportBeforeWrites
  <2>3. WritesLockOrInUse' /\ RememberInUse' /\ BulksInUse' /\ HoldersLock' /\ ImportsInitializing'
    BY <1>13, ConstantsAssumption DEF IInv, StateOK, ReadLast, CacheTrue,
       WritesLockOrInUse, RememberInUse, BulksInUse, HoldersLock, ImportsInitializing
  <2>. QED BY <2>1, <2>2, <2>3 DEF IInv
<1>14. ASSUME NEW r \in Requests, ImportLog(r) PROVE IInv'
  <2>. DEFINE i == Stream[r][next[r]]
              l == [id |-> i, from |-> "import"]
  <2>1. CASE UNCHANGED <<logs, next>> /\ (End(r, "refused") \/ End(r, "failed"))
    BY <1>14, <2>1, EndKeeps DEF ImportLog, Ended
  <2>2. CASE logs' = Append(logs, l) /\ next' = [next EXCEPT ![r] = @ + 1]
            /\ UNCHANGED <<pc, staged, lock>> /\ next[r] <= Len(Stream[r])
    <3>1. pc[r] = "stream" /\ UNCHANGED <<row, cached, id, seq>>
      BY <1>14 DEF ImportLog
    <3>2. row = "initializing"
      BY <3>1 DEF IInv, ImportsInitializing
    <3>3. i \in Nat
      <4>1. next[r] \in 1..Len(Stream[r])
        BY <2>2 DEF IInv, StateOK
      <4>. QED BY <4>1, StreamType
    <3>4. l \in Log
      BY <3>3 DEF Log
    <3>. HIDE DEF l
    <3>5. /\ logs \in Seq(Log) /\ logs' \in Seq(Log)
          /\ DOMAIN logs = 1..Len(logs) /\ DOMAIN logs' = 1..(Len(logs) + 1) /\ Len(logs) \in Nat
          /\ \A k \in DOMAIN logs : logs'[k] = logs[k]
          /\ logs'[Len(logs) + 1] = l
      BY <2>2, <3>4 DEF IInv, StateOK
    <3>6. \A k \in DOMAIN logs' : logs'[k].from # "write"
      <4>1. l.from # "write"
        BY DEF l
      <4>2. \A k \in DOMAIN logs : logs[k].from # "write"
        BY <3>2 DEF IInv, WrittenInUse
      <4>. QED BY <3>5, <4>1, <4>2
    <3>7. StateOK'
      BY <2>2, <3>1, <3>5 DEF IInv, StateOK
    <3>8. WrittenInUse' /\ ImportBeforeWrites'
      BY <3>6 DEF WrittenInUse, ImportBeforeWrites
    <3>9. CacheTrue' /\ WritesLockOrInUse' /\ RememberInUse' /\ BulksInUse' /\ HoldersLock' /\ ImportsInitializing'
      BY <2>2, <3>1 DEF IInv, CacheTrue, WritesLockOrInUse, RememberInUse, BulksInUse, HoldersLock,
         ImportsInitializing
    <3>. QED BY <3>7, <3>8, <3>9 DEF IInv
  <2>. QED BY <1>14, <2>1, <2>2 DEF ImportLog
<1>15. ASSUME NEW r \in Requests, BreakOff(r) PROVE IInv'
  <2>1. StateOK'
    BY <1>15 DEF IInv, StateOK, BreakOff, Pcs
  <2>2. WrittenInUse' /\ CacheTrue' /\ ImportBeforeWrites'
    BY <1>15 DEF IInv, BreakOff, WrittenInUse, CacheTrue, ImportBeforeWrites
  <2>3. WritesLockOrInUse' /\ RememberInUse' /\ BulksInUse' /\ HoldersLock' /\ ImportsInitializing'
    BY <1>15 DEF IInv, StateOK, BreakOff, WritesLockOrInUse, RememberInUse, BulksInUse, HoldersLock,
       ImportsInitializing
  <2>. QED BY <2>1, <2>2, <2>3 DEF IInv
<1>16. CASE UNCHANGED vars
  BY <1>16 DEF vars, IInv, StateOK, WrittenInUse, CacheTrue, WritesLockOrInUse, RememberInUse, BulksInUse,
     HoldersLock, ImportsInitializing, ImportBeforeWrites
<1>. QED
  BY <1>1, <1>2, <1>3, <1>4, <1>5, <1>6, <1>7, <1>8, <1>9, <1>10, <1>11, <1>12, <1>13, <1>14,
     <1>15, <1>16 DEF Next, Step, Finished

(***************************************************************************)
(* With atomic bulks on ledgers in use only, no imported log follows a log *)
(* of a write (handleState and Import of state_tracker.go), for any        *)
(* requests.                                                               *)
(***************************************************************************)
THEOREM ImportsPrecedeWrites ==
    ASSUME BulksOnUsed
    PROVE  Spec => []ImportBeforeWrites
<1>1. Init => IInv
  BY BulksOnUsed, InitIInv
<1>2. IInv /\ [Next]_vars => IInv'
  BY NextIInv
<1>3. IInv => ImportBeforeWrites
  BY DEF IInv
<1>. QED BY <1>1, <1>2, <1>3, PTL DEF Spec

-----------------------------------------------------------------------------
(* The ids of logs: drawn, staged in an open transaction, committed.       *)

(* A request between handleState and the end of its transaction.           *)
Past(r) == pc[r] \in {"insert", "drawn", "commit"}
Held(r) == pc[r] = "drawn" \/ staged[r] # <<>>

StagedPast == \A r \in Requests : staged[r] # <<>> => Past(r)

(* The sequence is past every log of a ledger that is in use, or that a    *)
(* first write is about to put in use; imports fall behind neither.        *)
SeqAhead ==
    row = "in-use" \/ (\E r \in Requests : Past(r)) => \A i \in DOMAIN logs : logs[i].id <= seq

(* An id on its way to the table is below the sequence and not in use.     *)
Fresh(n) == n <= seq /\ \A i \in DOMAIN logs : logs[i].id # n
DrawnFresh == \A r \in Requests : pc[r] = "drawn" => Fresh(id[r])
StagedFresh == \A r \in Requests : \A k \in DOMAIN staged[r] : Fresh(staged[r][k])

(* No two of them are the same.                                            *)
DrawnOnce ==
    \A r, q \in Requests : r # q /\ pc[r] = "drawn" /\ pc[q] = "drawn" => id[r] # id[q]
DrawnNotStaged ==
    \A r, q \in Requests : pc[r] = "drawn" => \A k \in DOMAIN staged[q] : staged[q][k] # id[r]
StagedOnce ==
    \A r, q \in Requests : r # q =>
      \A k \in DOMAIN staged[r] : \A l \in DOMAIN staged[q] : staged[r][k] # staged[q][l]

Numbers ==
    /\ StagedPast /\ SeqAhead
    /\ DrawnFresh /\ StagedFresh /\ DrawnOnce /\ DrawnNotStaged /\ StagedOnce
    /\ DrawnIdsAreFree

(* Hashed as they are inserted, the logs of one transaction at a time are  *)
(* on their way, each above those before it.                               *)
OneHolds == \A r, q \in Requests : Held(r) /\ Held(q) => r = q
Above(n) == \A i \in DOMAIN logs : logs[i].id < n
DrawnAbove ==
    \A r \in Requests : pc[r] = "drawn" =>
      Above(id[r]) /\ \A k \in DOMAIN staged[r] : staged[r][k] < id[r]
StagedAbove == \A r \in Requests : \A k \in DOMAIN staged[r] : Above(staged[r][k])
StagedInOrder ==
    \A r \in Requests : \A k, l \in DOMAIN staged[r] : k < l => staged[r][k] < staged[r][l]
Ordered == sync => OneHolds /\ DrawnAbove /\ StagedAbove /\ StagedInOrder /\ CommitsInOrder

LEMMA InitNumbers == Init => Numbers /\ Ordered
<1>. SUFFICES ASSUME Init PROVE Numbers /\ Ordered
  OBVIOUS
<1>1. PICK m \in Meetings :
        /\ logs = IF m.used THEN <<[id |-> 1, from |-> "write"]>> ELSE <<>>
        /\ row = IF m.used THEN "in-use" ELSE "initializing"
        /\ pc = [r \in Requests |-> IF r \in m.requests THEN "start" ELSE "absent"]
  BY DEF Init
<1>2. \A r \in Requests : pc[r] \in {"start", "absent"} /\ staged[r] = <<>>
  BY <1>1 DEF Init
<1>3. \A r \in Requests : ~Held(r) /\ ~Past(r) /\ DOMAIN staged[r] = {} /\ pc[r] # "taken"
  BY <1>2 DEF Held, Past
<1>4. seq = Len(logs)
  BY DEF Init
<1>5. \A i \in DOMAIN logs : i = 1 /\ logs[i].id <= seq
  BY <1>1, <1>4
<1>6. Numbers
  BY <1>2, <1>3, <1>5 DEF Numbers, StagedPast, SeqAhead, DrawnFresh, StagedFresh, DrawnOnce,
     DrawnNotStaged, StagedOnce, DrawnIdsAreFree
<1>7. CommitsInOrder
  BY <1>5 DEF CommitsInOrder
<1>. QED
  BY <1>2, <1>3, <1>6, <1>7 DEF Ordered, OneHolds, DrawnAbove, StagedAbove, StagedInOrder

(* A request that holds no id after a step, while the others and the table *)
(* stay as they are: the ids still on their way are the others'.           *)
LEMMA HoldsNothing ==
    ASSUME Numbers, Ordered, NEW r \in Requests,
           UNCHANGED <<logs, seq, id, sync, row>>,
           \A q \in Requests : q # r => pc'[q] = pc[q] /\ staged'[q] = staged[q],
           staged'[r] = <<>>, pc'[r] \notin {"drawn", "commit", "taken"},
           pc'[r] = "insert" => row = "in-use"
    PROVE  Numbers' /\ Ordered'
<1>1. DOMAIN staged'[r] = {} /\ ~Held(r)'
  BY DEF Held
<1>2. \A q \in Requests : Held(q)' => q # r /\ Held(q)
  BY <1>1 DEF Held
<1>3. \A q \in Requests : pc'[q] = "drawn" => q # r /\ pc[q] = "drawn"
  OBVIOUS
<1>4. SeqAhead'
  BY DEF Numbers, SeqAhead, Past
<1>5. StagedPast' /\ DrawnIdsAreFree'
  BY DEF Numbers, StagedPast, DrawnIdsAreFree, Past
<1>6. DrawnFresh' /\ StagedFresh' /\ DrawnOnce' /\ DrawnNotStaged' /\ StagedOnce'
  BY <1>1, <1>3 DEF Numbers, DrawnFresh, StagedFresh, DrawnOnce, DrawnNotStaged, StagedOnce, Fresh
<1>7. ASSUME sync
      PROVE  OneHolds' /\ DrawnAbove' /\ StagedAbove' /\ StagedInOrder' /\ CommitsInOrder'
  BY <1>1, <1>2, <1>3, <1>7 DEF Ordered, OneHolds, DrawnAbove, StagedAbove, StagedInOrder,
     CommitsInOrder, Above
<1>. QED BY <1>4, <1>5, <1>6, <1>7 DEF Numbers, Ordered

LEMMA EndNumbers ==
    ASSUME IInv, Numbers, Ordered, NEW r \in Requests, NEW a,
           a \notin {"insert", "drawn", "commit", "taken"},
           End(r, a), UNCHANGED <<logs, seq, id, sync, row>>
    PROVE  Numbers' /\ Ordered'
<1>1. /\ \A q \in Requests : q # r => pc'[q] = pc[q] /\ staged'[q] = staged[q]
      /\ staged'[r] = <<>> /\ pc'[r] = a
  BY DEF IInv, StateOK, End
<1>. QED BY <1>1, HoldsNothing

(* A step of a request that has drawn nothing yet.                         *)
LEMMA MoveNumbers ==
    ASSUME IInv, Numbers, Ordered, NEW r \in Requests, NEW a, ~Past(r),
           pc' = [pc EXCEPT ![r] = a],
           a \notin {"drawn", "commit", "taken"}, a = "insert" => row = "in-use",
           UNCHANGED <<logs, seq, id, sync, row, staged>>
    PROVE  Numbers' /\ Ordered'
<1>1. /\ \A q \in Requests : q # r => pc'[q] = pc[q] /\ staged'[q] = staged[q]
      /\ pc'[r] = a
  BY DEF IInv, StateOK
<1>2. staged[r] = <<>>
  BY DEF Numbers, StagedPast
<1>. QED BY <1>1, <1>2, HoldsNothing

(* While the ledger is initializing, only the holder of the lock is past   *)
(* handleState.                                                            *)
LEMMA NobodyPast ==
    ASSUME IInv, NEW r \in Requests, lock = r, ~Past(r), row = "initializing"
    PROVE  \A q \in Requests : ~Past(q)
  BY DEF IInv, WritesLockOrInUse, Past

LEMMA MarkNumbers ==
    ASSUME IInv, Numbers, Ordered, NEW r \in Requests, MarkInUse(r)
    PROVE  Numbers' /\ Ordered'
<1>1. /\ \A q \in Requests : q # r => pc'[q] = pc[q]
      /\ pc'[r] = "insert" /\ pc[r] = "mark" /\ ~Past(r)
      /\ UNCHANGED <<logs, id, sync, row, staged>>
      /\ lock = r
  BY DEF IInv, StateOK, MarkInUse, HoldersLock, Past
<1>2. CASE row = "in-use"
  BY <1>1, <1>2, MoveNumbers DEF MarkInUse
<1>3. CASE row = "initializing"
  <2>1. \A q \in Requests : ~Past(q)
    BY <1>1, <1>3, NobodyPast
  <2>2. \A q \in Requests : staged'[q] = <<>> /\ pc'[q] # "drawn" /\ DOMAIN staged'[q] = {}
    BY <1>1, <2>1 DEF Numbers, StagedPast, Past
  <2>3. \A i \in DOMAIN logs' : logs'[i].id <= seq'
    <3>1. CASE logs = <<>>
      BY <1>1, <3>1
    <3>2. CASE logs # <<>>
      <4>1. seq' = MaxId
        BY <1>3, <3>2 DEF MarkInUse
      <4>2. \A x \in Ids : x <= MaxId
        BY MaxIdType DEF IInv, StateOK
      <4>. QED BY <1>1, <4>1, <4>2 DEF Ids
    <3>. QED BY <3>1, <3>2
  <2>4. DrawnIdsAreFree'
    BY <1>1 DEF Numbers, DrawnIdsAreFree
  <2>5. Numbers'
    BY <2>2, <2>3, <2>4 DEF Numbers, StagedPast, SeqAhead, DrawnFresh, StagedFresh, DrawnOnce,
       DrawnNotStaged, StagedOnce
  <2>6. \A q \in Requests : ~Held(q)'
    BY <2>2 DEF Held
  <2>. QED
    BY <1>1, <2>2, <2>5, <2>6 DEF Ordered, OneHolds, DrawnAbove, StagedAbove, StagedInOrder,
       CommitsInOrder
<1>. QED BY <1>2, <1>3 DEF IInv, StateOK, States

LEMMA DrawNumbers ==
    ASSUME IInv, Numbers, Ordered, NEW r \in Requests, DrawId(r)
    PROVE  Numbers' /\ Ordered'
<1>1. /\ \A q \in Requests : q # r => pc'[q] = pc[q] /\ id'[q] = id[q]
      /\ pc'[r] = "drawn" /\ pc[r] = "insert" /\ id'[r] = seq + 1 /\ seq' = seq + 1
      /\ UNCHANGED <<logs, sync, row, staged>>
      /\ sync => \A q \in Requests : q # r => ~Held(q)
  BY DEF IInv, StateOK, DrawId, MayInsert, Others, Held
<1>2. seq \in Nat /\ \A q \in Requests : id[q] \in Nat
  BY DEF IInv, StateOK
<1>3. \A i \in DOMAIN logs : logs[i].id \in Nat /\ logs[i].id <= seq
  <2>1. \A i \in DOMAIN logs : logs[i] \in Log
    BY DEF IInv, StateOK
  <2>2. \A i \in DOMAIN logs : logs[i].id <= seq
    BY <1>1 DEF Numbers, SeqAhead, Past
  <2>. QED BY <2>1, <2>2 DEF Log
<1>4. \A q \in Requests : \A k \in DOMAIN staged[q] : staged[q][k] \in Nat /\ staged[q][k] <= seq
  <2>1. \A q \in Requests : staged[q] \in Seq(Nat)
    BY DEF IInv, StateOK
  <2>. QED BY <2>1 DEF Numbers, StagedFresh, Fresh
<1>5. StagedPast' /\ DrawnIdsAreFree' /\ StagedOnce'
  BY <1>1 DEF Numbers, StagedPast, DrawnIdsAreFree, StagedOnce, Past
<1>6. SeqAhead' /\ DrawnFresh' /\ StagedFresh'
  BY <1>1, <1>2, <1>3, <1>4 DEF Numbers, SeqAhead, DrawnFresh, StagedFresh, Fresh
<1>7. DrawnOnce' /\ DrawnNotStaged'
  BY <1>1, <1>2, <1>4 DEF Numbers, DrawnOnce, DrawnNotStaged, DrawnFresh, Fresh
<1>8. ASSUME sync
      PROVE  OneHolds' /\ DrawnAbove' /\ StagedAbove' /\ StagedInOrder' /\ CommitsInOrder'
  <2>1. \A q \in Requests : Held(q)' => q = r
    BY <1>1, <1>8 DEF Held
  <2>2. DrawnAbove'
    BY <1>1, <1>2, <1>3, <1>4, <1>8 DEF Ordered, DrawnAbove, Above
  <2>3. StagedAbove' /\ StagedInOrder' /\ CommitsInOrder'
    BY <1>1, <1>8 DEF Ordered, StagedAbove, StagedInOrder, CommitsInOrder, Above
  <2>. QED BY <2>1, <2>2, <2>3 DEF OneHolds
<1>. QED BY <1>1, <1>5, <1>6, <1>7, <1>8 DEF Numbers, Ordered

(* What one more id does to the staged ones.                               *)
LEMMA StagedMore ==
    ASSUME NEW s \in Seq(Nat), NEW n \in Nat
    PROVE  /\ DOMAIN Append(s, n) = 1..(Len(s) + 1) /\ DOMAIN s = 1..Len(s) /\ Len(s) \in Nat
           /\ Append(s, n) # <<>>
           /\ \A k \in DOMAIN s : k \in DOMAIN Append(s, n) /\ Append(s, n)[k] = s[k]
           /\ \A k \in DOMAIN Append(s, n) : k \in DOMAIN s \/ (k = Len(s) + 1 /\ Append(s, n)[k] = n)
<1>1. DOMAIN Append(s, n) = 1..(Len(s) + 1) /\ DOMAIN s = 1..Len(s) /\ Len(s) \in Nat
  OBVIOUS
<1>2. \A k \in DOMAIN s : Append(s, n)[k] = s[k]
  OBVIOUS
<1>3. Append(s, n)[Len(s) + 1] = n /\ Append(s, n) # <<>>
  OBVIOUS
<1>4. \A k \in 1..(Len(s) + 1) : k \in 1..Len(s) \/ k = Len(s) + 1
  BY <1>1
<1>5. \A k \in 1..Len(s) : k \in 1..(Len(s) + 1)
  BY <1>1
<1>. QED BY <1>1, <1>2, <1>3, <1>4, <1>5

LEMMA InsertNumbers ==
    ASSUME IInv, Numbers, Ordered, NEW r \in Requests, InsertLog(r)
    PROVE  Numbers' /\ Ordered'
<1>1. pc[r] = "drawn" /\ UNCHANGED <<row, sync, logs, seq, id>>
  BY DEF InsertLog
<1>2. id[r] \notin Ids \cup StagedBy(r)
  BY <1>1 DEF Numbers, DrawnFresh, Fresh, DrawnNotStaged, Ids, StagedBy
<1>3. /\ \A q \in Requests : q # r => pc'[q] = pc[q] /\ staged'[q] = staged[q]
      /\ pc'[r] \in {"insert", "commit"}
      /\ staged'[r] = Append(staged[r], id[r])
  BY <1>2 DEF InsertLog, IInv, StateOK
<1>. DEFINE s == staged[r]
            n == id[r]
<1>4. s \in Seq(Nat) /\ n \in Nat
  BY DEF IInv, StateOK
<1>5. /\ DOMAIN staged'[r] = 1..(Len(s) + 1) /\ DOMAIN s = 1..Len(s) /\ Len(s) \in Nat
      /\ staged'[r] # <<>>
      /\ \A k \in DOMAIN s : staged'[r][k] = s[k]
      /\ \A k \in DOMAIN staged'[r] : k \in DOMAIN s \/ (k = Len(s) + 1 /\ staged'[r][k] = n)
  <2>. HIDE DEF s, n
  <2>. QED BY <1>3, <1>4, StagedMore DEF s, n
<1>6. \A q \in Requests : \A k \in DOMAIN staged'[q] :
        \/ k \in DOMAIN staged[q] /\ staged'[q][k] = staged[q][k]
        \/ q = r /\ staged'[q][k] = id[r]
  BY <1>3, <1>5
<1>7. StagedPast' /\ DrawnIdsAreFree' /\ SeqAhead'
  BY <1>1, <1>3 DEF Numbers, StagedPast, DrawnIdsAreFree, SeqAhead, Past
<1>8. DrawnFresh' /\ DrawnOnce'
  BY <1>1, <1>3 DEF Numbers, DrawnFresh, DrawnOnce, Fresh
<1>9. StagedFresh'
  <2>1. Fresh(id[r]) /\ \A q \in Requests : \A k \in DOMAIN staged[q] : Fresh(staged[q][k])
    BY <1>1 DEF Numbers, DrawnFresh, StagedFresh
  <2>. QED BY <1>1, <1>6, <2>1 DEF StagedFresh, Fresh
<1>10. DrawnNotStaged'
  <2>. SUFFICES ASSUME NEW p \in Requests, NEW q \in Requests, pc'[p] = "drawn",
                       NEW k \in DOMAIN staged'[q]
                PROVE  staged'[q][k] # id[p]
    BY <1>1 DEF DrawnNotStaged
  <2>1. p # r /\ pc[p] = "drawn"
    BY <1>3
  <2>. QED BY <1>1, <1>6, <2>1 DEF Numbers, DrawnNotStaged, DrawnOnce
<1>11. StagedOnce'
  <2>. SUFFICES ASSUME NEW p \in Requests, NEW q \in Requests, p # q,
                       NEW k \in DOMAIN staged'[p], NEW l \in DOMAIN staged'[q]
                PROVE  staged'[p][k] # staged'[q][l]
    BY DEF StagedOnce
  <2>. QED BY <1>1, <1>6 DEF Numbers, StagedOnce, DrawnNotStaged
<1>12. ASSUME sync
       PROVE  OneHolds' /\ DrawnAbove' /\ StagedAbove' /\ StagedInOrder' /\ CommitsInOrder'
  <2>1. \A q \in Requests : Held(q)' => Held(q)
    BY <1>1, <1>3 DEF Held
  <2>2. OneHolds'
    BY <1>12, <2>1 DEF Ordered, OneHolds
  <2>3. \A q \in Requests : pc'[q] = "drawn" => FALSE
    BY <1>1, <1>3, <1>12 DEF Ordered, OneHolds, Held
  <2>4. Above(id[r]) /\ \A q \in Requests : \A k \in DOMAIN staged[q] : Above(staged[q][k])
    BY <1>1, <1>12 DEF Ordered, DrawnAbove, StagedAbove
  <2>5. StagedAbove'
    BY <1>1, <1>6, <2>4 DEF StagedAbove, Above
  <2>6. \A k \in DOMAIN staged[r] : staged[r][k] < id[r]
    BY <1>1, <1>12 DEF Ordered, DrawnAbove
  <2>7. \A k, l \in DOMAIN staged'[r] : k < l => staged'[r][k] < staged'[r][l]
    <3>. SUFFICES ASSUME NEW k \in DOMAIN staged'[r], NEW l \in DOMAIN staged'[r], k < l
                  PROVE  staged'[r][k] < staged'[r][l]
      OBVIOUS
    <3>1. k \in DOMAIN s
      BY <1>5
    <3>2. CASE l \in DOMAIN s
      BY <1>5, <1>12, <3>1, <3>2 DEF Ordered, StagedInOrder
    <3>3. CASE staged'[r][l] = n
      BY <1>5, <2>6, <3>1, <3>3
    <3>. QED BY <1>5, <3>2, <3>3
  <2>8. StagedInOrder'
    BY <1>3, <1>12, <2>7 DEF Ordered, StagedInOrder
  <2>9. CommitsInOrder'
    BY <1>1, <1>12 DEF Ordered, CommitsInOrder
  <2>. QED BY <2>2, <2>3, <2>5, <2>8, <2>9 DEF DrawnAbove
<1>. QED BY <1>1, <1>7, <1>8, <1>9, <1>10, <1>11, <1>12 DEF Numbers, Ordered

LEMMA CommitNumbers ==
    ASSUME IInv, Numbers, Ordered, NEW r \in Requests, Commit(r)
    PROVE  Numbers' /\ Ordered'
<1>1. CASE Kind[r] = "dry"
  BY <1>1, EndNumbers DEF Commit
<1>2. CASE Kind[r] # "dry"
  <2>1. /\ \A q \in Requests : q # r => pc'[q] = pc[q] /\ staged'[q] = staged[q]
        /\ staged'[r] = <<>> /\ pc'[r] \in {"remember", "ok"}
        /\ pc[r] = "commit" /\ logs' = logs \o Written(staged[r])
        /\ UNCHANGED <<seq, id, sync>>
    BY <1>2 DEF Commit, End, IInv, StateOK, Written
  <2>2. staged[r] \in Seq(Nat) /\ logs \in Seq(Log)
    BY DEF IInv, StateOK
  <2>3. /\ logs' \in Seq(Log)
        /\ \A i \in DOMAIN logs' :
             \/ i \in DOMAIN logs /\ logs'[i] = logs[i]
             \/ /\ i \notin DOMAIN logs /\ i > Len(logs) /\ i - Len(logs) \in DOMAIN staged[r]
                /\ logs'[i].id = staged[r][i - Len(logs)]
    <3>1. logs \o Written(staged[r]) = logs'
      BY <2>1
    <3>2. /\ logs \o Written(staged[r]) \in Seq(Log)
          /\ \A i \in DOMAIN (logs \o Written(staged[r])) :
               \/ i \in DOMAIN logs /\ (logs \o Written(staged[r]))[i] = logs[i]
               \/ /\ i \notin DOMAIN logs /\ i > Len(logs)
                        /\ (logs \o Written(staged[r]))[i].from = "write"
                  /\ i - Len(logs) \in DOMAIN staged[r]
                  /\ (logs \o Written(staged[r]))[i].id = staged[r][i - Len(logs)]
      BY <2>2, WrittenAppended
    <3>. QED BY <3>1, <3>2, Zenon
  <2>4. \A i \in DOMAIN logs' :
          \/ i \in DOMAIN logs /\ logs'[i].id = logs[i].id
          \/ \E k \in DOMAIN staged[r] : logs'[i].id = staged[r][k]
    BY <2>3
  <2>5. \A q \in Requests : pc'[q] = "drawn" => q # r /\ pc[q] = "drawn"
    BY <2>1
  <2>6. DOMAIN staged'[r] = {} /\ ~Held(r)'
    BY <2>1 DEF Held
  <2>7. SeqAhead'
    <3>1. \A i \in DOMAIN logs : logs[i].id <= seq
      BY <2>1 DEF Numbers, SeqAhead, Past
    <3>2. \A k \in DOMAIN staged[r] : staged[r][k] <= seq
      BY DEF Numbers, StagedFresh, Fresh
    <3>. QED BY <2>1, <2>4, <3>1, <3>2 DEF SeqAhead
  <2>8. DrawnFresh'
    <3>. SUFFICES ASSUME NEW q \in Requests, pc'[q] = "drawn" PROVE Fresh(id[q])'
      BY <2>1 DEF DrawnFresh
    <3>1. pc[q] = "drawn" /\ Fresh(id[q])
      BY <2>5 DEF Numbers, DrawnFresh
    <3>2. \A k \in DOMAIN staged[r] : staged[r][k] # id[q]
      BY <3>1 DEF Numbers, DrawnNotStaged
    <3>. QED BY <2>1, <2>4, <3>1, <3>2 DEF Fresh
  <2>9. StagedFresh'
    <3>. SUFFICES ASSUME NEW q \in Requests, NEW k \in DOMAIN staged'[q] PROVE Fresh(staged[q][k])'
      BY DEF StagedFresh
    <3>1. q # r /\ staged'[q] = staged[q]
      BY <2>1, <2>6
    <3>2. Fresh(staged[q][k])
      BY <3>1 DEF Numbers, StagedFresh
    <3>3. \A l \in DOMAIN staged[r] : staged[r][l] # staged[q][k]
      BY <3>1 DEF Numbers, StagedOnce
    <3>. QED BY <2>1, <2>4, <3>1, <3>2, <3>3 DEF Fresh
  <2>10. DrawnOnce' /\ DrawnNotStaged' /\ StagedOnce' /\ StagedPast' /\ DrawnIdsAreFree'
    BY <2>1, <2>5, <2>6 DEF Numbers, DrawnOnce, DrawnNotStaged, StagedOnce, StagedPast,
       DrawnIdsAreFree, Past
  <2>11. ASSUME sync
         PROVE  OneHolds' /\ DrawnAbove' /\ StagedAbove' /\ StagedInOrder' /\ CommitsInOrder'
    <3>1. OneHolds' /\ StagedInOrder'
      BY <2>1, <2>6, <2>11 DEF Ordered, OneHolds, StagedInOrder, Held
    <3>2. CASE staged[r] = <<>>
      <4>1. \A i \in DOMAIN logs' : i \in DOMAIN logs /\ logs'[i] = logs[i]
        BY <2>3, <3>2
      <4>2. DrawnAbove'
        BY <2>1, <2>5, <2>11, <4>1 DEF Ordered, DrawnAbove, Above
      <4>3. StagedAbove' /\ CommitsInOrder'
        BY <2>1, <2>6, <2>11, <4>1 DEF Ordered, StagedAbove, CommitsInOrder, Above
      <4>. QED BY <3>1, <4>2, <4>3
    <3>3. CASE staged[r] # <<>>
      <4>1. \A q \in Requests : ~Held(q)'
        BY <2>1, <2>6, <2>11, <3>3 DEF Ordered, OneHolds, Held
      <4>2. \A q \in Requests : pc'[q] # "drawn" /\ DOMAIN staged'[q] = {}
        BY <4>1 DEF Held
      <4>3. DrawnAbove' /\ StagedAbove'
        BY <4>2 DEF DrawnAbove, StagedAbove
      <4>4. CommitsInOrder'
        <5>. SUFFICES ASSUME NEW i \in DOMAIN logs', NEW j \in DOMAIN logs', i < j
                      PROVE  logs'[i].id < logs'[j].id
          BY DEF CommitsInOrder
        <5>1. DOMAIN logs = 1..Len(logs) /\ Len(logs) \in Nat /\ i \in Nat /\ j \in Nat
          BY <2>2, <2>3
        <5>2. CASE j \in DOMAIN logs
          <6>1. i \in DOMAIN logs /\ logs'[i] = logs[i] /\ logs'[j] = logs[j]
            BY <2>3, <5>1, <5>2
          <6>2. CommitsInOrder
            BY <2>11 DEF Ordered
          <6>3. logs[i].id < logs[j].id
            BY <2>11, <5>2, <6>1, <6>2 DEF CommitsInOrder
          <6>. QED BY <6>1, <6>3
        <5>3. CASE i \in DOMAIN logs /\ j \notin DOMAIN logs
          BY <2>3, <2>11, <5>3 DEF Ordered, StagedAbove, Above
        <5>4. CASE i \notin DOMAIN logs
          <6>1. j \notin DOMAIN logs /\ i - Len(logs) < j - Len(logs)
            BY <2>3, <5>1, <5>4
          <6>. QED BY <2>3, <2>11, <5>4, <6>1 DEF Ordered, StagedInOrder
        <5>. QED BY <5>2, <5>3, <5>4
      <4>. QED BY <3>1, <4>3, <4>4
    <3>. QED BY <3>2, <3>3
  <2>. QED BY <2>1, <2>7, <2>8, <2>9, <2>10, <2>11 DEF Numbers, Ordered
<1>. QED BY <1>1, <1>2

LEMMA ImportNumbers ==
    ASSUME IInv, Numbers, Ordered, NEW r \in Requests, ImportLog(r)
    PROVE  Numbers' /\ Ordered'
<1>. DEFINE i == Stream[r][next[r]]
            l == [id |-> i, from |-> "import"]
<1>1. pc[r] = "stream" /\ next[r] <= Len(Stream[r]) /\ UNCHANGED <<row, sync, seq, id>>
  BY DEF ImportLog
<1>2. CASE UNCHANGED logs /\ (End(r, "refused") \/ End(r, "failed"))
  BY <1>1, <1>2, EndNumbers
<1>3. CASE /\ logs' = Append(logs, l) /\ UNCHANGED <<pc, staged>>
           /\ sync => HashMatches(i)
  <2>1. row = "initializing" /\ lock = r /\ ~Past(r)
    BY <1>1 DEF IInv, ImportsInitializing, HoldersLock, Past
  <2>2. \A q \in Requests : ~Past(q)
    BY <2>1, NobodyPast
  <2>3. \A q \in Requests : staged'[q] = <<>> /\ pc'[q] # "drawn" /\ DOMAIN staged'[q] = {} /\ ~Past(q)'
    BY <1>3, <2>2 DEF Numbers, StagedPast, Past
  <2>4. DrawnIdsAreFree'
    BY <1>3 DEF Numbers, DrawnIdsAreFree
  <2>5. Numbers'
    BY <1>1, <2>1, <2>3, <2>4 DEF Numbers, StagedPast, SeqAhead, DrawnFresh, StagedFresh,
       DrawnOnce, DrawnNotStaged, StagedOnce
  <2>6. \A q \in Requests : ~Held(q)'
    BY <2>3 DEF Held
  <2>7. ASSUME sync PROVE CommitsInOrder'
    <3>1. i \in Nat \ {0}
      <4>1. next[r] \in 1..Len(Stream[r])
        BY <1>1 DEF IInv, StateOK
      <4>. QED BY <4>1, StreamType
    <3>2. l \in Log /\ l.id = i
      BY <3>1 DEF Log
    <3>3. \A k \in DOMAIN logs : logs[k].id \in Nat
      <4>1. \A k \in DOMAIN logs : logs[k] \in Log
        BY DEF IInv, StateOK
      <4>. QED BY <4>1 DEF Log
    <3>4. \A k \in DOMAIN logs : logs[k].id < i
      <4>. SUFFICES ASSUME NEW k \in DOMAIN logs PROVE logs[k].id < i
        OBVIOUS
      <4>1. logs \in Seq(Log) /\ logs # <<>>
        BY DEF IInv, StateOK
      <4>2. MaxId < i
        <5>. HIDE DEF i
        <5>. QED BY <1>3, <2>7, <4>1 DEF HashMatches
      <4>3. MaxId \in Nat /\ logs[k].id <= MaxId
        BY <4>1, MaxIdType DEF Ids
      <4>. QED BY <3>1, <3>3, <4>2, <4>3
    <3>. HIDE DEF i, l
    <3>5. /\ DOMAIN logs = 1..Len(logs) /\ DOMAIN logs' = 1..(Len(logs) + 1) /\ Len(logs) \in Nat
          /\ \A k \in DOMAIN logs : logs'[k] = logs[k]
          /\ logs'[Len(logs) + 1] = l
      BY <1>3, <3>2 DEF IInv, StateOK
    <3>. SUFFICES ASSUME NEW a \in DOMAIN logs', NEW b \in DOMAIN logs', a < b
                  PROVE  logs'[a].id < logs'[b].id
      BY DEF CommitsInOrder
    <3>6. CASE b \in DOMAIN logs
      BY <2>7, <3>5, <3>6 DEF Ordered, CommitsInOrder
    <3>7. CASE b = Len(logs) + 1
      BY <3>2, <3>4, <3>5, <3>7
    <3>. QED BY <3>5, <3>6, <3>7
  <2>. QED
    BY <1>1, <2>3, <2>5, <2>6, <2>7 DEF Ordered, OneHolds, DrawnAbove, StagedAbove, StagedInOrder
<1>. QED BY <1>2, <1>3 DEF ImportLog

LEMMA NextNumbers ==
    ASSUME IInv, Numbers, Ordered, [Next]_vars
    PROVE  Numbers' /\ Ordered'
<1>1. CASE UNCHANGED vars
  BY <1>1 DEF vars, Numbers, StagedPast, SeqAhead, DrawnFresh, StagedFresh, DrawnOnce,
     DrawnNotStaged, StagedOnce, DrawnIdsAreFree, Ordered, OneHolds, DrawnAbove, StagedAbove,
     StagedInOrder, CommitsInOrder, Past, Held, Fresh, Above
<1>2. ASSUME NEW f \in Facades, Open(f) PROVE Numbers' /\ Ordered'
  <2>1. UNCHANGED <<row, sync, logs, seq, pc, id, staged>>
    BY <1>2 DEF Open
  <2>. QED
    BY <2>1 DEF Numbers, StagedPast, SeqAhead, DrawnFresh, StagedFresh, DrawnOnce,
       DrawnNotStaged, StagedOnce, DrawnIdsAreFree, Ordered, OneHolds, DrawnAbove, StagedAbove,
       StagedInOrder, CommitsInOrder, Past, Held, Fresh, Above
<1>3. ASSUME NEW r \in Requests, Begin(r) PROVE Numbers' /\ Ordered'
  <2>1. CASE cached[Facade[r]] = "in-use"
    <3>1. row = "in-use"
      BY <2>1, ConstantsAssumption DEF IInv, CacheTrue
    <3>. QED BY <1>3, <2>1, <3>1, MoveNumbers DEF Begin, Past
  <2>2. CASE cached[Facade[r]] # "in-use"
    BY <1>3, <2>2, MoveNumbers DEF Begin, Past
  <2>. QED BY <2>1, <2>2
<1>4. ASSUME NEW r \in Requests, BeginBulk(r) PROVE Numbers' /\ Ordered'
  <2>1. row = "in-use"
    BY <1>4 DEF IInv, BulksInUse, BeginBulk
  <2>. QED BY <1>4, <2>1, MoveNumbers DEF BeginBulk, Past
<1>5. ASSUME NEW r \in Requests, LockLedger(r) \/ LockImport(r) PROVE Numbers' /\ Ordered'
  BY <1>5, MoveNumbers DEF LockLedger, LockImport, Past
<1>6. ASSUME NEW r \in Requests, Remember(r) \/ ReadLast(r) \/ BreakOff(r)
      PROVE  Numbers' /\ Ordered'
  BY <1>6, MoveNumbers DEF Remember, ReadLast, BreakOff, Past
<1>7. ASSUME NEW r \in Requests, CheckState(r) PROVE Numbers' /\ Ordered'
  <2>1. CASE row = "initializing"
    BY <1>7, <2>1, MoveNumbers DEF CheckState, Past
  <2>2. CASE row # "initializing"
    BY <1>7, <2>2, EndNumbers DEF CheckState
  <2>. QED BY <2>1, <2>2
<1>8. ASSUME NEW r \in Requests, Fail(r) \/ FailImport(r) \/ EndImport(r)
      PROVE  Numbers' /\ Ordered'
  BY <1>8, EndNumbers DEF Fail, FailImport, EndImport
<1>. QED
  BY <1>1, <1>2, <1>3, <1>4, <1>5, <1>6, <1>7, <1>8, MarkNumbers, DrawNumbers, InsertNumbers,
     CommitNumbers, ImportNumbers DEF Next, Step, Finished

(* The invariant of the ids, along with that of the states.                *)
LEMMA IdsInvariant ==
    ASSUME BulksOnUsed
    PROVE  Spec => [](IInv /\ Numbers /\ Ordered)
<1>. DEFINE Inv == IInv /\ Numbers /\ Ordered
<1>1. Init => Inv
  BY BulksOnUsed, InitIInv, InitNumbers
<1>2. Inv /\ [Next]_vars => Inv'
  BY NextIInv, NextNumbers
<1>. QED BY <1>1, <1>2, PTL DEF Spec

(***************************************************************************)
(* With atomic bulks on ledgers in use only, no request ever draws an id   *)
(* that a log already has, for any requests and any imported ids: the      *)
(* setval of the first write is enough, and is never undone.               *)
(***************************************************************************)
THEOREM DrawnIdsStayFree ==
    ASSUME BulksOnUsed
    PROVE  Spec => []DrawnIdsAreFree
<1>1. IInv /\ Numbers /\ Ordered => DrawnIdsAreFree
  BY DEF Numbers
<1>. QED BY <1>1, BulksOnUsed, IdsInvariant, PTL

(***************************************************************************)
(* Under the same hypothesis, when logs are hashed synchronously they are  *)
(* committed in the order of their ids, imported ones and those of bulks   *)
(* of any size included.                                                   *)
(***************************************************************************)
THEOREM LogsCommitInOrder ==
    ASSUME BulksOnUsed
    PROVE  Spec => []CommitsInOrder
<1>1. IInv /\ Numbers /\ Ordered => CommitsInOrder
  BY DEF Ordered, CommitsInOrder
<1>. QED BY <1>1, BulksOnUsed, IdsInvariant, PTL

-----------------------------------------------------------------------------
(* Events need no hypothesis: where each request is, and what it asked.    *)
EventsOK ==
    /\ pc \in [Requests -> Pcs]
    /\ events \subseteq Requests
    /\ EventsAreCommitted

LEMMA NextEvents ==
    ASSUME EventsOK, [Next]_vars
    PROVE  EventsOK'
<1>1. CASE UNCHANGED <<pc, events>>
  BY <1>1 DEF EventsOK, EventsAreCommitted
<1>2. ASSUME NEW r \in Requests, NEW a \in Pcs, pc' = [pc EXCEPT ![r] = a], pc[r] # "ok",
             events' \subseteq events \cup {r},
             r \in events' /\ Kind[r] = "bulk" => a = "ok" \/ r \in events
      PROVE  EventsOK'
  <2>1. /\ pc' \in [Requests -> Pcs] /\ pc'[r] = a
        /\ \A q \in Requests : q # r => pc'[q] = pc[q]
    BY <1>2 DEF EventsOK
  <2>2. \A q \in events' : Kind[q] = "bulk" => pc'[q] = "ok"
    BY <1>2, <2>1 DEF EventsOK, EventsAreCommitted
  <2>. QED BY <1>2, <2>1, <2>2 DEF EventsOK, EventsAreCommitted
<1>3. ASSUME NEW r \in Requests,
             \/ Begin(r) \/ BeginBulk(r) \/ LockLedger(r) \/ MarkInUse(r) \/ DrawId(r)
             \/ Remember(r) \/ LockImport(r) \/ ReadLast(r) \/ BreakOff(r)
      PROVE  EventsOK'
  <2>1. \E a \in Pcs : pc' = [pc EXCEPT ![r] = a] /\ pc[r] # "ok" /\ events' = events
    BY <1>3 DEF Begin, BeginBulk, LockLedger, MarkInUse, DrawId, Remember, LockImport, ReadLast,
       BreakOff, Pcs, Ended
  <2>. QED BY <1>2, <2>1
<1>4. ASSUME NEW r \in Requests,
             CheckState(r) \/ EndImport(r) \/ Fail(r) \/ FailImport(r) \/ ImportLog(r)
      PROVE  EventsOK'
  <2>1. \/ UNCHANGED <<pc, events>>
        \/ \E a \in Pcs : pc' = [pc EXCEPT ![r] = a] /\ pc[r] # "ok" /\ events' = events
    BY <1>4 DEF CheckState, EndImport, Fail, FailImport, ImportLog, End, Pcs, Ended
  <2>. QED BY <1>1, <1>2, <2>1
<1>5. ASSUME NEW r \in Requests, InsertLog(r) PROVE EventsOK'
  <2>1. \E a \in Pcs : pc' = [pc EXCEPT ![r] = a]
    BY <1>5 DEF InsertLog, End, Pcs, Ended
  <2>2. events' = events \/ (events' = events \cup {r} /\ Kind[r] = "write")
    BY <1>5 DEF InsertLog
  <2>. QED BY <1>2, <1>5, <2>1, <2>2 DEF InsertLog
<1>6. ASSUME NEW r \in Requests, Commit(r) PROVE EventsOK'
  <2>1. \E a \in Pcs : pc' = [pc EXCEPT ![r] = a] /\ (Kind[r] = "bulk" => a = "ok")
    BY <1>6 DEF Commit, End, Pcs, Ended
  <2>2. events' = events \/ events' = events \cup {r}
    BY <1>6 DEF Commit
  <2>. QED BY <1>2, <1>6, <2>1, <2>2 DEF Commit
<1>7. ASSUME NEW f \in Facades, Open(f) PROVE EventsOK'
  BY <1>1, <1>7 DEF Open
<1>8. CASE UNCHANGED vars
  BY <1>1, <1>8 DEF vars
<1>. QED BY <1>3, <1>4, <1>5, <1>6, <1>7, <1>8 DEF Next, Step, Finished

(***************************************************************************)
(* For any requests on any ledger: an event of an atomic bulk has been     *)
(* published only when the bulk has committed.                             *)
(***************************************************************************)
THEOREM BulkEventsAreCommitted == Spec => []EventsAreCommitted
<1>1. Init => EventsOK
  <2>. SUFFICES ASSUME Init PROVE EventsOK
    OBVIOUS
  <2>1. pc \in [Requests -> Pcs]
    BY DEF Init, Pcs, Ended
  <2>. QED BY <2>1 DEF Init, EventsOK, EventsAreCommitted
<1>2. EventsOK => EventsAreCommitted
  BY DEF EventsOK
<1>. QED BY <1>1, <1>2, NextEvents, PTL DEF Spec
===============================================================================
