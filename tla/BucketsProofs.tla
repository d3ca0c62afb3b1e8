---------------------------- MODULE BucketsProofs -----------------------------
(***************************************************************************)
(* For any ledgers, buckets, requests and runners: every row has its       *)
(* schema, and the blocks of every ledger are one chain.                   *)
(***************************************************************************)
EXTENDS Buckets, Integers, WellFoundedInduction, TLAPS

(* Rows of logs_blocks, requests and runs. *)
Block == [l : Ledgers, id : Nat \ {0}, previous : Nat, from : Nat, to : Nat, logs : SUBSET Nat]
Entry == [pc : {"idle", "uninitialized", "initialized", "inserted", "tallied", "created",
                "got", "counted", "open", "answered"},
          l : Ledgers \union {"none"}, p : Processes \union {"none"},
          alone : BOOLEAN, seen : SUBSET Ledgers]
Run == [pc : {"off", "listed", "cutting"}, todo : SUBSET Ledgers,
        l : Ledgers \union {"none"}, last : Nat, previous : Nat, new : SUBSET Block]

(* What requests and writes leave.                                         *)
StateOK ==
  /\ row \in [Ledgers -> [st : {"none", "live", "deleted"}, at : Nat]]
  /\ now \in Nat
  /\ next \in [Ledgers -> Nat \ {0}]
  /\ pending \in [Ledgers -> SUBSET Nat]
  /\ logs \in [Ledgers -> SUBSET Nat]
  /\ \A l \in Ledgers : \A i \in pending[l] \union logs[l] : i <= MaxLog[l]
  /\ req \in [Requests -> Entry]
  /\ \A r \in Requests : req[r].pc # "idle" => req[r].l \in Ledgers

(* A set S of blocks of one ledger: each block follows another one, or is  *)
(* the first, and each block but the highest is followed by another one.   *)
Linked(S) ==
  /\ \A k \in S :
       /\ k.previous < k.id /\ k.from < k.to
       /\ \A i \in k.logs : k.from < i /\ i <= k.to
       /\ \/ k.previous = 0 /\ k.from = 0
          \/ \E j \in S : j.id = k.previous /\ j.to = k.from
  /\ \A j, k \in S :
       /\ j.id = k.id => j = k
       /\ j.id < k.id => /\ j.id <= k.previous /\ j.to <= k.from
                         /\ \E i \in S : i.previous = j.id
  /\ S # {} => \E k \in S : k.previous = 0

(* The place of a block of S, or the place before the first one. *)
Place(S, id, to) ==
  \/ id = 0 /\ to = 0
  \/ \E j \in S : j.id = id /\ j.to = to

(* The place after the last block of S. *)
Tip(S, id, to) == Place(S, id, to) /\ \A k \in S : k.id <= id /\ k.to <= to

(* A runner that has not cut a block yet has found the end of the chain as *)
(* it was; one that has cut blocks continues the chain as it is.           *)
RunnerOK(x) ==
  LET c == runner[x]  S == BlocksOf(c.l) IN
  /\ c.pc = "cutting" => c.l \in Ledgers
  /\ c.pc # "cutting" => c.new = {}
  /\ \A k \in c.new : k.l = c.l /\ k.id < serial[BucketOf[c.l]]
  /\ c.pc = "cutting" /\ c.new = {} => Place(S, c.previous, c.last)
  /\ c.new # {} =>
       /\ Linked(S \union c.new)
       /\ Tip(S \union c.new, c.previous, c.last)
       /\ \A j \in S, k \in c.new : j.id < k.id

(* Whoever has cut blocks of a ledger is alone to have done so.            *)
OneCutter ==
  \A x, y \in Runners :
    runner[x].new # {} /\ runner[y].new # {} /\ runner[x].l = runner[y].l => x = y

ChainInv ==
  /\ blocks \subseteq Block
  /\ serial \in [Buckets -> Nat \ {0}]
  /\ \A k \in blocks : k.id < serial[BucketOf[k.l]]
  /\ \A l \in Ledgers : Linked(BlocksOf(l))
  /\ runner \in [Runners -> Run]
  /\ \A x \in Runners : RunnerOK(x)
  /\ OneCutter

IInv == StateOK /\ RowsHaveSchema /\ ChainInv

-----------------------------------------------------------------------------
(* Chains.                                                                 *)

LEMMA LeastNatural ==
  ASSUME NEW S, S \subseteq Nat, S # {}
  PROVE  \E x \in S : \A y \in S : x <= y
<1>1. PICK x \in S : \A y \in S : ~ (<<y, x>> \in OpToRel(<, Nat))
  BY NatLessThanWellFounded, WFMin
<1>2. \A y \in S : ~ (y < x)
  BY <1>1 DEF OpToRel
<1>. QED BY <1>2

(* A set of naturals below a bound has a largest element.                  *)
LEMMA Largest ==
  ASSUME NEW n \in Nat, NEW S, S \subseteq Nat, S # {}, \A i \in S : i <= n
  PROVE  \E x \in S : \A y \in S : x >= y
<1>. DEFINE T == {t \in Nat : \E i \in S : t = n - i}
<1>1. T \subseteq Nat /\ T # {}
  <2>1. PICK i \in S : TRUE
    OBVIOUS
  <2>2. i \in Nat /\ n - i \in Nat
    OBVIOUS
  <2>3. n - i \in T
    BY <2>2
  <2>. QED BY <2>3
<1>2. PICK t \in T : \A u \in T : t <= u
  <2>. HIDE DEF T
  <2>. QED BY <1>1, LeastNatural
<1>3. PICK x \in S : t = n - x
  OBVIOUS
<1>4. \A y \in S : n - x <= n - y
  BY <1>2, <1>3
<1>5. \A y \in S : x >= y
  BY <1>4
<1>. QED BY <1>5

LEMMA LargestIsMax ==
  ASSUME NEW n \in Nat, NEW S, S \subseteq Nat, S # {}, \A i \in S : i <= n
  PROVE  Max(S) \in S /\ \A y \in S : Max(S) >= y
BY Largest DEF Max

(* A place that no block of a chain follows is its end.                    *)
LEMMA UnfollowedIsTip ==
  ASSUME NEW S, S \subseteq Block, Linked(S), NEW id, NEW to, Place(S, id, to),
         \A k \in S : k.previous # id
  PROVE  Tip(S, id, to)
<1>0. \A k \in S : k.id \in Nat \ {0} /\ k.previous \in Nat /\ k.from \in Nat /\ k.to \in Nat
  BY DEF Block
<1>1. CASE id = 0
  BY <1>1 DEF Linked, Tip
<1>2. CASE \E j \in S : j.id = id /\ j.to = to
  <2>1. PICK j \in S : j.id = id /\ j.to = to
    BY <1>2
  <2>2. \A k \in S : ~(j.id < k.id)
    BY <2>1 DEF Linked
  <2>3. ASSUME NEW k \in S PROVE k.id <= id /\ k.to <= to
    <3>1. k.id <= id
      BY <1>0, <2>1, <2>2
    <3>2. CASE k.id = id
      BY <1>0, <2>1, <3>2 DEF Linked
    <3>3. CASE k.id # id
      <4>1. k.id < j.id
        BY <1>0, <2>1, <3>1, <3>3
      <4>2. k.to <= j.from /\ j.from < j.to
        BY <4>1 DEF Linked
      <4>. QED BY <1>0, <2>1, <3>1, <4>2
    <3>. QED BY <3>1, <3>2, <3>3
  <2>. QED BY <2>3 DEF Tip
<1>. QED BY <1>1, <1>2 DEF Place

(* A block added at the end of a chain.                                    *)
LEMMA ExtendChain ==
  ASSUME NEW S, S \subseteq Block, Linked(S), NEW m \in Block, Tip(S, m.previous, m.from),
         m.previous < m.id, m.from < m.to, \A i \in m.logs : m.from < i /\ i <= m.to,
         \A k \in S : k.id < m.id
  PROVE  Linked(S \union {m}) /\ Tip(S \union {m}, m.id, m.to)
<1>. DEFINE U == S \union {m}
<1>0. /\ \A k \in U : k.id \in Nat \ {0} /\ k.previous \in Nat /\ k.from \in Nat /\ k.to \in Nat
      /\ \A k \in S : k.id <= m.previous /\ k.to <= m.from
      /\ Place(S, m.previous, m.from)
  BY DEF Block, Tip
<1>1. ASSUME NEW k \in U
      PROVE  /\ k.previous < k.id /\ k.from < k.to
             /\ \A i \in k.logs : k.from < i /\ i <= k.to
             /\ \/ k.previous = 0 /\ k.from = 0
                \/ \E j \in U : j.id = k.previous /\ j.to = k.from
  <2>1. CASE k \in S
    BY <2>1 DEF Linked
  <2>2. CASE k = m
    BY <1>0, <2>2 DEF Place
  <2>. QED BY <2>1, <2>2
<1>2. ASSUME NEW j \in U, NEW k \in U
      PROVE  /\ j.id = k.id => j = k
             /\ j.id < k.id => /\ j.id <= k.previous /\ j.to <= k.from
                               /\ \E i \in U : i.previous = j.id
  <2>1. CASE j \in S /\ k \in S
    BY <2>1 DEF Linked
  <2>2. CASE j = m
    BY <1>0, <2>2
  <2>3. CASE j \in S /\ k = m
    <3>1. j.id # k.id /\ j.id <= m.previous /\ j.to <= m.from
      BY <1>0, <2>3
    <3>2. CASE j.id = m.previous
      BY <2>3, <3>1, <3>2
    <3>3. CASE j.id # m.previous
      <4>1. PICK i \in S : i.id = m.previous
        BY <1>0, <2>3, <3>1, <3>3 DEF Place
      <4>2. j.id < i.id
        BY <1>0, <2>3, <3>1, <3>3, <4>1
      <4>3. \E h \in S : h.previous = j.id
        BY <2>3, <4>2 DEF Linked
      <4>. QED BY <2>3, <3>1, <4>3
    <3>. QED BY <3>2, <3>3
  <2>. QED BY <2>1, <2>2, <2>3
<1>3. \E k \in U : k.previous = 0
  <2>1. CASE S = {}
    BY <1>0, <2>1 DEF Place
  <2>2. CASE S # {}
    BY <2>2 DEF Linked
  <2>. QED BY <2>1, <2>2
<1>4. Linked(U)
  BY <1>1, <1>2, <1>3 DEF Linked
<1>5. \A k \in U : k.id <= m.id /\ k.to <= m.to
  BY <1>0
<1>6. Tip(U, m.id, m.to)
  BY <1>5 DEF Tip, Place
<1>. QED BY <1>4, <1>6

(* Seen from one block, a chain is what the property says it is.           *)
LEMMA ChainAtBlock ==
  ASSUME NEW S, S \subseteq Block, Linked(S), NEW k \in S
  PROVE  LET before == {j \in S : j.id < k.id}
             latest == CHOOSE j \in before : \A i \in before : i.id <= j.id
         IN /\ k.previous = IF before = {} THEN 0 ELSE latest.id
            /\ k.from = IF before = {} THEN 0 ELSE latest.to
            /\ \A j \in before : j.logs \intersect k.logs = {}
<1>. DEFINE before == {j \in S : j.id < k.id}
            latest == CHOOSE j \in before : \A i \in before : i.id <= j.id
<1>0. \A j \in S : /\ j.id \in Nat \ {0} /\ j.previous \in Nat /\ j.from \in Nat /\ j.to \in Nat
                   /\ j.logs \subseteq Nat
  BY DEF Block
<1>1. \A j \in before : j.logs \intersect k.logs = {}
  <2>. SUFFICES ASSUME NEW j \in before, NEW i, i \in j.logs, i \in k.logs PROVE FALSE
    OBVIOUS
  <2>1. j \in S /\ j.id < k.id /\ j.to <= k.from
    BY DEF Linked
  <2>2. i <= j.to /\ k.from < i /\ i \in Nat
    BY <1>0, <2>1 DEF Linked
  <2>. QED BY <1>0, <2>1, <2>2
<1>2. CASE before = {}
  <2>1. ~\E j \in S : j.id = k.previous
    BY <1>0, <1>2 DEF Linked
  <2>2. k.previous = 0 /\ k.from = 0
    BY <2>1 DEF Linked
  <2>. QED BY <1>1, <1>2, <2>2
<1>3. CASE before # {}
  <2>1. PICK h \in before : TRUE
    BY <1>3
  <2>2. h.id <= k.previous
    BY <2>1 DEF Linked
  <2>3. PICK j \in S : j.id = k.previous /\ j.to = k.from
    BY <1>0, <2>1, <2>2 DEF Linked
  <2>4. j \in before
    BY <2>3 DEF Linked
  <2>5. \A i \in before : i.id <= j.id
    BY <2>3 DEF Linked
  <2>6. latest \in before /\ \A i \in before : i.id <= latest.id
    BY <2>4, <2>5
  <2>7. latest.id = j.id
    BY <1>0, <2>4, <2>5, <2>6
  <2>8. latest = j
    BY <2>4, <2>6, <2>7 DEF Linked
  <2>. QED BY <1>1, <1>3, <2>3, <2>8
<1>. QED BY <1>2, <1>3

-----------------------------------------------------------------------------
(* Requests, writes and deletions.                                         *)

(* A request that goes from one record to another.                         *)
LEMMA RequestTyped ==
  ASSUME StateOK, NEW r \in Requests, NEW q \in Entry, q.pc # "idle" => q.l \in Ledgers,
         req' = [req EXCEPT ![r] = q]
  PROVE  /\ req' \in [Requests -> Entry]
         /\ \A s \in Requests : req'[s].pc # "idle" => req'[s].l \in Ledgers
<1>1. req \in [Requests -> Entry]
  BY DEF StateOK, Entry
<1>2. \A s \in Requests : req'[s] = IF s = r THEN q ELSE req[s]
  BY <1>1
<1>. QED BY <1>1, <1>2 DEF StateOK

LEMMA IdleTyped == Idle \in Entry /\ Idle.pc = "idle"
BY DEF Idle, Entry

LEMMA FirstStepState ==
  ASSUME StateOK, RowsHaveSchema, NEW r \in Requests, NEW p \in Processes, NEW l \in Ledgers,
         CheckBucket(r, p, l) \/ GetLedger(r, p, l)
  PROVE  StateOK' /\ RowsHaveSchema'
<1>1. UNCHANGED <<now, row, schema, ledgerVars>>
  BY DEF CheckBucket, GetLedger
<1>2. PICK q \in Entry : (q.pc # "idle" => q.l \in Ledgers) /\ req' = [req EXCEPT ![r] = q]
  <2>1. CASE CheckBucket(r, p, l)
    <3>. DEFINE n == IF BucketOf[l] \in schema THEN "initialized" ELSE "uninitialized"
                q == [Idle EXCEPT !.l = l, !.p = p, !.pc = n]
    <3>1. n \in {"initialized", "uninitialized"}
      OBVIOUS
    <3>2. req' = [req EXCEPT ![r] = q]
      BY <2>1 DEF CheckBucket
    <3>. HIDE DEF n
    <3>3. q \in Entry /\ q.l \in Ledgers
      BY <3>1 DEF Idle, Entry
    <3>. QED BY <3>2, <3>3
  <2>2. CASE GetLedger(r, p, l)
    <3>. DEFINE q == [Idle EXCEPT !.pc = "got", !.l = l, !.p = p]
    <3>1. q \in Entry /\ q.l \in Ledgers
      BY DEF Idle, Entry
    <3>. QED BY <2>2, <3>1 DEF GetLedger
  <2>. QED BY <2>1, <2>2
<1>3. /\ req' \in [Requests -> Entry]
      /\ \A s \in Requests : req'[s].pc # "idle" => req'[s].l \in Ledgers
  BY <1>2, RequestTyped
<1>. QED BY <1>1, <1>3 DEF StateOK, RowsHaveSchema, ledgerVars, Entry

LEMMA RequestState ==
  ASSUME StateOK, RowsHaveSchema, NEW r \in Requests,
         \/ Migrate(r) \/ InsertLedger(r) \/ CountWithNew(r)
         \/ SetAloneInBucket(r) \/ AbortLedger(r) \/ CountLedgers(r) \/ Read(r) \/ EndRequest(r)
  PROVE  StateOK' /\ RowsHaveSchema'
<1>1. UNCHANGED <<now, row, schema, ledgerVars>>
  BY DEF Migrate, InsertLedger, CountWithNew, SetAloneInBucket, AbortLedger, CountLedgers, Read,
     EndRequest
<1>0. /\ req \in [Requests -> Entry]
      /\ req[r] \in Entry /\ (req[r].pc # "idle" => req[r].l \in Ledgers)
  BY DEF StateOK, Entry
<1>2. PICK q \in Entry : (q.pc # "idle" => q.l \in Ledgers) /\ req' = [req EXCEPT ![r] = q]
  <2>1. CASE SetAloneInBucket(r)
    <3>. DEFINE q == [req[r] EXCEPT !.pc = IF @ = "tallied" THEN "created" ELSE "open"]
    <3>1. q \in Entry /\ q.l \in Ledgers
      BY <1>0, <2>1 DEF Entry, SetAloneInBucket
    <3>. QED BY <1>0, <2>1, <3>1 DEF SetAloneInBucket
  <2>2. CASE AbortLedger(r) \/ EndRequest(r)
    BY <2>2, IdleTyped DEF AbortLedger, EndRequest
  <2>3. CASE CountLedgers(r)
    <3>. DEFINE n == Count(BucketOf[req[r].l], row) = 1
                q == [req[r] EXCEPT !.pc = "counted", !.alone = n]
    <3>1. n \in BOOLEAN
      OBVIOUS
    <3>2. req' = [req EXCEPT ![r] = q]
      BY <1>0, <2>3 DEF CountLedgers
    <3>. HIDE DEF n
    <3>3. q \in Entry /\ q.l \in Ledgers
      BY <1>0, <2>3, <3>1 DEF Entry, CountLedgers
    <3>. QED BY <3>2, <3>3
  <2>4. CASE Read(r)
    <3>. DEFINE n == ScopedSelect(req[r].p, req[r].l)
                q == [req[r] EXCEPT !.pc = "answered", !.seen = n]
    <3>1. n \subseteq Ledgers
      BY <1>0, <2>4 DEF ScopedSelect, In, Read
    <3>2. req' = [req EXCEPT ![r] = q]
      BY <1>0, <2>4 DEF Read
    <3>. HIDE DEF n
    <3>3. q \in Entry /\ q.l \in Ledgers
      BY <1>0, <2>4, <3>1 DEF Entry, Read
    <3>. QED BY <3>2, <3>3
  <2>5. CASE Migrate(r) \/ InsertLedger(r)
    <3>1. PICK n \in {"initialized", "inserted"} : req' = [req EXCEPT ![r].pc = n]
      BY <2>5 DEF Migrate, InsertLedger
    <3>. DEFINE q == [req[r] EXCEPT !.pc = n]
    <3>2. q \in Entry /\ q.l \in Ledgers
      BY <1>0, <2>5 DEF Entry, Migrate, InsertLedger
    <3>. QED BY <1>0, <3>1, <3>2
  <2>6. CASE CountWithNew(r)
    <3>. DEFINE n == Count(BucketOf[req[r].l], [row EXCEPT ![req[r].l] = Live]) = 1
                q == [req[r] EXCEPT !.pc = "tallied", !.alone = n]
    <3>1. n \in BOOLEAN
      OBVIOUS
    <3>2. req' = [req EXCEPT ![r] = q]
      BY <1>0, <2>6 DEF CountWithNew
    <3>. HIDE DEF n
    <3>3. q \in Entry /\ q.l \in Ledgers
      BY <1>0, <2>6, <3>1 DEF Entry, CountWithNew
    <3>. QED BY <3>2, <3>3
  <2>. QED BY <2>1, <2>2, <2>3, <2>4, <2>5, <2>6
<1>3. /\ req' \in [Requests -> Entry]
      /\ \A s \in Requests : req'[s].pc # "idle" => req'[s].l \in Ledgers
  BY <1>2, RequestTyped
<1>. QED BY <1>1, <1>3 DEF StateOK, RowsHaveSchema, ledgerVars, Entry

LEMMA CommitLedgerState ==
  ASSUME StateOK, RowsHaveSchema, NEW r \in Requests, CommitLedger(r)
  PROVE  StateOK' /\ RowsHaveSchema'
<1>. DEFINE l == req[r].l
<1>1. /\ l \in Ledgers /\ row' = [row EXCEPT ![l] = Live] /\ schema' = schema \union {BucketOf[l]}
      /\ next' = [next EXCEPT ![l] = 1] /\ req' = [req EXCEPT ![r] = Idle]
      /\ UNCHANGED <<now, pending, logs>>
  BY DEF CommitLedger, StateOK
<1>. HIDE DEF l
<1>2. /\ req' \in [Requests -> Entry]
      /\ \A s \in Requests : req'[s].pc # "idle" => req'[s].l \in Ledgers
  BY <1>1, IdleTyped, RequestTyped
<1>3. row' \in [Ledgers -> [st : {"none", "live", "deleted"}, at : Nat]]
  BY <1>1 DEF StateOK, Live
<1>4. next' \in [Ledgers -> Nat \ {0}]
  BY <1>1 DEF StateOK
<1>5. RowsHaveSchema'
  BY <1>1 DEF StateOK, RowsHaveSchema
<1>6. StateOK'
  BY <1>1, <1>2, <1>3, <1>4 DEF StateOK, Entry
<1>. QED BY <1>5, <1>6

LEMMA WriteState ==
  ASSUME StateOK, RowsHaveSchema,
         \/ \E r \in Requests : DrawId(r)
         \/ \E l \in Ledgers : \E i \in pending[l] : EndWrite(l, i)
  PROVE  StateOK' /\ RowsHaveSchema'
<1>1. ASSUME NEW r \in Requests, DrawId(r) PROVE StateOK' /\ RowsHaveSchema'
  <2>. DEFINE l == req[r].l
  <2>1. /\ l \in Ledgers /\ next[l] <= MaxLog[l] /\ next' = [next EXCEPT ![l] = @ + 1]
        /\ pending' = [pending EXCEPT ![l] = @ \union {next[l]}]
        /\ req' = [req EXCEPT ![r] = Idle]
        /\ UNCHANGED <<now, row, schema, logs>>
    BY <1>1 DEF DrawId, StateOK
  <2>. HIDE DEF l
  <2>2. /\ req' \in [Requests -> Entry]
        /\ \A s \in Requests : req'[s].pc # "idle" => req'[s].l \in Ledgers
    BY <2>1, IdleTyped, RequestTyped
  <2>3. next' \in [Ledgers -> Nat \ {0}] /\ pending' \in [Ledgers -> SUBSET Nat]
    BY <2>1 DEF StateOK
  <2>4. \A k \in Ledgers : \A i \in pending'[k] : i <= MaxLog[k]
    BY <2>1 DEF StateOK
  <2>. QED BY <2>1, <2>2, <2>3, <2>4 DEF StateOK, RowsHaveSchema, Entry
<1>2. ASSUME NEW l \in Ledgers, NEW i \in pending[l], EndWrite(l, i) PROVE StateOK' /\ RowsHaveSchema'
  <2>1. /\ pending' = [pending EXCEPT ![l] = @ \ {i}]
        /\ logs' = [logs EXCEPT ![l] = @ \union {i}] \/ logs' = logs
        /\ UNCHANGED <<now, row, schema, next, req>>
    BY <1>2 DEF EndWrite, requestVars
  <2>2. pending' \in [Ledgers -> SUBSET Nat] /\ logs' \in [Ledgers -> SUBSET Nat]
    BY <2>1 DEF StateOK
  <2>3. \A k \in Ledgers : \A j \in pending'[k] \union logs'[k] : j <= MaxLog[k]
    BY <2>1 DEF StateOK
  <2>. QED BY <2>1, <2>2, <2>3 DEF StateOK, RowsHaveSchema
<1>. QED BY <1>1, <1>2

LEMMA BucketState ==
  ASSUME StateOK, RowsHaveSchema, NEW b \in Buckets,
         DeleteBucket(b) \/ RestoreBucket(b) \/ HardDeleteBucket(b) \/ HardDeleteFails(b)
  PROVE  StateOK' /\ RowsHaveSchema'
<1>1. CASE DeleteBucket(b)
  <2>1. /\ UNCHANGED <<now, schema, next, pending, logs, req>>
        /\ row' = [l \in Ledgers |-> IF l \in In(b) /\ row[l].st = "live"
                                     THEN [st |-> "deleted", at |-> now] ELSE row[l]]
    BY <1>1 DEF DeleteBucket, ledgerVars, requestVars
  <2>. QED BY <2>1 DEF StateOK, RowsHaveSchema
<1>2. CASE RestoreBucket(b)
  <2>1. /\ UNCHANGED <<now, schema, next, pending, logs, req>>
        /\ row' = [l \in Ledgers |-> IF l \in In(b) /\ row[l].st = "deleted" THEN Live ELSE row[l]]
    BY <1>2 DEF RestoreBucket, ledgerVars, requestVars
  <2>. QED BY <2>1 DEF StateOK, RowsHaveSchema, Live
<1>3. CASE HardDeleteBucket(b)
  <2>1. /\ UNCHANGED <<now, pending, req>>
        /\ schema' = schema \ {b}
        /\ row' = [l \in Ledgers |-> IF l \in In(b) THEN NoRow ELSE row[l]]
        /\ logs' = [l \in Ledgers |-> IF l \in In(b) THEN {} ELSE logs[l]]
        /\ next' = [l \in Ledgers |-> IF l \in In(b) THEN 1 ELSE next[l]]
    BY <1>3 DEF HardDeleteBucket, DroppedRows, requestVars
  <2>2. RowsHaveSchema'
    BY <2>1 DEF RowsHaveSchema, NoRow, In
  <2>3. row' \in [Ledgers -> [st : {"none", "live", "deleted"}, at : Nat]]
    BY <2>1 DEF StateOK, NoRow
  <2>4. next' \in [Ledgers -> Nat \ {0}] /\ logs' \in [Ledgers -> SUBSET Nat]
        /\ \A l \in Ledgers : logs'[l] \subseteq logs[l]
    BY <2>1 DEF StateOK
  <2>. QED BY <2>1, <2>2, <2>3, <2>4 DEF StateOK
<1>4. CASE HardDeleteFails(b)
  BY <1>4 DEF HardDeleteFails, StateOK, RowsHaveSchema, ledgerVars, requestVars
<1>. QED BY <1>1, <1>2, <1>3, <1>4

-----------------------------------------------------------------------------
(* Runners.                                                                *)

LEMMA BlocksTyped ==
  ASSUME ChainInv, NEW l
  PROVE  BlocksOf(l) \subseteq Block
BY DEF ChainInv, BlocksOf

(* Nothing happens to the blocks.                                          *)
LEMMA ChainKept ==
  ASSUME ChainInv, UNCHANGED blockVars
  PROVE  ChainInv'
<1>1. blocks' = blocks /\ serial' = serial /\ runner' = runner
  BY DEF blockVars
<1>2. \A l : BlocksOf(l)' = BlocksOf(l)
  BY <1>1 DEF BlocksOf
<1>. QED BY <1>1, <1>2 DEF ChainInv, RunnerOK, OneCutter

(* A runner that is not cutting, before or after.                          *)
LEMMA IdleRunner ==
  ASSUME ChainInv, NEW x \in Runners, NEW q \in Run, q.new = {}, q.pc # "cutting",
         runner' = [runner EXCEPT ![x] = q], UNCHANGED <<blocks, serial>>
  PROVE  ChainInv'
<1>1. runner \in [Runners -> Run]
  BY DEF ChainInv, Run
<1>2. \A y \in Runners : runner'[y] = IF y = x THEN q ELSE runner[y]
  BY <1>1
<1>3. \A l : BlocksOf(l)' = BlocksOf(l)
  BY DEF BlocksOf
<1>4. runner' \in [Runners -> Run]
  BY <1>1
<1>5. \A y \in Runners : RunnerOK(y)'
  BY <1>2, <1>3 DEF ChainInv, RunnerOK
<1>6. OneCutter'
  BY <1>2 DEF ChainInv, OneCutter
<1>. QED BY <1>3, <1>4, <1>5, <1>6 DEF ChainInv, Run

LEMMA NoRunTyped == NoRun \in Run /\ NoRun.new = {} /\ NoRun.pc # "cutting"
BY DEF NoRun, Run

(* run lists the ledgers.                                                  *)
LEMMA ListAsyncStep ==
  ASSUME ChainInv, NEW x \in Runners, ListAsync(x)
  PROVE  ChainInv'
<1>. DEFINE q == [runner[x] EXCEPT !.pc = "listed", !.todo = Listed]
<1>1. runner \in [Runners -> Run] /\ runner[x] \in Run
  BY DEF ChainInv, Run
<1>2. Listed \subseteq Ledgers
  BY BucketsAssumption DEF Listed
<1>3. runner[x].new = {}
  BY DEF ListAsync, ChainInv, RunnerOK
<1>4. q \in Run /\ q.new = {} /\ q.pc # "cutting"
  BY <1>1, <1>2, <1>3 DEF Run
<1>5. runner' = [runner EXCEPT ![x] = q] /\ UNCHANGED <<blocks, serial>>
  BY <1>1 DEF ListAsync
<1>. HIDE DEF q
<1>. QED BY <1>4, <1>5, IdleRunner

(* The block create_blocks starts from is one of the ledger's.             *)
LEMMA LastBlockPlace ==
  ASSUME ChainInv, NEW l \in Ledgers
  PROVE  /\ Place(BlocksOf(l), LastBlock(l).id, LastBlock(l).to)
         /\ LastBlock(l).id \in Nat /\ LastBlock(l).to \in Nat
<1>. DEFINE S == BlocksOf(l)
            n == serial[BucketOf[l]]
            P == {i \in Nat : \E k \in S : i = k.previous}
<1>1. CASE S = {}
  BY <1>1 DEF LastBlock, Place
<1>2. CASE S # {}
  <2>1. S \subseteq Block /\ Linked(S) /\ n \in Nat /\ \A k \in S : k.id < n
    BY BucketsAssumption DEF ChainInv, BlocksOf
  <2>2. \A k \in S : k.previous \in Nat /\ k.previous <= n /\ k.id \in Nat /\ k.to \in Nat
    BY <2>1 DEF Linked, Block
  <2>3. P \subseteq Nat /\ P # {} /\ \A i \in P : i <= n
    BY <1>2, <2>2
  <2>4. PICK i \in P : \A j \in P : i >= j
    <3>. HIDE DEF P
    <3>. QED BY <2>1, <2>3, Largest
  <2>5. PICK k \in S : \A j \in S : j.previous <= k.previous
    BY <2>2, <2>4
  <2>. DEFINE h == CHOOSE h \in S : \A j \in S : j.previous <= h.previous
  <2>6. h \in S
    BY <2>5
  <2>7. LastBlock(l) = [to |-> h.to, id |-> h.id]
    BY <1>2 DEF LastBlock
  <2>. HIDE DEF h
  <2>. QED BY <2>2, <2>6, <2>7 DEF Place
<1>. QED BY <1>1, <1>2

(* create_blocks starts.                                                   *)
LEMMA CallStep ==
  ASSUME ChainInv, NEW x \in Runners, NEW l \in Ledgers, CallCreateBlocks(x, l)
  PROVE  ChainInv'
<1>. DEFINE id == LastBlock(l).id
            to == LastBlock(l).to
            q == [runner[x] EXCEPT !.pc = "cutting", !.todo = @ \ {l}, !.l = l,
                                   !.last = to, !.previous = id]
<1>1. runner \in [Runners -> Run] /\ runner[x] \in Run
  BY DEF ChainInv, Run
<1>2. runner' = [runner EXCEPT ![x] = q] /\ UNCHANGED <<blocks, serial>>
  BY <1>1 DEF CallCreateBlocks
<1>3. runner[x].new = {}
  BY DEF CallCreateBlocks, ChainInv, RunnerOK
<1>4. Place(BlocksOf(l), id, to) /\ id \in Nat /\ to \in Nat
  BY LastBlockPlace
<1>. HIDE DEF id, to
<1>5. q \in Run /\ q.new = {} /\ q.pc = "cutting" /\ q.l = l /\ q.previous = id /\ q.last = to
  BY <1>1, <1>3, <1>4 DEF Run
<1>. HIDE DEF q
<1>6. \A y \in Runners : runner'[y] = IF y = x THEN q ELSE runner[y]
  BY <1>1, <1>2
<1>7. \A k : BlocksOf(k)' = BlocksOf(k)
  BY <1>2 DEF BlocksOf
<1>8. runner' \in [Runners -> Run]
  BY <1>1, <1>2, <1>5
<1>9. ASSUME NEW y \in Runners PROVE RunnerOK(y)'
  <2>1. CASE y # x
    BY <1>2, <1>6, <1>7, <2>1 DEF ChainInv, RunnerOK
  <2>2. CASE y = x
    <3>1. runner'[y] = q
      BY <1>6, <2>2
    <3>. QED BY <1>4, <1>5, <1>7, <3>1 DEF RunnerOK
  <2>. QED BY <2>1, <2>2
<1>10. OneCutter'
  BY <1>5, <1>6 DEF ChainInv, OneCutter
<1>. QED BY <1>2, <1>7, <1>8, <1>9, <1>10 DEF ChainInv, Run

(* A runner whose previous is free of others stands at the end of the      *)
(* chain, and nobody else has cut blocks of its ledger.                    *)
LEMMA FreeIsTip ==
  ASSUME ChainInv, NEW x \in Runners, runner[x].pc = "cutting",
         PreviousIsFree(x, BucketOf[runner[x].l], runner[x].previous)
  PROVE  LET c == runner[x]  S == BlocksOf(c.l) \union c.new IN
         /\ S \subseteq Block /\ Linked(S) /\ Tip(S, c.previous, c.last)
         /\ \A y \in Runners : y # x /\ runner[y].l = c.l => runner[y].new = {}
<1>. DEFINE c == runner[x]
            l == c.l
            B == BlocksOf(l)
            S == B \union c.new
<1>1. c \in Run /\ l \in Ledgers /\ RunnerOK(x) /\ B \subseteq Block /\ Linked(B)
  BY BlocksTyped DEF ChainInv, RunnerOK, Run
<1>2. S \subseteq Block
  BY <1>1 DEF Run
<1>3. \A k \in B : k.previous # c.previous
  BY DEF PreviousIsFree, Taken, BlocksOf
<1>4. ASSUME NEW y \in Runners, y # x, runner[y].l = l, runner[y].pc = "cutting",
             NEW k \in runner[y].new
      PROVE  k.previous # c.previous
  BY <1>4 DEF PreviousIsFree, Awaited
<1>5. CASE c.new # {}
  <2>1. Linked(S) /\ Tip(S, c.previous, c.last)
    BY <1>1, <1>5 DEF RunnerOK
  <2>2. \A y \in Runners : y # x /\ runner[y].l = l => runner[y].new = {}
    BY <1>5 DEF ChainInv, OneCutter
  <2>. QED BY <1>2, <2>1, <2>2
<1>6. CASE c.new = {}
  <2>1. S = B /\ Place(B, c.previous, c.last)
    BY <1>1, <1>6 DEF RunnerOK
  <2>2. Tip(B, c.previous, c.last)
    <3>. HIDE DEF B, c
    <3>. QED BY <1>1, <1>3, <2>1, UnfollowedIsTip
  <2>3. ASSUME NEW y \in Runners, y # x, runner[y].l = l, runner[y].new # {}
        PROVE  FALSE
    <3>. DEFINE U == B \union runner[y].new
    <3>1. runner[y].pc = "cutting" /\ Linked(U) /\ \A j \in B, k \in runner[y].new : j.id < k.id
      BY <2>3 DEF ChainInv, RunnerOK
    <3>2. \A k \in U : k.previous # c.previous
      BY <1>3, <1>4, <2>3, <3>1
    <3>3. U # {}
      BY <2>3
    <3>4. c.previous # 0
      BY <3>1, <3>2, <3>3 DEF Linked
    <3>5. PICK j \in B : j.id = c.previous
      BY <2>1, <3>4 DEF Place
    <3>6. PICK k \in runner[y].new : TRUE
      BY <2>3
    <3>7. j.id < k.id
      BY <3>1
    <3>8. j \in U /\ k \in U
      OBVIOUS
    <3>. HIDE DEF U
    <3>9. \E i \in U : i.previous = j.id
      BY <3>1, <3>7, <3>8 DEF Linked
    <3>. QED BY <3>2, <3>5, <3>9
  <2>. QED BY <1>1, <2>1, <2>2, <2>3
<1>. QED BY <1>5, <1>6

(* The logs of a block are above those of the last one.                    *)
LEMMA BatchBounds ==
  ASSUME StateOK, NEW l \in Ledgers, NEW last \in Nat, Batch(l, last) # {}
  PROVE  LET B == Batch(l, last) IN
         /\ B \subseteq Nat /\ Max(B) \in Nat /\ last < Max(B)
         /\ \A i \in B : last < i /\ i <= Max(B)
<1>. DEFINE B == Batch(l, last)
<1>1. B \subseteq Nat /\ \A i \in B : last < i /\ i <= MaxLog[l]
  BY DEF StateOK, Batch
<1>2. MaxLog[l] \in Nat
  BY BucketsAssumption
<1>. HIDE DEF B
<1>3. B # {}
  BY DEF B
<1>4. Max(B) \in B /\ \A i \in B : Max(B) >= i
  BY <1>1, <1>2, <1>3, LargestIsMax
<1>5. Max(B) \in Nat /\ last < Max(B)
  BY <1>1, <1>4
<1>6. \A i \in B : i <= Max(B)
  BY <1>1, <1>4, <1>5
<1>. QED BY <1>1, <1>5, <1>6 DEF B

(* create_block.                                                           *)
LEMMA CreateBlockStep ==
  ASSUME StateOK, ChainInv, NEW x \in Runners, CreateBlock(x)
  PROVE  ChainInv'
<1>. DEFINE c == runner[x]
            l == c.l
            b == BucketOf[l]
            batch == Batch(l, c.last)
            top == Max(batch)
            m == [l |-> l, id |-> serial[b], previous |-> c.previous,
                  from |-> c.last, to |-> top, logs |-> batch]
            q == [c EXCEPT !.new = @ \union {m}, !.last = top, !.previous = serial[b]]
            S == BlocksOf(l) \union c.new
<1>1. runner \in [Runners -> Run] /\ c \in Run
  BY DEF ChainInv, Run
<1>2. /\ c.pc = "cutting" /\ batch # {} /\ PreviousIsFree(x, b, c.previous)
      /\ serial' = [serial EXCEPT ![b] = @ + 1] /\ UNCHANGED blocks
      /\ runner' = [runner EXCEPT ![x] = q]
  BY <1>1 DEF CreateBlock
<1>3. l \in Ledgers /\ b \in Buckets /\ serial[b] \in Nat \ {0} /\ RunnerOK(x)
  BY <1>2, BucketsAssumption DEF ChainInv, RunnerOK
<1>4. /\ S \subseteq Block /\ Linked(S) /\ Tip(S, c.previous, c.last)
      /\ \A y \in Runners : y # x /\ runner[y].l = l => runner[y].new = {}
  BY <1>2, FreeIsTip
<1>5. c.last \in Nat /\ c.previous \in Nat
  BY <1>1 DEF Run
<1>6. batch \subseteq Nat /\ top \in Nat /\ c.last < top /\ \A i \in batch : c.last < i /\ i <= top
  <2>. HIDE DEF l, c
  <2>. QED BY <1>2, <1>3, <1>5, BatchBounds
<1>7. \A k \in S : k.id < serial[b]
  BY <1>3 DEF ChainInv, BlocksOf, RunnerOK
<1>8. c.previous < serial[b]
  <2>1. CASE c.previous = 0
    BY <1>3, <2>1
  <2>2. CASE c.previous # 0
    <3>. HIDE DEF S, c
    <3>. QED BY <1>4, <1>7, <2>2 DEF Tip, Place
  <2>. QED BY <2>1, <2>2
<1>. HIDE DEF batch, top
<1>9. /\ m \in Block /\ m.id = serial[b] /\ m.previous = c.previous /\ m.from = c.last
      /\ m.to = top /\ m.logs = batch /\ m.l = l
  BY <1>3, <1>5, <1>6 DEF Block
<1>. HIDE DEF m
<1>10. /\ q.pc = "cutting" /\ q.l = l /\ q.new = c.new \union {m}
       /\ q.last = m.to /\ q.previous = m.id
       /\ q \in Run
  BY <1>1, <1>2, <1>3, <1>6, <1>9 DEF Run
<1>. HIDE DEF q
<1>11. Linked(S \union {m}) /\ Tip(S \union {m}, m.id, m.to)
  <2>. HIDE DEF S
  <2>. QED BY <1>4, <1>6, <1>7, <1>8, <1>9, ExtendChain
<1>12. \A y \in Runners : runner'[y] = IF y = x THEN q ELSE runner[y]
  BY <1>1, <1>2
<1>13. runner' \in [Runners -> Run]
  BY <1>1, <1>2, <1>10
<1>14. \A k : BlocksOf(k)' = BlocksOf(k)
  BY <1>2 DEF BlocksOf
<1>15. serial' \in [Buckets -> Nat \ {0}] /\ \A a \in Buckets : serial[a] <= serial'[a]
       /\ serial[b] < serial'[b]
  BY <1>2, <1>3 DEF ChainInv
<1>16. \A k \in blocks : k.id < serial'[BucketOf[k.l]]
  <2>1. ASSUME NEW k \in blocks PROVE k.id < serial'[BucketOf[k.l]]
    <3>1. k.id \in Nat /\ BucketOf[k.l] \in Buckets /\ k.id < serial[BucketOf[k.l]]
      BY BucketsAssumption DEF ChainInv, Block
    <3>. QED BY <1>15, <3>1 DEF ChainInv
  <2>. QED BY <2>1
<1>17. ASSUME NEW y \in Runners PROVE RunnerOK(y)'
  <2>1. CASE y # x
    <3>1. runner'[y] = runner[y] /\ RunnerOK(y) /\ runner[y] \in Run
      BY <1>1, <1>12, <2>1 DEF ChainInv
    <3>2. ASSUME NEW k \in runner[y].new PROVE k.id < serial'[BucketOf[runner[y].l]]
      <4>1. k.id \in Nat /\ k.id < serial[BucketOf[runner[y].l]] /\ runner[y].l \in Ledgers
        BY <3>1, <3>2 DEF RunnerOK, Run, Block
      <4>. QED BY <1>15, <4>1, BucketsAssumption DEF ChainInv
    <3>. QED BY <1>14, <3>1, <3>2 DEF RunnerOK
  <2>2. CASE y = x
    <3>1. runner'[y] = q /\ q.new # {}
      BY <1>10, <1>12, <2>2
    <3>2. BlocksOf(l) \union q.new = S \union {m}
      BY <1>10
    <3>3. \A k \in q.new : k.l = l /\ k.id < serial'[b]
      <4>1. \A k \in c.new : k.l = l /\ k.id < serial[b] /\ k.id \in Nat
        BY <1>1, <1>3 DEF RunnerOK, Run, Block
      <4>2. serial'[b] \in Nat
        BY <1>3, <1>15
      <4>. QED BY <1>3, <1>9, <1>10, <1>15, <4>1, <4>2
    <3>4. \A j \in BlocksOf(l), k \in q.new : j.id < k.id
      <4>1. \A j \in BlocksOf(l), k \in c.new : j.id < k.id
        BY <1>3 DEF RunnerOK
      <4>. QED BY <1>7, <1>9, <1>10, <4>1
    <3>5. q.l = l /\ q.previous = m.id /\ q.last = m.to
      BY <1>10
    <3>. HIDE DEF c, l, b, S
    <3>. QED BY <1>3, <1>10, <1>11, <1>14, <3>1, <3>2, <3>3, <3>4, <3>5 DEF RunnerOK, b
  <2>. QED BY <2>1, <2>2
<1>18. OneCutter'
  <2>1. ASSUME NEW y \in Runners, NEW z \in Runners, runner'[y].new # {}, runner'[z].new # {},
               runner'[y].l = runner'[z].l, y # z
        PROVE  FALSE
    <3>1. CASE y = x
      BY <1>4, <1>10, <1>12, <2>1, <3>1
    <3>2. CASE z = x
      BY <1>4, <1>10, <1>12, <2>1, <3>2
    <3>3. CASE y # x /\ z # x
      BY <1>12, <2>1, <3>3 DEF ChainInv, OneCutter
    <3>. QED BY <3>1, <3>2, <3>3
  <2>. QED BY <2>1 DEF OneCutter
<1>. QED BY <1>2, <1>13, <1>14, <1>15, <1>16, <1>17, <1>18 DEF ChainInv, Run

(* A run ends, or meets the key of another one.                            *)
LEMMA EndRunStep ==
  ASSUME ChainInv, NEW x \in Runners, EndRun(x) \/ BlockConflict(x)
  PROVE  ChainInv'
<1>1. CASE EndRun(x)
  BY <1>1, NoRunTyped, IdleRunner DEF EndRun
<1>2. CASE BlockConflict(x)
  <2>. DEFINE b == BucketOf[runner[x].l]
  <2>1. /\ runner[x].pc = "cutting" /\ runner' = [runner EXCEPT ![x] = NoRun]
        /\ serial' = [serial EXCEPT ![b] = @ + 1] /\ UNCHANGED blocks
    BY <1>2 DEF BlockConflict
  <2>2. runner \in [Runners -> Run] /\ b \in Buckets
    BY <2>1, BucketsAssumption DEF ChainInv, RunnerOK, Run
  <2>3. \A y \in Runners : runner'[y] = IF y = x THEN NoRun ELSE runner[y]
    BY <2>1, <2>2
  <2>4. \A l : BlocksOf(l)' = BlocksOf(l)
    BY <2>1 DEF BlocksOf
  <2>5. runner' \in [Runners -> Run]
    BY <2>1, <2>2, NoRunTyped
  <2>6. serial' \in [Buckets -> Nat \ {0}] /\ \A a \in Buckets : serial[a] <= serial'[a]
    BY <2>1, <2>2 DEF ChainInv
  <2>7. ASSUME NEW k \in Block, k.id < serial[BucketOf[k.l]]
        PROVE  k.id < serial'[BucketOf[k.l]]
    <3>1. k.id \in Nat /\ BucketOf[k.l] \in Buckets
      BY BucketsAssumption DEF Block
    <3>. QED BY <2>6, <2>7, <3>1 DEF ChainInv
  <2>8. ASSUME NEW y \in Runners PROVE RunnerOK(y)'
    <3>1. CASE y = x
      BY <2>3, <3>1, NoRunTyped DEF RunnerOK
    <3>2. CASE y # x
      <4>1. runner'[y] = runner[y] /\ RunnerOK(y) /\ runner[y].new \subseteq Block
        BY <2>2, <2>3, <3>2 DEF ChainInv, Run
      <4>2. \A k \in runner[y].new : k.id < serial'[BucketOf[runner[y].l]]
        BY <2>7, <4>1 DEF RunnerOK
      <4>. QED BY <2>4, <4>1, <4>2 DEF RunnerOK
    <3>. QED BY <3>1, <3>2
  <2>9. OneCutter'
    BY <2>3, NoRunTyped DEF ChainInv, OneCutter
  <2>10. \A k \in blocks : k.id < serial'[BucketOf[k.l]]
    BY <2>7 DEF ChainInv
  <2>. QED BY <2>1, <2>4, <2>5, <2>6, <2>8, <2>9, <2>10 DEF ChainInv, Run
<1>. QED BY <1>1, <1>2

(* create_blocks commits.                                                  *)
LEMMA CommitBlocksStep ==
  ASSUME ChainInv, NEW x \in Runners, CommitBlocks(x)
  PROVE  ChainInv'
<1>. DEFINE c == runner[x]
            q == [NoRun EXCEPT !.pc = "listed", !.todo = c.todo]
<1>1. runner \in [Runners -> Run] /\ c \in Run /\ RunnerOK(x)
  BY DEF ChainInv, Run
<1>2. /\ c.pc = "cutting" /\ blocks' = blocks \union c.new
      /\ runner' = [runner EXCEPT ![x] = q] /\ UNCHANGED serial
  BY DEF CommitBlocks
<1>3. q \in Run /\ q.new = {} /\ q.pc # "cutting"
  BY <1>1 DEF NoRun, Run
<1>. HIDE DEF q
<1>4. \A y \in Runners : runner'[y] = IF y = x THEN q ELSE runner[y]
  BY <1>1, <1>2
<1>5. runner' \in [Runners -> Run] /\ blocks' \subseteq Block
  BY <1>1, <1>2, <1>3 DEF ChainInv, Run
<1>6. c.l \in Ledgers /\ \A k \in c.new : k.l = c.l /\ k.id < serial[BucketOf[c.l]]
  BY <1>1, <1>2 DEF RunnerOK
<1>7. \A k \in blocks' : k.id < serial'[BucketOf[k.l]]
  BY <1>2, <1>6 DEF ChainInv
<1>8. \A l : BlocksOf(l)' = IF l = c.l THEN BlocksOf(l) \union c.new ELSE BlocksOf(l)
  BY <1>2, <1>6 DEF BlocksOf
<1>9. \A l \in Ledgers : Linked(BlocksOf(l)')
  <2>1. Linked(BlocksOf(c.l) \union c.new)
    <3>1. CASE c.new = {}
      <4>1. BlocksOf(c.l) \union c.new = BlocksOf(c.l)
        BY <3>1
      <4>. QED BY <1>6, <4>1 DEF ChainInv
    <3>2. CASE c.new # {}
      BY <1>1, <3>2 DEF RunnerOK
    <3>. QED BY <3>1, <3>2
  <2>. QED BY <1>8, <2>1 DEF ChainInv
<1>10. ASSUME NEW y \in Runners PROVE RunnerOK(y)'
  <2>1. CASE y = x
    BY <1>3, <1>4, <2>1 DEF RunnerOK
  <2>2. CASE y # x
    <3>1. runner'[y] = runner[y] /\ RunnerOK(y)
      BY <1>4, <2>2 DEF ChainInv
    <3>2. CASE runner[y].new = {}
      <4>1. \A i, j : Place(BlocksOf(runner[y].l), i, j) => Place(BlocksOf(runner[y].l)', i, j)
        BY <1>8, <3>1 DEF Place
      <4>. QED BY <1>2, <3>1, <3>2, <4>1 DEF RunnerOK
    <3>3. CASE runner[y].new # {}
      <4>1. c.new = {} \/ runner[y].l # c.l
        BY <2>2, <3>3 DEF ChainInv, OneCutter
      <4>2. \A l : l = runner[y].l => BlocksOf(l)' = BlocksOf(l)
        BY <1>8, <4>1
      <4>. QED BY <1>2, <3>1, <4>2 DEF RunnerOK
    <3>. QED BY <3>2, <3>3
  <2>. QED BY <2>1, <2>2
<1>11. OneCutter'
  BY <1>3, <1>4 DEF ChainInv, OneCutter
<1>. QED BY <1>2, <1>5, <1>7, <1>9, <1>10, <1>11 DEF ChainInv, Run

(* A bucket is dropped: no runner is in it.                                *)
LEMMA HardDeleteStep ==
  ASSUME ChainInv, NEW b \in Buckets, HardDeleteBucket(b)
  PROVE  ChainInv'
<1>1. /\ ~InUse(b) /\ blocks' = {k \in blocks : k.l \notin In(b)}
      /\ serial' = [serial EXCEPT ![b] = 1] /\ UNCHANGED runner
  BY DEF HardDeleteBucket
<1>2. \A l \in Ledgers : BlocksOf(l)' = IF l \in In(b) THEN {} ELSE BlocksOf(l)
  BY <1>1 DEF BlocksOf
<1>3. Linked({})
  BY DEF Linked
<1>4. serial' \in [Buckets -> Nat \ {0}]
  BY <1>1 DEF ChainInv
<1>5. \A l \in Ledgers : l \notin In(b) => serial'[BucketOf[l]] = serial[BucketOf[l]]
  BY <1>1, BucketsAssumption DEF ChainInv, In
<1>6. \A k \in blocks' : k.id < serial'[BucketOf[k.l]]
  BY <1>1, <1>5 DEF ChainInv, Block
<1>7. ASSUME NEW x \in Runners PROVE RunnerOK(x)'
  <2>1. CASE runner[x].pc # "cutting"
    BY <1>1, <2>1 DEF ChainInv, RunnerOK
  <2>2. CASE runner[x].pc = "cutting"
    <3>1. runner[x].l \in Ledgers /\ runner[x].l \notin In(b) /\ RunnerOK(x) /\ runner'[x] = runner[x]
      BY <1>1, <2>2 DEF ChainInv, RunnerOK, InUse, In
    <3>2. \A l : l = runner[x].l => BlocksOf(l)' = BlocksOf(l)
      BY <1>2, <3>1
    <3>. QED BY <1>5, <3>1, <3>2 DEF RunnerOK
  <2>. QED BY <2>1, <2>2
<1>. QED BY <1>1, <1>2, <1>3, <1>4, <1>6, <1>7 DEF ChainInv, OneCutter

-----------------------------------------------------------------------------
(* The invariant holds.                                                    *)

LEMMA InitIInv == Init => IInv
<1>. SUFFICES ASSUME Init PROVE IInv
  OBVIOUS
<1>1. StateOK
  BY DEF Init, StateOK, NoRow, Idle, Entry
<1>2. RowsHaveSchema
  BY DEF Init, RowsHaveSchema, NoRow
<1>3. \A l : BlocksOf(l) = {}
  BY DEF Init, BlocksOf
<1>4. Linked({})
  BY DEF Linked
<1>5. runner \in [Runners -> Run] /\ \A x \in Runners : runner[x] = NoRun
  BY NoRunTyped DEF Init
<1>6. (\A x \in Runners : RunnerOK(x)) /\ OneCutter
  BY <1>5, NoRunTyped DEF RunnerOK, OneCutter
<1>7. ChainInv
  <2>1. blocks = {} /\ serial \in [Buckets -> Nat \ {0}]
    BY DEF Init
  <2>2. \A l \in Ledgers : Linked(BlocksOf(l))
    BY <1>3, <1>4
  <2>. QED BY <1>5, <1>6, <2>1, <2>2 DEF ChainInv, Run
<1>. QED BY <1>1, <1>2, <1>7 DEF IInv

LEMMA NextIInv == IInv /\ [Next]_vars => IInv'
<1>. SUFFICES ASSUME IInv, [Next]_vars PROVE IInv'
  OBVIOUS
<1>0. StateOK /\ RowsHaveSchema /\ ChainInv
  BY DEF IInv
<1>1. ASSUME NEW r \in Requests, NEW p \in Processes, NEW l \in Ledgers,
             CheckBucket(r, p, l) \/ GetLedger(r, p, l)
      PROVE  IInv'
  <2>1. UNCHANGED blockVars
    BY <1>1 DEF CheckBucket, GetLedger
  <2>. QED BY <1>0, <1>1, <2>1, FirstStepState, ChainKept DEF IInv
<1>2. ASSUME NEW r \in Requests,
             \/ Migrate(r) \/ InsertLedger(r) \/ CountWithNew(r)
             \/ SetAloneInBucket(r) \/ AbortLedger(r) \/ CountLedgers(r) \/ Read(r) \/ EndRequest(r)
      PROVE  IInv'
  <2>1. UNCHANGED blockVars
    BY <1>2 DEF Migrate, InsertLedger, CountWithNew, SetAloneInBucket, AbortLedger, CountLedgers,
       Read, EndRequest
  <2>. QED BY <1>0, <1>2, <2>1, RequestState, ChainKept DEF IInv
<1>3. ASSUME NEW r \in Requests, CommitLedger(r) PROVE IInv'
  <2>1. UNCHANGED blockVars
    BY <1>3 DEF CommitLedger
  <2>. QED BY <1>0, <1>3, <2>1, CommitLedgerState, ChainKept DEF IInv
<1>4. ASSUME \/ \E r \in Requests : DrawId(r)
             \/ \E l \in Ledgers : \E i \in pending[l] : EndWrite(l, i)
      PROVE  IInv'
  <2>1. UNCHANGED blockVars
    BY <1>4 DEF DrawId, EndWrite
  <2>. QED BY <1>0, <1>4, <2>1, WriteState, ChainKept DEF IInv
<1>5. CASE Tick \/ ListExpired
  <2>1. UNCHANGED blockVars /\ UNCHANGED <<row, schema, next, pending, logs, req>> /\ now' \in Nat
    BY <1>0, <1>5, BucketsAssumption DEF Tick, ListExpired, StateOK, ledgerVars, requestVars
  <2>2. StateOK' /\ RowsHaveSchema'
    BY <1>0, <2>1 DEF StateOK, RowsHaveSchema
  <2>. QED BY <1>0, <2>1, <2>2, ChainKept DEF IInv
<1>6. ASSUME NEW b \in Buckets,
             DeleteBucket(b) \/ RestoreBucket(b) \/ HardDeleteBucket(b) \/ HardDeleteFails(b)
      PROVE  IInv'
  <2>1. CASE HardDeleteBucket(b)
    BY <1>0, <1>6, <2>1, BucketState, HardDeleteStep DEF IInv
  <2>2. CASE ~HardDeleteBucket(b)
    <3>1. UNCHANGED blockVars
      BY <1>6, <2>2 DEF DeleteBucket, RestoreBucket, HardDeleteFails
    <3>. QED BY <1>0, <1>6, <3>1, BucketState, ChainKept DEF IInv
  <2>. QED BY <2>1, <2>2
<1>7. ASSUME NEW x \in Runners,
             \/ ListAsync(x) \/ CreateBlock(x) \/ BlockConflict(x) \/ CommitBlocks(x) \/ EndRun(x)
             \/ \E l \in Ledgers : CallCreateBlocks(x, l)
      PROVE  IInv'
  <2>1. UNCHANGED <<now, row, schema, ledgerVars, requestVars>>
    BY <1>7 DEF ListAsync, CreateBlock, BlockConflict, CommitBlocks, EndRun, CallCreateBlocks
  <2>2. StateOK' /\ RowsHaveSchema'
    BY <1>0, <2>1 DEF StateOK, RowsHaveSchema, ledgerVars, requestVars
  <2>3. ChainInv'
    BY <1>0, <1>7, ListAsyncStep, CreateBlockStep, EndRunStep, CommitBlocksStep, CallStep
  <2>. QED BY <2>2, <2>3 DEF IInv
<1>8. CASE UNCHANGED vars
  <2>1. UNCHANGED blockVars /\ UNCHANGED <<now, row, schema, next, pending, logs, req>>
    BY <1>8 DEF vars, blockVars
  <2>2. StateOK' /\ RowsHaveSchema'
    BY <1>0, <2>1 DEF StateOK, RowsHaveSchema
  <2>. QED BY <1>0, <2>1, <2>2, ChainKept DEF IInv
<1>. QED BY <1>1, <1>2, <1>3, <1>4, <1>5, <1>6, <1>7, <1>8 DEF Next

LEMMA Invariant == Spec => []IInv
BY InitIInv, NextIInv, PTL DEF Spec

(* A ledger's row is never left without the schema of its bucket, however  *)
(* creations, deletions, restorations and HardDeleteBucket interleave: the *)
(* rows of all ledgers of the bucket go with the schema, those created or  *)
(* restored after the worker listed the bucket included.                   *)
THEOREM RowsKeepTheirSchema == Spec => []RowsHaveSchema
<1>1. IInv => RowsHaveSchema
  BY DEF IInv
<1>. QED BY <1>1, Invariant, PTL

(* However many AsyncBlockRunners cut the logs of the same ledgers, with   *)
(* whatever batch size, and however often buckets are dropped and created  *)
(* again, the key on previous makes the blocks of each ledger one chain    *)
(* without overlap.                                                        *)
THEOREM BlocksFormOneChain == Spec => []BlocksAreAChain
<1>1. IInv => BlocksAreAChain
  <2>. SUFFICES ASSUME IInv, NEW k \in blocks
                PROVE  LET before == {j \in BlocksOf(k.l) : j.id < k.id}
                           latest == CHOOSE j \in before : \A i \in before : i.id <= j.id
                       IN /\ k.previous = IF before = {} THEN 0 ELSE latest.id
                          /\ k.from = IF before = {} THEN 0 ELSE latest.to
                          /\ \A j \in before : j.logs \intersect k.logs = {}
    BY DEF BlocksAreAChain
  <2>. DEFINE S == BlocksOf(k.l)
  <2>1. S \subseteq Block /\ Linked(S) /\ k \in S
    BY DEF IInv, ChainInv, BlocksOf, Block
  <2>. QED BY <2>1, ChainAtBlock
<1>. QED BY <1>1, Invariant, PTL
===============================================================================
