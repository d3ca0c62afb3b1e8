------------------------------- MODULE Ledger -------------------------------
(***************************************************************************)
(* What the tables of a ledger hold and what clients ask of it: the        *)
(* vocabulary shared by AtomicLedger, which says what a ledger promises,   *)
(* and LedgerWrite, which says how the code does it.                       *)
(***************************************************************************)
EXTENDS Postings, FiniteSets

CONSTANTS
  Requests,    \* the client requests
  None,        \* no idempotency key, no reference, no answer, no row
  Unbounded,   \* "allowing unbounded overdraft"
  Cmd,         \* what each request asks for, a Command
  Genesis,     \* postings of the transactions committed before, a sequence
  HashLogs     \* feature HASH_LOGS = SYNC

\* reverts and target are transaction ids; 0 is "none", as ids start at 1.
Command(c) ==
  /\ c.op \in {"create", "revert"}
  /\ c.postings \in Seq(Posting)
  /\ c.overdraft \in Nat \cup {Unbounded}
  /\ c.target \in Nat
  /\ c.force \in BOOLEAN
  /\ c.dry \in BOOLEAN

\* Every list of postings a transaction can have, and the empty list.
GivenScripts == {<<>>} \cup { Genesis[i] : i \in DOMAIN Genesis }
                       \cup { Cmd[r].postings : r \in Requests }
Scripts == GivenScripts \cup { ReversePostings(ps) : ps \in GivenScripts }

\* The volumes of an account after the first n transactions of Genesis.
GenesisVolume(n, a) ==
  [in  |-> SumFunction([i \in 1..n |-> InputOf(Genesis[i], a)]),
   out |-> SumFunction([i \in 1..n |-> OutputOf(Genesis[i], a)])]

ASSUME CommandAssumption ==
  /\ Accounts \subseteq Nat /\ None \notin Volume /\ Unbounded \notin Nat
  /\ \A r \in Requests : Command(Cmd[r])
  /\ Genesis \in Seq(Seq(Posting))
  /\ HashLogs \in BOOLEAN

\* The request as the idempotency hash sees it.
Input(r) == [Cmd[r] EXCEPT !.ik = None, !.dry = FALSE]

\* The accounts whose balance the operation of r reads, for the postings ps.
Query(r, ps) ==
  IF Cmd[r].op = "revert" THEN Sources(ps)
  ELSE { a \in Sources(ps) : ~IsWorld(a) /\ Cmd[r].overdraft # Unbounded }

\* The machine runs, or the balances after the revert are checked.
Sufficient(r, ps, bal) ==
  IF Cmd[r].op = "create" THEN Executable(ps, Cmd[r].overdraft, bal)
                          ELSE Cmd[r].force \/ Revertible(ps, bal)

GenesisTransactions ==
  { [id |-> i, postings |-> Genesis[i], ref |-> None, reverts |-> 0,
     pcv |-> [a \in Accounts |-> IF a \in Involved(Genesis[i]) THEN GenesisVolume(i, a) ELSE None]] :
      i \in DOMAIN Genesis }

GenesisLogs ==
  { [id |-> i, prev |-> IF HashLogs THEN i - 1 ELSE 0, ik |-> None, input |-> None, tx |-> i] :
      i \in DOMAIN Genesis }

GenesisAccounts == UNION { Involved(Genesis[i]) : i \in DOMAIN Genesis }

GenesisVolumes ==
  [a \in Accounts |-> IF a \in GenesisAccounts THEN GenesisVolume(Len(Genesis), a) ELSE None]

\* A table of rows by account, some of which do not exist.
VolumeTable == [Accounts -> Volume \cup {None}]

Rows(table)          == { a \in Accounts : table[a] # None }
LatestIn(table, a)   == IF a \in Rows(table) THEN table[a] ELSE Nothing
Merged(old, new)     == [a \in Accounts |-> IF a \in Rows(new) THEN new[a] ELSE old[a]]

IdsOf(table) == { x.id : x \in table }

LastIn(table) == IF table = {} THEN 0 ELSE CHOOSE n \in IdsOf(table) : \A m \in IdsOf(table) : m <= n

Overlap(ps, qs) == Involved(ps) \cap Involved(qs) # {}
=============================================================================
