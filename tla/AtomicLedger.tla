---------------------------- MODULE AtomicLedger ----------------------------
(***************************************************************************)
(* What a ledger promises its clients: requests are executed one at a      *)
(* time, each against the balances its predecessors left; an idempotency   *)
(* key is executed once and answered from its log afterwards; a            *)
(* transaction is reverted once; a dry run changes nothing.  Ids need not  *)
(* follow the order of execution, except between transactions that touch   *)
(* the same account and, when logs are hashed, between all logs.           *)
(***************************************************************************)
EXTENDS Ledger

CONSTANT Ids     \* the ids sequences can give

VARIABLES volumes, transactions, reverted, logs, reply

tables == <<volumes, transactions, reverted, logs>>
vars   == <<tables, reply>>

Init ==
  /\ volumes = GenesisVolumes
  /\ transactions = GenesisTransactions
  /\ reverted = {}
  /\ logs = GenesisLogs
  /\ reply = [r \in Requests |-> None]

Answer(r, kind, log) == reply' = [reply EXCEPT ![r] = [kind |-> kind, log |-> log]]

-----------------------------------------------------------------------------
Balances(r, ps) == [a \in Query(r, ps) |-> Balance(LatestIn(volumes, a))]

\* The postings r asks for, with the id of the transaction they revert or 0.
Asked(r) ==
  IF Cmd[r].op = "create" THEN { [postings |-> Cmd[r].postings, reverts |-> 0] }
  ELSE { [postings |-> ReversePostings(t.postings), reverts |-> t.id] :
           t \in { u \in transactions : u.id = Cmd[r].target /\ u.id \notin reverted } }

Applicable(r) ==
  { w \in Asked(r) : w.postings # <<>> /\ Sufficient(r, w.postings, Balances(r, w.postings)) }

\* Transactions and logs are numbered in the order in which they touch an account.
FollowsOn(ps, id, n) ==
  \A t \in transactions : Overlap(t.postings, ps) =>
    t.id < id /\ \A l \in logs : l.tx = t.id => l.id < n

Execute(r) ==
  /\ ~Cmd[r].dry
  /\ \A l \in logs : Cmd[r].ik # None => l.ik # Cmd[r].ik
  /\ \A t \in transactions : Cmd[r].op = "create" /\ Cmd[r].ref # None => t.ref # Cmd[r].ref
  /\ \E w \in Applicable(r) :
       LET ps  == w.postings
           pcv == [a \in Accounts |-> IF a \in Involved(ps)
                                      THEN AddPostings(LatestIn(volumes, a), ps, a) ELSE None]
       IN  /\ volumes' = Merged(volumes, pcv)
           /\ reverted' = reverted \cup ({w.reverts} \ {0})
           /\ \E id \in Ids \ IdsOf(transactions), n \in Ids \ IdsOf(logs) :
                /\ FollowsOn(ps, id, n)
                /\ HashLogs => n > LastIn(logs)
                /\ Answer(r, "ok", n)
                /\ transactions' = transactions \cup
                     {[id |-> id, postings |-> ps, reverts |-> w.reverts, pcv |-> pcv,
                       ref |-> IF Cmd[r].op = "create" THEN Cmd[r].ref ELSE None]}
                /\ logs' = logs \cup {[id |-> n, prev |-> IF HashLogs THEN LastIn(logs) ELSE 0,
                                       ik |-> Cmd[r].ik, input |-> Input(r), tx |-> id]}

\* The key was executed before, with the same input.
Replay(r) ==
  /\ \E l \in logs : Cmd[r].ik # None /\ l.ik = Cmd[r].ik /\ l.input = Input(r)
                     /\ Answer(r, "hit", l.id)
  /\ UNCHANGED tables

(***************************************************************************)
(* A refusal.  Only some have a reason that must still hold when they are  *)
(* given; "insufficient_fund" may be stale.                                *)
(***************************************************************************)
Reasons(r) ==
  {"insufficient_fund", "no_postings", "not_found", "dry_run", "accounts_conflict", "panic"}
  \cup { k \in {"already_reverted"} : Cmd[r].target \in reverted }
  \cup { k \in {"reference_conflict"} : \E t \in transactions : t.ref = Cmd[r].ref }
  \cup { k \in {"ik_input_mismatch"} : \E l \in logs : l.ik = Cmd[r].ik /\ l.input # Input(r) }

Refuse(r) ==
  /\ \E k \in Reasons(r) : Answer(r, k, 0)
  /\ UNCHANGED tables

\* The answer is lost: the client asks again.
Forget(r) ==
  /\ reply' = [reply EXCEPT ![r] = None]
  /\ UNCHANGED tables

Next == \E r \in Requests : Execute(r) \/ Replay(r) \/ Refuse(r) \/ Forget(r)

Spec == Init /\ [][Next]_vars
=============================================================================
