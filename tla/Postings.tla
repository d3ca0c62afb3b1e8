------------------------------ MODULE Postings ------------------------------
(***************************************************************************)
(* The pure part of a ledger transaction: what a list of postings does to  *)
(* the volumes of the accounts it names (internal/transaction.go,          *)
(* internal/posting.go), which funds the numscript machine lets it take    *)
(* (internal/machine/vm/machine.go), what a revert checks                  *)
(* (internal/controller/ledger/controller_default.go), and the moves       *)
(* recorded for it (internal/storage/ledger/transactions.go).              *)
(*                                                                         *)
(* An account here is a row of accounts_volumes, that is an (address,      *)
(* asset) pair.  A posting moves an amount of one asset.                   *)
(***************************************************************************)
EXTENDS Integers, Sequences, SequencesExt

CONSTANTS
  Accounts,     \* in the order of the rows: by address, then by asset
  AddressOf,    \* the address of each account
  World         \* the address that may always go negative

Posting == [src : Accounts, dst : Accounts, amt : Nat]

Volume  == [in : Nat, out : Nat]
Nothing == [in |-> 0, out |-> 0]

Balance(v) == v.in - v.out

IsWorld(a) == AddressOf[a] = World

Sources(ps)      == { ps[i].src : i \in DOMAIN ps }
Destinations(ps) == { ps[i].dst : i \in DOMAIN ps }
Involved(ps)     == Sources(ps) \cup Destinations(ps)

InputOf(ps, a)  == SumFunction([i \in DOMAIN ps |-> IF ps[i].dst = a THEN ps[i].amt ELSE 0])
OutputOf(ps, a) == SumFunction([i \in DOMAIN ps |-> IF ps[i].src = a THEN ps[i].amt ELSE 0])

\* The volumes of account a, v before the postings, once they are applied.
AddPostings(v, ps, a) == [in |-> v.in + InputOf(ps, a), out |-> v.out + OutputOf(ps, a)]

Swap(p) == [src |-> p.dst, dst |-> p.src, amt |-> p.amt]

\* Faulty: the postings are swapped but keep their order.
SwapPostings(ps)    == [i \in DOMAIN ps |-> Swap(ps[i])]
ReversePostings(ps) == [i \in DOMAIN ps |-> Swap(ps[Len(ps) + 1 - i])]

\* The tracked balances bal once the postings are applied.
After(bal, ps) == [a \in DOMAIN bal |-> bal[a] + InputOf(ps, a) - OutputOf(ps, a)]

(***************************************************************************)
(* The machine's run of one "send" per posting, each against the balances  *)
(* the earlier ones left.  Only the accounts in the domain of bal are      *)
(* tracked: an account that may go unboundedly negative (world, or         *)
(* "allowing unbounded overdraft") is not.                                 *)
(***************************************************************************)
\* Faulty: the overdraft is the limit of one posting, whatever the balance.
ShortOfOverdraft(bal, p, overdraft) ==
  p.src \in DOMAIN bal /\ p.amt > 0 /\ bal[p.src] < p.amt /\ overdraft < p.amt

Short(bal, p, overdraft) ==
  p.src \in DOMAIN bal /\ p.amt > 0 /\ bal[p.src] + overdraft < p.amt

Executable(ps, overdraft, bal) ==
  \A i \in DOMAIN ps : ~Short(After(bal, SubSeq(ps, 1, i - 1)), ps[i], overdraft)

(***************************************************************************)
(* The balance check of a revert that is not forced.  ps are the reversed  *)
(* postings and bal the balances read, those of their sources.  Final      *)
(* balances only are compared with 0.  The code looks a destination up by  *)
(* its address alone, then adds to the balance of its asset: that balance  *)
(* is nil if the address was only read for other assets.                   *)
(***************************************************************************)
Revertible(ps, bal) ==
  \A a \in DOMAIN bal : IsWorld(a) \/ After(bal, ps)[a] >= 0

MissesAsset(ps, bal) ==
  \E a \in Destinations(ps) \ DOMAIN bal : \E b \in DOMAIN bal : AddressOf[b] = AddressOf[a]

(***************************************************************************)
(* CommitTransaction derives the volumes after each move from those after  *)
(* the whole transaction, pcv, walking the postings backwards.  The moves  *)
(* of posting i are 2i - 1 (its source) and 2i (its destination).          *)
(***************************************************************************)
\* Faulty: the amount leaves the input before the destination's move is recorded.
TakeBackFirst(s, p) ==
  LET noInput == [s.pcv EXCEPT ![p.dst].in = @ - p.amt]
  IN  [pcv   |-> [noInput EXCEPT ![p.src].out = @ - p.amt],
       moves |-> << [account |-> p.src, volume |-> noInput[p.src]],
                    [account |-> p.dst, volume |-> noInput[p.dst]] >> \o s.moves]

TakeBack(s, p) ==
  LET dstMove == [account |-> p.dst, volume |-> s.pcv[p.dst]]
      noInput == [s.pcv EXCEPT ![p.dst].in = @ - p.amt]
      srcMove == [account |-> p.src, volume |-> noInput[p.src]]
  IN  [pcv   |-> [noInput EXCEPT ![p.src].out = @ - p.amt],
       moves |-> <<srcMove, dstMove>> \o s.moves]

Moves(pcv, ps) ==
  FoldRight(LAMBDA p, s : TakeBack(s, p), ps, [pcv |-> pcv, moves |-> <<>>]).moves
=============================================================================
