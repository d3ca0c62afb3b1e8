--------------------------- MODULE MCLedgerWrite ---------------------------
(* Instances of LedgerWrite for TLC: one set of requests per question.      *)
EXTENDS LedgerWrite, TLC

CONSTANTS r1, r2, r3, r4, r5

\* Four accounts of four addresses in one asset, and five of three addresses:
\* a:USD, b:EUR, b:USD, world:EUR, world:USD.
MCAccounts      == 1..4
MCAddressOf     == <<"a", "b", "c", "world">>
AssetsAccounts  == 1..5
AssetsAddresses == <<"a", "b", "b", "world", "world">>

Send(src, dst, amt) == [src |-> src, dst |-> dst, amt |-> amt]

Create(ps) == [op |-> "create", postings |-> ps, overdraft |-> 0, ref |-> None, ik |-> None,
               dry |-> FALSE, target |-> 0, force |-> FALSE]
Revert(id)      == [Create(<<>>) EXCEPT !.op = "revert", !.target = id]
WithKey(c, k)   == [c EXCEPT !.ik = k]
WithRef(c, x)   == [c EXCEPT !.ref = x]
Overdraw(c, n)  == [c EXCEPT !.overdraft = n]
DryRun(c)       == [c EXCEPT !.dry = TRUE]
Forced(c)       == [c EXCEPT !.force = TRUE]

-----------------------------------------------------------------------------
(* Transfers over the same accounts in opposite orders: deadlocks, and a    *)
(* bounded overdraft on an account that has a row.                          *)

TransferGenesis == << <<Send(4, 1, 1), Send(4, 2, 2)>> >>
TransferCmd == r1 :> Overdraw(Create(<<Send(1, 2, 2)>>), 2)
            @@ r2 :> Create(<<Send(2, 1, 1), Send(2, 3, 1)>>)
            @@ r3 :> Overdraw(Create(<<Send(1, 3, 2), Send(3, 2, 1)>>), 2)
            @@ r4 :> Create(<<>>)

-----------------------------------------------------------------------------
(* One key: sent twice with the same input and once with another, which     *)
(* pays another asset to the same new address, and sent again when an       *)
(* answer is lost.                                                          *)

KeyGenesis == << <<Send(5, 1, 3)>> >>
KeyCmd == r1 :> WithKey(Create(<<Send(1, 3, 1)>>), "k")
       @@ r2 :> WithKey(Create(<<Send(1, 3, 1)>>), "k")
       @@ r3 :> WithKey(Overdraw(Create(<<Send(4, 2, 1)>>), Unbounded), "k")

-----------------------------------------------------------------------------
(* Hashed logs.  A transaction reverted twice, once by force, while its     *)
(* funds are being spent; a reference used twice, by transactions in two    *)
(* assets; a dry run of the revert of a transaction that is not there yet.  *)

RevertGenesis == << <<Send(5, 1, 2)>>, <<Send(1, 3, 2)>> >>
RevertCmd == r1 :> Revert(2)
          @@ r2 :> Forced(Revert(2))
          @@ r3 :> WithRef(Create(<<Send(3, 1, 1)>>), "x")
          @@ r4 :> WithRef(Overdraw(Create(<<Send(4, 2, 1)>>), Unbounded), "x")
          @@ r5 :> DryRun(Revert(3))

-----------------------------------------------------------------------------
(* Two withdrawals from an account nobody has used, each within the         *)
(* overdraft it allows.                                                     *)

NoGenesis == << >>
NewAccountCmd == r1 :> Overdraw(Create(<<Send(1, 2, 2)>>), 2)
              @@ r2 :> Overdraw(Create(<<Send(1, 3, 2)>>), 2)

============================================================================
