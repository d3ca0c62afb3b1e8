----------------------------- MODULE MCPostings -----------------------------
(***************************************************************************)
(* The operators of Postings against their meaning, on every list of at    *)
(* most MaxPostings postings: the list grows by one posting at a time.     *)
(***************************************************************************)
EXTENDS Postings

CONSTANTS MaxPostings, MaxAmount, MaxBalance

MCAddressOf == <<"a", "b", "c">>

VARIABLES
  ps,          \* the postings
  before,      \* the balances before them
  overdraft    \* the overdraft the script allows

Init ==
  /\ ps = << >>
  /\ before \in [Accounts -> 0..MaxBalance]
  /\ overdraft \in 0..MaxBalance

Next ==
  /\ Len(ps) < MaxPostings
  /\ \E s, d \in Accounts, n \in 1..MaxAmount : ps' = Append(ps, [src |-> s, dst |-> d, amt |-> n])
  /\ UNCHANGED <<before, overdraft>>

Spec == Init /\ [][Next]_<<ps, before, overdraft>>

\* Volumes with the given balances.
VolumeOf(bal) == [a \in Accounts |-> [in |-> bal[a], out |-> 0]]

(***************************************************************************)
(* The volumes recorded with a move are those of its account once the      *)
(* postings before it, and its own posting's earlier move, are applied:    *)
(* walking backwards from the final volumes gives the same.                *)
(***************************************************************************)
MovesFollowPostings ==
  LET pcv   == [a \in Accounts |-> AddPostings(VolumeOf(before)[a], ps, a)]
      moves == Moves(pcv, ps)
  IN  /\ Len(moves) = 2 * Len(ps)
      /\ \A i \in DOMAIN ps :
           LET earlier == SubSeq(ps, 1, i - 1)
               taken   == [AddPostings(VolumeOf(before)[ps[i].src], earlier, ps[i].src)
                             EXCEPT !.out = @ + ps[i].amt]
           IN  /\ moves[2*i - 1] = [account |-> ps[i].src, volume |-> taken]
               /\ moves[2*i] = [account |-> ps[i].dst,
                                volume |-> AddPostings(VolumeOf(before)[ps[i].dst],
                                                       SubSeq(ps, 1, i), ps[i].dst)]

(***************************************************************************)
(* Whatever the machine accepts leaves no tracked account below the        *)
(* overdraft: its check of each posting bounds the final balances.         *)
(***************************************************************************)
ExecutableBounds ==
  Executable(ps, overdraft, before) =>
    \A a \in Accounts : After(before, ps)[a] >= -overdraft

(***************************************************************************)
(* A transaction the machine accepts without overdraft can be reverted at  *)
(* once, posting by posting in the reverse order, and that restores every  *)
(* balance.  The check of the final balances accepts it too.               *)
(***************************************************************************)
ReverseUndoes ==
  LET back == ReversePostings(ps)
      then == After(before, ps)
  IN  /\ After(then, back) = before
      /\ Executable(ps, 0, before) =>
           /\ Executable(back, 0, then)
           /\ Revertible(back, [a \in Sources(back) |-> then[a]])
=============================================================================
