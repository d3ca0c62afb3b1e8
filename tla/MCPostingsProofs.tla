--------------------------- MODULE MCPostingsProofs ---------------------------
(***************************************************************************)
(* What MCPostings checks on short lists of small amounts holds of every   *)
(* list of postings that MCPostings can build, whatever its bounds: the    *)
(* facts of PostingsProofs, along its behaviours.                          *)
(***************************************************************************)
EXTENDS MCPostings, PostingsProofs

\* Lists grow by postings, and balances at first are natural numbers.
Typed == ps \in Seq(Posting) /\ before \in [Accounts -> Nat] /\ overdraft \in Nat

LEMMA TypedAlways == Spec => []Typed
<1>1. Init => Typed
  <2> SUFFICES ASSUME Init PROVE Typed
    OBVIOUS
  <2>1. before \in [Accounts -> Nat] /\ overdraft \in Nat
    BY DEF Init
  <2>2. ps \in Seq(Posting)
    BY EmptySeq DEF Init
  <2> QED
    BY <2>1, <2>2 DEF Typed
<1>2. Typed /\ [Next]_<<ps, before, overdraft>> => Typed'
  <2> SUFFICES ASSUME Typed, [Next]_<<ps, before, overdraft>> PROVE Typed'
    OBVIOUS
  <2>1. CASE Next
    <3>1. PICK s \in Accounts, d \in Accounts, n \in 1..MaxAmount :
            ps' = Append(ps, [src |-> s, dst |-> d, amt |-> n])
      BY <2>1 DEF Next
    <3>2. [src |-> s, dst |-> d, amt |-> n] \in Posting
      BY DEF Posting
    <3>3. ps' \in Seq(Posting)
      BY <3>1, <3>2, AppendProperties DEF Typed
    <3> QED
      BY <2>1, <3>3 DEF Next, Typed
  <2>2. CASE UNCHANGED <<ps, before, overdraft>>
    BY <2>2 DEF Typed
  <2> QED
    BY <2>1, <2>2
<1> QED
  BY <1>1, <1>2, PTL DEF Spec

(***************************************************************************)
(* The machine's check of each posting, in the order of the postings,      *)
(* bounds what every tracked account is left with at the end               *)
(* (ExecutableBounds).                                                     *)
(***************************************************************************)
THEOREM MachineBoundsBalances == Spec => []ExecutableBounds
<1>1. Typed => ExecutableBounds
  <2> SUFFICES ASSUME Typed, Executable(ps, overdraft, before), NEW a \in Accounts
               PROVE  After(before, ps)[a] >= -overdraft
    BY DEF ExecutableBounds
  <2>1. /\ before \in [Accounts -> Int] /\ ps \in Seq(Posting) /\ overdraft \in Int
        /\ before[a] \in Nat /\ overdraft \in Nat
    BY DEF Typed
  <2>2. After(before, ps)[a] >= before[a] \/ After(before, ps)[a] >= -overdraft
    BY <2>1, ExecutableFloorAtEnd
  <2>3. After(before, ps)[a] \in Int
    <3>1. InputOf(ps, a) \in Nat /\ OutputOf(ps, a) \in Nat
      BY <2>1, InputOutputNat
    <3> QED
      BY <2>1, <3>1 DEF After
  <2> QED
    BY <2>1, <2>2, <2>3
<1> QED
  BY <1>1, TypedAlways, PTL

(***************************************************************************)
(* Reversing a transaction restores every balance, and both the machine    *)
(* and the check of a revert accept it if the transaction was accepted     *)
(* without overdraft (ReverseUndoes).                                      *)
(***************************************************************************)
THEOREM ReversingUndoes == Spec => []ReverseUndoes
<1>1. Typed => ReverseUndoes
  <2> SUFFICES ASSUME Typed PROVE ReverseUndoes
    OBVIOUS
  <2> DEFINE back == ReversePostings(ps)
             then == After(before, ps)
             src  == [a \in Sources(back) |-> then[a]]
  <2>1. ps \in Seq(Posting) /\ before \in [Accounts -> Nat] /\ before \in [Accounts -> Int]
    BY DEF Typed
  <2>2. After(then, back) = before
    BY <2>1, ReverseRestores
  <2>3. Involved(ps) \subseteq Accounts
    <3>1. \A i \in DOMAIN ps : ps[i] \in Posting
      BY <2>1, SumsOfPostings
    <3> QED
      BY <3>1 DEF Involved, Sources, Destinations, Posting
  <2>4. Executable(ps, 0, before) => Executable(back, 0, then)
    BY <2>1, <2>3, ReverseExecutable
  <2>5. Revertible(back, src)
    <3>1. Sources(back) \subseteq Accounts
      BY <2>1, <2>3, ReverseNames DEF Involved
    <3> HIDE DEF back, then
    <3>2. DOMAIN then = Accounts
      BY DEF then, After, Typed
    <3>3. \A a \in Sources(back) : After(src, back)[a] = After(then, back)[a]
      BY <3>1, <3>2 DEF After
    <3>4. \A a \in Sources(back) : After(src, back)[a] >= 0
      <4>1. \A a \in Accounts : before[a] \in Nat
        BY <2>1
      <4> HIDE DEF src
      <4> QED
        BY <2>2, <3>1, <3>3, <4>1
    <3> QED
      BY <3>4 DEF Revertible
  <2> QED
    BY <2>2, <2>4, <2>5 DEF ReverseUndoes
<1> QED
  BY <1>1, TypedAlways, PTL

(***************************************************************************)
(* Walking backwards from the final volumes gives each move the volumes of *)
(* its account at its place in the list (MovesFollowPostings).             *)
(***************************************************************************)
THEOREM MovesAreInOrder == Spec => []MovesFollowPostings
<1>1. Typed => MovesFollowPostings
  <2> SUFFICES ASSUME Typed PROVE MovesFollowPostings
    OBVIOUS
  <2> DEFINE vol   == VolumeOf(before)
             pcv   == [a \in Accounts |-> AddPostings(vol[a], ps, a)]
             moves == Moves(pcv, ps)
  <2>1. ps \in Seq(Posting) /\ before \in [Accounts -> Nat]
    BY DEF Typed
  <2>2. vol \in [Accounts -> Volume]
    BY <2>1 DEF VolumeOf, Volume
  <2>3. DOMAIN ps = 1..Len(ps) /\ \A i \in 1..Len(ps) : ps[i].src \in Accounts /\ ps[i].dst \in Accounts
    BY <2>1, SumsOfPostings DEF Posting
  <2> HIDE DEF vol
  <2>4. /\ Len(moves) = 2 * Len(ps)
        /\ \A i \in 1..Len(ps) : /\ moves[2 * i - 1] = TakenMove(vol, ps, i)
                                 /\ moves[2 * i] = BroughtMove(vol, ps, i)
    BY <2>1, <2>2, MovesAre
  <2> HIDE DEF moves
  <2>5. ASSUME NEW i \in DOMAIN ps
        PROVE  /\ moves[2*i - 1] =
                    [account |-> ps[i].src,
                     volume  |-> [AddPostings(vol[ps[i].src], SubSeq(ps, 1, i - 1), ps[i].src)
                                    EXCEPT !.out = @ + ps[i].amt]]
               /\ moves[2*i] = [account |-> ps[i].dst,
                                volume |-> AddPostings(vol[ps[i].dst], SubSeq(ps, 1, i), ps[i].dst)]
    <3>1. moves[2*i - 1] = TakenMove(vol, ps, i) /\ moves[2*i] = BroughtMove(vol, ps, i)
      BY <2>3, <2>4
    <3>2. ps[i].src \in Accounts /\ ps[i].dst \in Accounts
      BY <2>3
    <3> QED
      BY <3>1, <3>2 DEF TakenMove, BroughtMove, VolumesAfter
  <2> QED
    BY <2>4, <2>5 DEF MovesFollowPostings, moves, vol
<1> QED
  BY <1>1, TypedAlways, PTL
=============================================================================
