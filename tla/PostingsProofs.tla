--------------------------- MODULE PostingsProofs ---------------------------
(***************************************************************************)
(* Facts about Postings for lists of postings of any length: what a list   *)
(* adds to an account, what reversing it does, and what the check of each  *)
(* posting says of the balances at the end.                                *)
(*                                                                         *)
(* They rest on facts about sums over finite sets.  Induction is by the    *)
(* least counterexample: the induction principles below speak of sets, so  *)
(* that no operator has to be instantiated.                                *)
(***************************************************************************)
EXTENDS Postings, FiniteSetTheorems, SequenceTheorems, WellFoundedInduction, TLAPS

-----------------------------------------------------------------------------
(* Induction over sets of numbers and over subsets of a finite set.         *)

\* A set of naturals that is not empty has a least element.
LEMMA Least ==
  ASSUME NEW S, S \subseteq Nat, S # {}
  PROVE  \E x \in S : \A y \in S : x <= y
<1>1. \E x \in S : \A y \in S : ~ (<<y, x>> \in OpToRel(<, Nat))
  BY NatLessThanWellFounded, WFMin
<1>2. PICK x \in S : \A y \in S : ~ (<<y, x>> \in OpToRel(<, Nat))
  BY <1>1
<1>3. \A y \in S : ~ (y < x)
  BY <1>2 DEF OpToRel
<1> QED
  BY <1>3

\* A set that has 0 and with each number the next has every natural number.
LEMMA NaturalInduction ==
  ASSUME NEW P, 0 \in P, \A n \in Nat : n \in P => n + 1 \in P
  PROVE  Nat \subseteq P
<1> SUFFICES ASSUME Nat \ P # {} PROVE FALSE
  OBVIOUS
<1>1. PICK n \in Nat \ P : \A m \in Nat \ P : n <= m
  BY Least
<1>2. n # 0 /\ n - 1 \in Nat /\ n - 1 \in P
  BY <1>1
<1> QED
  BY <1>1, <1>2

\* A set of subsets of S that has the empty set, and with each subset the ones
\* that have one more element, has S itself, if S is finite.
LEMMA FiniteInduction ==
  ASSUME NEW S, IsFiniteSet(S), NEW P, {} \in P,
         \A T \in SUBSET S : \A x \in S \ T : T \in P => T \cup {x} \in P
  PROVE  S \in P
<1> DEFINE Q == { n \in Nat : \A T \in SUBSET S : Cardinality(T) = n => T \in P }
<1>1. \A T \in SUBSET S : IsFiniteSet(T) /\ Cardinality(T) \in Nat
  BY FS_Subset, FS_CardinalityType
<1>2. 0 \in Q
  BY <1>1, FS_EmptySet
<1>3. ASSUME NEW n \in Nat, n \in Q PROVE n + 1 \in Q
  <2> SUFFICES ASSUME NEW T \in SUBSET S, Cardinality(T) = n + 1 PROVE T \in P
    OBVIOUS
  <2>1. PICK x \in T : TRUE
    BY <1>1, FS_EmptySet
  <2>2. Cardinality(T \ {x}) = n
    <3>1. IsFiniteSet(T) /\ Cardinality(T \ {x}) = Cardinality(T) - 1
      BY <1>1, FS_RemoveElement
    <3> QED
      BY <3>1
  <2>3. T \ {x} \in P
    BY <1>3, <2>2
  <2>4. T = (T \ {x}) \cup {x} /\ x \in S \ (T \ {x}) /\ T \ {x} \in SUBSET S
    OBVIOUS
  <2> QED
    BY <2>3, <2>4
<1>4. Nat \subseteq Q
  <2> HIDE DEF Q
  <2> QED
    BY <1>2, <1>3, NaturalInduction
<1> QED
  BY <1>1, <1>4

-----------------------------------------------------------------------------
(* Sums over a finite set.  Pick is the order in which they are taken.      *)

Pick(s) == CHOOSE x \in s : TRUE

\* g gives the sum of f over each member of D, a set of sets.
Summed(f, D, g) ==
  g = [s \in D |-> IF s = {} THEN 0 ELSE f[Pick(s)] + g[s \ {Pick(s)}]]

\* The sum of the library is the value at S of the function its recursion defines.
LEMMA SumIsSummed ==
  ASSUME NEW f, NEW S
  PROVE  SumFunctionOnSet(f, S) = (CHOOSE g : Summed(f, SUBSET S, g))[S]
BY DEF SumFunctionOnSet, FoldFunctionOnSet, MapThenFoldSet, Summed, Pick

\* That recursion has a solution: on the subsets of at most n elements, for each n.
LEMMA SummedExists ==
  ASSUME NEW f, NEW S, IsFiniteSet(S)
  PROVE  \E g : Summed(f, SUBSET S, g)
<1> DEFINE Upto(n) == { s \in SUBSET S : Cardinality(s) <= n }
           Q == { n \in Nat : \E g : Summed(f, Upto(n), g) }
<1>1. \A s \in SUBSET S : /\ IsFiniteSet(s) /\ Cardinality(s) \in Nat
                          /\ s # {} => Pick(s) \in s /\ Cardinality(s \ {Pick(s)}) = Cardinality(s) - 1
  BY FS_Subset, FS_CardinalityType, FS_RemoveElement DEF Pick
<1>0. \A s \in SUBSET S : IsFiniteSet(s) /\ Cardinality(s) \in Nat
  BY FS_Subset, FS_CardinalityType
<1>2. 0 \in Q
  <2>1. Upto(0) = {{}}
    <3>1. \A s \in SUBSET S : Cardinality(s) = 0 <=> s = {}
      BY <1>0, FS_EmptySet
    <3>2. \A s \in SUBSET S : Cardinality(s) <= 0 <=> Cardinality(s) = 0
      BY <1>0
    <3> QED
      BY <3>1, <3>2
  <2>2. Summed(f, Upto(0), [s \in {{}} |-> 0])
    BY <2>1 DEF Summed
  <2> QED
    BY <2>2
<1>3. ASSUME NEW n \in Nat, n \in Q PROVE n + 1 \in Q
  <2>1. PICK g : Summed(f, Upto(n), g)
    BY <1>3
  <2> DEFINE h == [s \in Upto(n + 1) |-> IF s = {} THEN 0 ELSE f[Pick(s)] + g[s \ {Pick(s)}]]
  <2>2. \A s \in Upto(n) : g[s] = IF s = {} THEN 0 ELSE f[Pick(s)] + g[s \ {Pick(s)}]
    BY <2>1 DEF Summed
  <2>3. \A s \in Upto(n) : s \in Upto(n + 1) /\ h[s] = g[s]
    <3>1. \A s \in SUBSET S : Cardinality(s) <= n => Cardinality(s) <= n + 1
      BY <1>0
    <3>2. \A s \in Upto(n) : s \in Upto(n + 1)
      BY <3>1
    <3> HIDE DEF Upto
    <3> QED
      BY <3>2, <2>2
  <2>4. \A s \in Upto(n + 1) : s # {} => s \ {Pick(s)} \in Upto(n)
    BY <1>1
  <2>5. h = [s \in Upto(n + 1) |-> IF s = {} THEN 0 ELSE f[Pick(s)] + h[s \ {Pick(s)}]]
    <3> HIDE DEF Upto
    <3>1. \A s \in Upto(n + 1) : s # {} => h[s \ {Pick(s)}] = g[s \ {Pick(s)}]
      BY <2>3, <2>4
    <3> QED
      BY <3>1
  <2>6. Summed(f, Upto(n + 1), h)
    BY <2>5 DEF Summed
  <2> QED
    <3> HIDE DEF Upto, h
    <3> QED
      BY <2>6
<1>4. Nat \subseteq Q
  <2> HIDE DEF Q
  <2> QED
    BY <1>2, <1>3, NaturalInduction
<1>5. Upto(Cardinality(S)) = SUBSET S /\ Cardinality(S) \in Nat
  BY <1>1, FS_Subset
<1> QED
  BY <1>4, <1>5

\* It has one solution on each set: two of them agree.
LEMMA SummedAgree ==
  ASSUME NEW f, NEW S, IsFiniteSet(S), NEW T \in SUBSET S, NEW g, NEW h,
         Summed(f, SUBSET S, g), Summed(f, SUBSET T, h)
  PROVE  g[T] = h[T]
<1> DEFINE Q == { n \in Nat : \A s \in SUBSET T : Cardinality(s) = n => g[s] = h[s] }
<1>1. \A s \in SUBSET T : /\ IsFiniteSet(s) /\ Cardinality(s) \in Nat
                          /\ s # {} => Pick(s) \in s /\ Cardinality(s \ {Pick(s)}) = Cardinality(s) - 1
  BY FS_Subset, FS_CardinalityType, FS_RemoveElement DEF Pick
<1>2. \A s \in SUBSET T : s \in SUBSET S
        /\ g[s] = (IF s = {} THEN 0 ELSE f[Pick(s)] + g[s \ {Pick(s)}])
        /\ h[s] = (IF s = {} THEN 0 ELSE f[Pick(s)] + h[s \ {Pick(s)}])
  BY DEF Summed
<1>3. 0 \in Q
  BY <1>1, <1>2, FS_EmptySet
<1>4. ASSUME NEW n \in Nat, n \in Q PROVE n + 1 \in Q
  <2> SUFFICES ASSUME NEW s \in SUBSET T, Cardinality(s) = n + 1 PROVE g[s] = h[s]
    OBVIOUS
  <2>1. s # {} /\ s \ {Pick(s)} \in SUBSET T /\ Cardinality(s \ {Pick(s)}) = n
    BY <1>1, FS_EmptySet
  <2>2. g[s \ {Pick(s)}] = h[s \ {Pick(s)}]
    BY <1>4, <2>1
  <2> QED
    BY <1>2, <2>1, <2>2
<1>5. Nat \subseteq Q
  <2> HIDE DEF Q
  <2> QED
    BY <1>3, <1>4, NaturalInduction
<1> QED
  BY <1>1, <1>5

\* The sum over S: of nothing 0, else of the element picked and of the others.
LEMMA SumDefinition ==
  ASSUME NEW f, NEW S, IsFiniteSet(S)
  PROVE  SumFunctionOnSet(f, S) =
           IF S = {} THEN 0 ELSE f[Pick(S)] + SumFunctionOnSet(f, S \ {Pick(S)})
<1> DEFINE g == CHOOSE g : Summed(f, SUBSET S, g)
           T == S \ {Pick(S)}
           h == CHOOSE h : Summed(f, SUBSET T, h)
<1>1. Summed(f, SUBSET S, g)
  BY SummedExists
<1>2. IsFiniteSet(T) /\ T \in SUBSET S
  BY FS_Subset
<1>3. Summed(f, SUBSET T, h)
  BY <1>2, SummedExists
<1>4. SumFunctionOnSet(f, S) = g[S] /\ SumFunctionOnSet(f, T) = h[T]
  BY SumIsSummed
<1>5. g[S] = IF S = {} THEN 0 ELSE f[Pick(S)] + g[T]
  BY <1>1 DEF Summed
<1>6. g[T] = h[T]
  <2> HIDE DEF g, h
  <2> QED
    BY <1>1, <1>2, <1>3, SummedAgree
<1> QED
  BY <1>4, <1>5, <1>6

LEMMA SumEmpty == \A f : SumFunctionOnSet(f, {}) = 0
BY SumDefinition, FS_EmptySet

\* A sum of integers is an integer.
LEMMA SumInt ==
  ASSUME NEW f, NEW S, IsFiniteSet(S), \A x \in S : f[x] \in Int
  PROVE  SumFunctionOnSet(f, S) \in Int
<1> DEFINE Q == { n \in Nat : \A T \in SUBSET S : Cardinality(T) = n => SumFunctionOnSet(f, T) \in Int }
<1>1. \A T \in SUBSET S : IsFiniteSet(T) /\ Cardinality(T) \in Nat
  BY FS_Subset, FS_CardinalityType
<1>2. 0 \in Q
  BY <1>1, FS_EmptySet, SumEmpty
<1>3. ASSUME NEW n \in Nat, n \in Q PROVE n + 1 \in Q
  <2> SUFFICES ASSUME NEW T \in SUBSET S, Cardinality(T) = n + 1
               PROVE  SumFunctionOnSet(f, T) \in Int
    OBVIOUS
  <2>1. T # {} /\ IsFiniteSet(T)
    BY <1>1, FS_EmptySet
  <2>2. Pick(T) \in T
    BY <2>1 DEF Pick
  <2>3. Cardinality(T \ {Pick(T)}) = n /\ T \ {Pick(T)} \in SUBSET S
    <3>1. Cardinality(T \ {Pick(T)}) = Cardinality(T) - 1
      BY <2>1, <2>2, FS_RemoveElement
    <3> QED
      BY <3>1
  <2>4. SumFunctionOnSet(f, T \ {Pick(T)}) \in Int
    BY <1>3, <2>3
  <2>5. SumFunctionOnSet(f, T) = f[Pick(T)] + SumFunctionOnSet(f, T \ {Pick(T)})
    BY <2>1, SumDefinition
  <2> QED
    BY <2>2, <2>4, <2>5
<1>4. Nat \subseteq Q
  <2> HIDE DEF Q
  <2> QED
    BY <1>2, <1>3, NaturalInduction
<1> QED
  BY <1>1, <1>4

\* A sum does not depend on the order: any element may be taken first.
LEMMA SumAdd ==
  ASSUME NEW f, NEW S, IsFiniteSet(S), NEW x, x \notin S, \A y \in S \cup {x} : f[y] \in Int
  PROVE  SumFunctionOnSet(f, S \cup {x}) = f[x] + SumFunctionOnSet(f, S)
<1> DEFINE U == S \cup {x}
           Q == { n \in Nat : \A T \in SUBSET U : \A y \in U \ T : Cardinality(T) = n =>
                    SumFunctionOnSet(f, T \cup {y}) = f[y] + SumFunctionOnSet(f, T) }
<1>1. IsFiniteSet(U)
  BY FS_AddElement
<1>2. \A T \in SUBSET U : /\ IsFiniteSet(T) /\ Cardinality(T) \in Nat
                          /\ SumFunctionOnSet(f, T) \in Int
  <2> SUFFICES ASSUME NEW T \in SUBSET U
               PROVE  IsFiniteSet(T) /\ Cardinality(T) \in Nat /\ SumFunctionOnSet(f, T) \in Int
    OBVIOUS
  <2>1. IsFiniteSet(T) /\ Cardinality(T) \in Nat
    BY <1>1, FS_Subset, FS_CardinalityType
  <2> QED
    BY <2>1, SumInt
<1>3. 0 \in Q
  <2> SUFFICES ASSUME NEW T \in SUBSET U, NEW y \in U \ T, Cardinality(T) = 0
               PROVE  SumFunctionOnSet(f, T \cup {y}) = f[y] + SumFunctionOnSet(f, T)
    OBVIOUS
  <2>1. T = {}
    BY <1>2, FS_EmptySet
  <2>2. IsFiniteSet({y}) /\ Pick({y}) = y /\ {y} \ {y} = {}
    BY FS_Singleton DEF Pick
  <2>3. SumFunctionOnSet(f, {y}) = f[y] + SumFunctionOnSet(f, {})
    BY <2>2, SumDefinition
  <2> QED
    BY <2>1, <2>3
<1>4. ASSUME NEW n \in Nat, n \in Q PROVE n + 1 \in Q
  <2> SUFFICES ASSUME NEW T \in SUBSET U, NEW y \in U \ T, Cardinality(T) = n + 1
               PROVE  SumFunctionOnSet(f, T \cup {y}) = f[y] + SumFunctionOnSet(f, T)
    OBVIOUS
  <2> DEFINE V == T \cup {y}
             z == Pick(V)
  <2>1. z \in V /\ V \in SUBSET U /\ IsFiniteSet(V) /\ V # {}
    BY <1>2 DEF Pick
  <2>2. SumFunctionOnSet(f, V) = f[z] + SumFunctionOnSet(f, V \ {z})
    BY <2>1, SumDefinition
  <2> HIDE DEF z
  <2>3. CASE z = y
    <3>1. V \ {z} = T
      BY <2>3
    <3> QED
      BY <2>2, <2>3, <3>1
  <2>4. CASE z # y
    <3> DEFINE W == T \ {z}
    <3>1. z \in T /\ IsFiniteSet(T)
      BY <2>1, <2>4, <1>2
    <3>2. Cardinality(W) = n
      <4>1. Cardinality(T \ {z}) = Cardinality(T) - 1
        BY <3>1, FS_RemoveElement
      <4> QED
        BY <4>1
    <3>3. V \ {z} = W \cup {y} /\ T = W \cup {z} /\ W \in SUBSET U /\ y \in U \ W /\ z \in U \ W
      BY <3>1, <2>4
    <3>4. SumFunctionOnSet(f, W \cup {y}) = f[y] + SumFunctionOnSet(f, W)
      BY <1>4, <3>2, <3>3
    <3>5. SumFunctionOnSet(f, W \cup {z}) = f[z] + SumFunctionOnSet(f, W)
      BY <1>4, <3>2, <3>3
    <3>6. f[y] \in Int /\ f[z] \in Int /\ SumFunctionOnSet(f, W) \in Int
      BY <1>2, <3>3
    <3>7. SumFunctionOnSet(f, V) = f[z] + (f[y] + SumFunctionOnSet(f, W))
      BY <2>2, <3>3, <3>4
    <3>8. SumFunctionOnSet(f, T) = f[z] + SumFunctionOnSet(f, W)
      BY <3>3, <3>5
    <3> HIDE DEF V, W
    <3>9. SumFunctionOnSet(f, V) = f[y] + SumFunctionOnSet(f, T)
      BY <3>6, <3>7, <3>8
    <3> QED
      BY <3>9 DEF V
  <2> QED
    BY <2>3, <2>4
<1>5. Nat \subseteq Q
  <2> HIDE DEF Q
  <2> QED
    BY <1>3, <1>4, NaturalInduction
<1>6. S \in SUBSET U /\ x \in U \ S
  OBVIOUS
<1> QED
  BY <1>2, <1>5, <1>6

\* A sum over naturals is a natural.
LEMMA SumNat ==
  ASSUME NEW f, NEW S, IsFiniteSet(S), \A x \in S : f[x] \in Nat
  PROVE  SumFunctionOnSet(f, S) \in Nat
<1> DEFINE P == { T \in SUBSET S : SumFunctionOnSet(f, T) \in Nat }
<1>1. {} \in P
  BY SumEmpty
<1>2. ASSUME NEW T \in SUBSET S, NEW x \in S \ T, T \in P PROVE T \cup {x} \in P
  <2>1. IsFiniteSet(T)
    BY FS_Subset
  <2>2. SumFunctionOnSet(f, T \cup {x}) = f[x] + SumFunctionOnSet(f, T)
    BY <2>1, SumAdd
  <2> QED
    BY <2>2, <1>2
<1>3. S \in P
  <2> HIDE DEF P
  <2> QED
    BY <1>1, <1>2, FiniteInduction
<1> QED
  BY <1>3

\* Equal terms give equal sums.
LEMMA SumEqual ==
  ASSUME NEW f, NEW g, NEW S, IsFiniteSet(S), \A x \in S : f[x] = g[x] /\ g[x] \in Int
  PROVE  SumFunctionOnSet(f, S) = SumFunctionOnSet(g, S)
<1> DEFINE P == { T \in SUBSET S : SumFunctionOnSet(f, T) = SumFunctionOnSet(g, T) }
<1>1. {} \in P
  BY SumEmpty
<1>2. ASSUME NEW T \in SUBSET S, NEW x \in S \ T, T \in P PROVE T \cup {x} \in P
  <2>1. IsFiniteSet(T)
    BY FS_Subset
  <2>2. SumFunctionOnSet(f, T \cup {x}) = f[x] + SumFunctionOnSet(f, T)
    BY <2>1, SumAdd
  <2>3. SumFunctionOnSet(g, T \cup {x}) = g[x] + SumFunctionOnSet(g, T)
    BY <2>1, SumAdd
  <2> QED
    BY <2>2, <2>3, <1>2
<1>3. S \in P
  <2> HIDE DEF P
  <2> QED
    BY <1>1, <1>2, FiniteInduction
<1> QED
  BY <1>3

\* Terms that are 0 may be left out.
LEMMA SumWithout ==
  ASSUME NEW f, NEW T, IsFiniteSet(T), NEW S \in SUBSET T,
         \A x \in T : f[x] \in Int, \A x \in T \ S : f[x] = 0
  PROVE  SumFunctionOnSet(f, S) = SumFunctionOnSet(f, T)
<1> DEFINE P == { R \in SUBSET (T \ S) : SumFunctionOnSet(f, S \cup R) = SumFunctionOnSet(f, S) }
<1>1. {} \in P
  <2>1. S \cup {} = S
    OBVIOUS
  <2> QED
    BY <2>1
<1>2. ASSUME NEW R \in SUBSET (T \ S), NEW x \in (T \ S) \ R, R \in P PROVE R \cup {x} \in P
  <2> DEFINE V == S \cup R
  <2>1. V \in SUBSET T /\ x \notin V /\ S \cup (R \cup {x}) = V \cup {x} /\ f[x] = 0
    OBVIOUS
  <2>2. IsFiniteSet(V) /\ SumFunctionOnSet(f, V) = SumFunctionOnSet(f, S)
    BY <1>2, <2>1, FS_Subset
  <2>3. IsFiniteSet(S)
    BY FS_Subset
  <2>4. SumFunctionOnSet(f, S) \in Int
    BY <2>3, SumInt
  <2> HIDE DEF V
  <2>5. \A y \in V \cup {x} : f[y] \in Int
    BY <2>1
  <2>6. SumFunctionOnSet(f, V \cup {x}) = f[x] + SumFunctionOnSet(f, V)
    BY <2>1, <2>2, <2>5, SumAdd
  <2>7. SumFunctionOnSet(f, V \cup {x}) = SumFunctionOnSet(f, S)
    <3> DEFINE m == SumFunctionOnSet(f, S)
    <3>1. m \in Int /\ SumFunctionOnSet(f, V \cup {x}) = 0 + m
      BY <2>1, <2>2, <2>4, <2>6
    <3> HIDE DEF m
    <3>2. SumFunctionOnSet(f, V \cup {x}) = m
      BY <3>1
    <3> QED
      BY <3>2 DEF m
  <2>8. SumFunctionOnSet(f, S \cup (R \cup {x})) = SumFunctionOnSet(f, S)
    BY <2>1, <2>7
  <2> QED
    BY <2>8
<1>3. T \ S \in P
  <2>1. IsFiniteSet(T \ S)
    BY FS_Subset
  <2> HIDE DEF P
  <2> QED
    BY <1>1, <1>2, <2>1, FiniteInduction
<1>4. S \cup (T \ S) = T
  OBVIOUS
<1> QED
  BY <1>3, <1>4

\* A sum of zeros is 0.
LEMMA SumZero ==
  ASSUME NEW f, NEW S, IsFiniteSet(S), \A x \in S : f[x] = 0
  PROVE  SumFunctionOnSet(f, S) = 0
<1>1. {} \in SUBSET S /\ \A x \in S : f[x] \in Int
  OBVIOUS
<1> QED
  BY <1>1, SumWithout, SumEmpty

\* The elements may be renamed: b is one to one from S onto T.
Renames(f, g, b, S, T) ==
  /\ IsFiniteSet(S)
  /\ \A x \in S : b[x] \in T
  /\ \A y \in T : \E x \in S : b[x] = y
  /\ \A x, y \in S : b[x] = b[y] => x = y
  /\ \A x \in S : f[x] = g[b[x]] /\ f[x] \in Int

LEMMA SumRenamed ==
  ASSUME NEW f, NEW g, NEW b, NEW S, NEW T, Renames(f, g, b, S, T)
  PROVE  IsFiniteSet(T) /\ SumFunctionOnSet(f, S) = SumFunctionOnSet(g, T)
<1> USE DEF Renames
<1> DEFINE Image(R) == { b[x] : x \in R }
           P == { R \in SUBSET S : /\ IsFiniteSet(Image(R))
                                   /\ SumFunctionOnSet(f, R) = SumFunctionOnSet(g, Image(R)) }
<1>1. {} \in P
  <2>1. Image({}) = {}
    OBVIOUS
  <2> QED
    BY <2>1, SumEmpty, FS_EmptySet
<1>2. ASSUME NEW R \in SUBSET S, NEW x \in S \ R, R \in P PROVE R \cup {x} \in P
  <2>1. IsFiniteSet(R) /\ IsFiniteSet(Image(R))
    BY <1>2, FS_Subset
  <2>2. Image(R \cup {x}) = Image(R) \cup {b[x]} /\ b[x] \notin Image(R)
    OBVIOUS
  <2>3. \A y \in R \cup {x} : f[y] \in Int
    OBVIOUS
  <2>4. \A y \in Image(R) \cup {b[x]} : g[y] \in Int
    OBVIOUS
  <2> HIDE DEF Image
  <2>5. SumFunctionOnSet(f, R \cup {x}) = f[x] + SumFunctionOnSet(f, R)
    BY <2>1, <2>3, SumAdd
  <2>6. SumFunctionOnSet(g, Image(R) \cup {b[x]}) = g[b[x]] + SumFunctionOnSet(g, Image(R))
    BY <2>1, <2>2, <2>4, SumAdd
  <2>7. IsFiniteSet(Image(R) \cup {b[x]})
    BY <2>1, FS_AddElement
  <2> QED
    BY <2>2, <2>5, <2>6, <2>7, <1>2
<1>3. S \in P
  <2> HIDE DEF P
  <2> QED
    BY <1>1, <1>2, FiniteInduction
<1>4. T = Image(S)
  OBVIOUS
<1> QED
  BY <1>3, <1>4

-----------------------------------------------------------------------------
(* What a list of postings moves.                                           *)

\* The terms of the sums: what posting i brings to account a, and takes from it.
Brought(ps, a) == [i \in DOMAIN ps |-> IF ps[i].dst = a THEN ps[i].amt ELSE 0]
Taken(ps, a)   == [i \in DOMAIN ps |-> IF ps[i].src = a THEN ps[i].amt ELSE 0]

LEMMA SumsOfPostings ==
  ASSUME NEW ps \in Seq(Posting), NEW a
  PROVE  /\ IsFiniteSet(1..Len(ps)) /\ Len(ps) \in Nat /\ DOMAIN ps = 1..Len(ps)
         /\ InputOf(ps, a) = SumFunctionOnSet(Brought(ps, a), 1..Len(ps))
         /\ OutputOf(ps, a) = SumFunctionOnSet(Taken(ps, a), 1..Len(ps))
         /\ \A i \in 1..Len(ps) : /\ ps[i] \in Posting
                                  /\ Brought(ps, a)[i] \in Nat /\ Taken(ps, a)[i] \in Nat
<1>1. Len(ps) \in Nat /\ DOMAIN ps = 1..Len(ps) /\ \A i \in 1..Len(ps) : ps[i] \in Posting
  BY LenProperties, ElementOfSeq
<1>2. IsFiniteSet(1..Len(ps))
  BY <1>1, FS_Interval
<1>3. DOMAIN Brought(ps, a) = 1..Len(ps) /\ DOMAIN Taken(ps, a) = 1..Len(ps)
  BY <1>1 DEF Brought, Taken
<1>4. InputOf(ps, a) = SumFunctionOnSet(Brought(ps, a), DOMAIN Brought(ps, a))
  BY DEF InputOf, SumFunction, Brought
<1>5. OutputOf(ps, a) = SumFunctionOnSet(Taken(ps, a), DOMAIN Taken(ps, a))
  BY DEF OutputOf, SumFunction, Taken
<1>6. \A i \in 1..Len(ps) : Brought(ps, a)[i] \in Nat /\ Taken(ps, a)[i] \in Nat
  BY <1>1 DEF Brought, Taken, Posting
<1> QED
  BY <1>1, <1>2, <1>3, <1>4, <1>5, <1>6

\* What a list moves is a natural number: no sum of amounts is negative.
LEMMA InputOutputNat ==
  ASSUME NEW ps \in Seq(Posting), NEW a
  PROVE  InputOf(ps, a) \in Nat /\ OutputOf(ps, a) \in Nat
BY SumsOfPostings, SumNat

\* The empty list moves nothing.
LEMMA EmptyMovesNothing ==
  ASSUME NEW a
  PROVE  InputOf(<<>>, a) = 0 /\ OutputOf(<<>>, a) = 0
<1>1. <<>> \in Seq(Posting) /\ Len(<<>>) = 0 /\ 1..0 = {}
  BY EmptySeq
<1> QED
  BY <1>1, SumsOfPostings, SumEmpty

\* A list moves nothing from or to an account it does not name.
LEMMA UnnamedMovesNothing ==
  ASSUME NEW ps \in Seq(Posting), NEW a
  PROVE  /\ a \notin Destinations(ps) => InputOf(ps, a) = 0
         /\ a \notin Sources(ps) => OutputOf(ps, a) = 0
<1>1. IsFiniteSet(1..Len(ps))
  BY SumsOfPostings
<1>2. ASSUME a \notin Destinations(ps) PROVE InputOf(ps, a) = 0
  <2>1. \A i \in 1..Len(ps) : Brought(ps, a)[i] = 0
    BY <1>2, SumsOfPostings DEF Brought, Destinations
  <2> QED
    BY <1>1, <2>1, SumZero, SumsOfPostings
<1>3. ASSUME a \notin Sources(ps) PROVE OutputOf(ps, a) = 0
  <2>1. \A i \in 1..Len(ps) : Taken(ps, a)[i] = 0
    BY <1>3, SumsOfPostings DEF Taken, Sources
  <2> QED
    BY <1>1, <2>1, SumZero, SumsOfPostings
<1> QED
  BY <1>2, <1>3

\* The beginning of a list, posting by posting.
LEMMA Prefix ==
  ASSUME NEW ps \in Seq(Posting), NEW k \in 0..Len(ps)
  PROVE  /\ SubSeq(ps, 1, k) \in Seq(Posting) /\ Len(SubSeq(ps, 1, k)) = k
         /\ \A i \in 1..k : SubSeq(ps, 1, k)[i] = ps[i]
<1>1. \A i \in 1..k : ps[i] \in Posting
  BY SumsOfPostings
<1>2. k \in Int /\ Len(ps) \in Nat
  BY LenProperties
<1> QED
  BY <1>1, <1>2, SubSeqProperties

\* One posting more adds its amount to what its destination has received, and to
\* what its source has given.
LEMMA PrefixMoves ==
  ASSUME NEW ps \in Seq(Posting), NEW k \in Nat, k + 1 <= Len(ps), NEW a
  PROVE  /\ InputOf(SubSeq(ps, 1, k + 1), a) =
              InputOf(SubSeq(ps, 1, k), a) + (IF ps[k + 1].dst = a THEN ps[k + 1].amt ELSE 0)
         /\ OutputOf(SubSeq(ps, 1, k + 1), a) =
              OutputOf(SubSeq(ps, 1, k), a) + (IF ps[k + 1].src = a THEN ps[k + 1].amt ELSE 0)
<1> DEFINE qs == SubSeq(ps, 1, k)
           rs == SubSeq(ps, 1, k + 1)
<1>1. Len(ps) \in Nat /\ k \in 0..Len(ps) /\ k + 1 \in 0..Len(ps)
  BY LenProperties
<1>2. qs \in Seq(Posting) /\ Len(qs) = k /\ \A i \in 1..k : qs[i] = ps[i]
  BY <1>1, Prefix
<1>3. rs \in Seq(Posting) /\ Len(rs) = k + 1 /\ \A i \in 1..(k + 1) : rs[i] = ps[i]
  BY <1>1, Prefix
<1> HIDE DEF qs, rs
<1>4. 1..(k + 1) = (1..k) \cup {k + 1} /\ k + 1 \notin 1..k
  OBVIOUS
<1>5. IsFiniteSet(1..k)
  BY FS_Interval
<1>6. \A i \in 1..(k + 1) : Brought(rs, a)[i] \in Int /\ Taken(rs, a)[i] \in Int
  BY <1>3, SumsOfPostings
<1>7. \A i \in 1..k : Brought(qs, a)[i] = Brought(rs, a)[i] /\ Taken(qs, a)[i] = Taken(rs, a)[i]
  <2>1. DOMAIN qs = 1..k /\ DOMAIN rs = 1..(k + 1)
    BY <1>2, <1>3, LenProperties
  <2> QED
    BY <2>1, <1>2, <1>3 DEF Brought, Taken
<1>8. /\ SumFunctionOnSet(Brought(qs, a), 1..k) = SumFunctionOnSet(Brought(rs, a), 1..k)
      /\ SumFunctionOnSet(Taken(qs, a), 1..k) = SumFunctionOnSet(Taken(rs, a), 1..k)
  <2>1. \A i \in 1..k : Brought(rs, a)[i] \in Int /\ Taken(rs, a)[i] \in Int
    BY <1>6
  <2>2. SumFunctionOnSet(Brought(qs, a), 1..k) = SumFunctionOnSet(Brought(rs, a), 1..k)
    BY <1>5, <1>7, <2>1, SumEqual
  <2>3. SumFunctionOnSet(Taken(qs, a), 1..k) = SumFunctionOnSet(Taken(rs, a), 1..k)
    BY <1>5, <1>7, <2>1, SumEqual
  <2> QED
    BY <2>2, <2>3
<1>9. /\ SumFunctionOnSet(Brought(rs, a), 1..(k + 1)) =
           Brought(rs, a)[k + 1] + SumFunctionOnSet(Brought(rs, a), 1..k)
      /\ SumFunctionOnSet(Taken(rs, a), 1..(k + 1)) =
           Taken(rs, a)[k + 1] + SumFunctionOnSet(Taken(rs, a), 1..k)
  <2>1. SumFunctionOnSet(Brought(rs, a), (1..k) \cup {k + 1}) =
          Brought(rs, a)[k + 1] + SumFunctionOnSet(Brought(rs, a), 1..k)
    BY <1>4, <1>5, <1>6, SumAdd
  <2>2. SumFunctionOnSet(Taken(rs, a), (1..k) \cup {k + 1}) =
          Taken(rs, a)[k + 1] + SumFunctionOnSet(Taken(rs, a), 1..k)
    BY <1>4, <1>5, <1>6, SumAdd
  <2> QED
    BY <1>4, <2>1, <2>2
<1>10. /\ Brought(rs, a)[k + 1] = IF ps[k + 1].dst = a THEN ps[k + 1].amt ELSE 0
       /\ Taken(rs, a)[k + 1] = IF ps[k + 1].src = a THEN ps[k + 1].amt ELSE 0
  <2>1. DOMAIN rs = 1..(k + 1) /\ k + 1 \in 1..(k + 1) /\ rs[k + 1] = ps[k + 1]
    BY <1>3, LenProperties
  <2> QED
    BY <2>1 DEF Brought, Taken
<1>11. /\ InputOf(qs, a) \in Nat /\ OutputOf(qs, a) \in Nat
       /\ Brought(rs, a)[k + 1] \in Int /\ Taken(rs, a)[k + 1] \in Int
  BY <1>2, <1>6, InputOutputNat
<1>12. /\ InputOf(qs, a) = SumFunctionOnSet(Brought(qs, a), 1..k)
       /\ OutputOf(qs, a) = SumFunctionOnSet(Taken(qs, a), 1..k)
       /\ InputOf(rs, a) = SumFunctionOnSet(Brought(rs, a), 1..(k + 1))
       /\ OutputOf(rs, a) = SumFunctionOnSet(Taken(rs, a), 1..(k + 1))
  BY <1>2, <1>3, SumsOfPostings
<1>13. /\ InputOf(rs, a) = InputOf(qs, a) + Brought(rs, a)[k + 1]
       /\ OutputOf(rs, a) = OutputOf(qs, a) + Taken(rs, a)[k + 1]
  BY <1>8, <1>9, <1>11, <1>12
<1> QED
  BY <1>10, <1>13 DEF qs, rs

-----------------------------------------------------------------------------
(* Reversing.                                                               *)

\* Reversing keeps the length and is undone by reversing again: the revert of
\* a revert records the postings of the first transaction.
LEMMA ReverseTwice ==
  ASSUME NEW ps \in Seq(Posting)
  PROVE  /\ ReversePostings(ps) \in Seq(Posting) /\ Len(ReversePostings(ps)) = Len(ps)
         /\ ReversePostings(ReversePostings(ps)) = ps
<1> DEFINE n  == Len(ps)
           qs == ReversePostings(ps)
<1>1. n \in Nat /\ DOMAIN ps = 1..n /\ \A i \in 1..n : ps[i] \in Posting
  BY LenProperties, ElementOfSeq
<1>2. \A p \in Posting : Swap(p) \in Posting /\ Swap(Swap(p)) = p
  BY DEF Posting, Swap
<1>3. \A i \in 1..n : n + 1 - i \in 1..n /\ n + 1 - (n + 1 - i) = i
  BY <1>1
<1>4. qs = [i \in 1..n |-> Swap(ps[n + 1 - i])]
  BY <1>1 DEF ReversePostings
<1>5. \A i \in 1..n : qs[i] \in Posting /\ Swap(qs[n + 1 - i]) = ps[i]
  BY <1>1, <1>2, <1>3, <1>4
<1>6. qs \in Seq(Posting) /\ Len(qs) = n /\ DOMAIN qs = 1..n
  <2>1. qs \in [1..n -> Posting]
    BY <1>4, <1>5
  <2>2. qs \in Seq(Posting)
    BY <2>1, <1>1, SeqDef
  <2> QED
    BY <2>1, <2>2, <1>1, LenProperties
<1>7. ReversePostings(qs) = [i \in 1..n |-> Swap(qs[n + 1 - i])]
  BY <1>6 DEF ReversePostings
<1>8. ReversePostings(qs) = [i \in 1..n |-> ps[i]]
  BY <1>5, <1>7
<1>9. ps = [i \in 1..n |-> ps[i]]
  BY <1>1, LenProperties
<1> QED
  BY <1>6, <1>8, <1>9

\* What the reversed list brings to an account is what the list took from it.
LEMMA ReverseMoves ==
  ASSUME NEW ps \in Seq(Posting), NEW a
  PROVE  /\ InputOf(ReversePostings(ps), a) = OutputOf(ps, a)
         /\ OutputOf(ReversePostings(ps), a) = InputOf(ps, a)
<1> DEFINE n  == Len(ps)
           qs == ReversePostings(ps)
           b  == [i \in 1..n |-> n + 1 - i]
<1>1. n \in Nat /\ DOMAIN ps = 1..n /\ IsFiniteSet(1..n) /\ \A i \in 1..n : ps[i] \in Posting
  BY SumsOfPostings
<1>2. qs \in Seq(Posting) /\ Len(qs) = n /\ DOMAIN qs = 1..n
  BY <1>1, ReverseTwice, LenProperties
<1>3. \A i \in 1..n : qs[i] = [src |-> ps[b[i]].dst, dst |-> ps[b[i]].src, amt |-> ps[b[i]].amt]
  BY <1>1, <1>2 DEF ReversePostings, Swap
<1>4. \A i \in 1..n : b[i] \in 1..n /\ b[b[i]] = i
  BY <1>1
<1>5. \A i \in 1..n : b[i] \in 1..n /\ \E j \in 1..n : b[j] = i
  BY <1>4
<1>6. \A i, j \in 1..n : b[i] = b[j] => i = j
  BY <1>4
<1> HIDE DEF qs, b, n
<1>7. \A i \in 1..n : /\ Brought(qs, a)[i] = Taken(ps, a)[b[i]]
                      /\ Taken(qs, a)[i] = Brought(ps, a)[b[i]]
  BY <1>1, <1>2, <1>3, <1>4 DEF Brought, Taken
<1>8. \A i \in 1..n : Brought(qs, a)[i] \in Int /\ Taken(qs, a)[i] \in Int
  BY <1>2, SumsOfPostings
<1>9. Renames(Brought(qs, a), Taken(ps, a), b, 1..n, 1..n)
  BY <1>1, <1>5, <1>6, <1>7, <1>8 DEF Renames
<1>10. Renames(Taken(qs, a), Brought(ps, a), b, 1..n, 1..n)
  BY <1>1, <1>5, <1>6, <1>7, <1>8 DEF Renames
<1>11. SumFunctionOnSet(Brought(qs, a), 1..n) = SumFunctionOnSet(Taken(ps, a), 1..n)
  BY <1>9, SumRenamed
<1>12. SumFunctionOnSet(Taken(qs, a), 1..n) = SumFunctionOnSet(Brought(ps, a), 1..n)
  BY <1>10, SumRenamed
<1>13. /\ InputOf(qs, a) = SumFunctionOnSet(Brought(qs, a), 1..n)
       /\ OutputOf(qs, a) = SumFunctionOnSet(Taken(qs, a), 1..n)
  BY <1>2, SumsOfPostings
<1>14. /\ InputOf(ps, a) = SumFunctionOnSet(Brought(ps, a), 1..n)
       /\ OutputOf(ps, a) = SumFunctionOnSet(Taken(ps, a), 1..n)
  BY SumsOfPostings DEF n
<1> QED
  BY <1>11, <1>12, <1>13, <1>14 DEF qs

\* The sources of the reversed list are the destinations of the list.
LEMMA ReverseNames ==
  ASSUME NEW ps \in Seq(Posting)
  PROVE  /\ Sources(ReversePostings(ps)) = Destinations(ps)
         /\ Destinations(ReversePostings(ps)) = Sources(ps)
         /\ Involved(ReversePostings(ps)) = Involved(ps)
<1> DEFINE n  == Len(ps)
           qs == ReversePostings(ps)
<1>1. n \in Nat /\ DOMAIN ps = 1..n
  BY LenProperties
<1>2. qs \in Seq(Posting) /\ DOMAIN qs = 1..n
  BY <1>1, ReverseTwice, LenProperties
<1>3. \A i \in 1..n : n + 1 - i \in 1..n /\ n + 1 - (n + 1 - i) = i
  BY <1>1
<1>4. \A i \in 1..n : qs[i].src = ps[n + 1 - i].dst /\ qs[i].dst = ps[n + 1 - i].src
  BY <1>1, <1>2 DEF ReversePostings, Swap
<1> HIDE DEF n, qs
<1>5. Sources(qs) = Destinations(ps)
  <2>1. ASSUME NEW x \in Sources(qs) PROVE x \in Destinations(ps)
    <3>1. PICK i \in 1..n : x = qs[i].src
      BY <1>2 DEF Sources
    <3>2. x = ps[n + 1 - i].dst /\ n + 1 - i \in DOMAIN ps
      BY <1>1, <1>3, <1>4, <3>1
    <3> QED
      BY <3>2 DEF Destinations
  <2>2. ASSUME NEW x \in Destinations(ps) PROVE x \in Sources(qs)
    <3>1. PICK i \in 1..n : x = ps[i].dst
      BY <1>1 DEF Destinations
    <3>2. x = qs[n + 1 - i].src /\ n + 1 - i \in DOMAIN qs
      BY <1>2, <1>3, <1>4, <3>1
    <3> QED
      BY <3>2 DEF Sources
  <2> QED
    BY <2>1, <2>2
<1>6. Destinations(qs) = Sources(ps)
  <2>1. ASSUME NEW x \in Destinations(qs) PROVE x \in Sources(ps)
    <3>1. PICK i \in 1..n : x = qs[i].dst
      BY <1>2 DEF Destinations
    <3>2. x = ps[n + 1 - i].src /\ n + 1 - i \in DOMAIN ps
      BY <1>1, <1>3, <1>4, <3>1
    <3> QED
      BY <3>2 DEF Sources
  <2>2. ASSUME NEW x \in Sources(ps) PROVE x \in Destinations(qs)
    <3>1. PICK i \in 1..n : x = ps[i].src
      BY <1>1 DEF Sources
    <3>2. x = qs[n + 1 - i].dst /\ n + 1 - i \in DOMAIN qs
      BY <1>2, <1>3, <1>4, <3>1
    <3> QED
      BY <3>2 DEF Destinations
  <2> QED
    BY <2>1, <2>2
<1>7. Involved(qs) = Involved(ps)
  BY <1>5, <1>6 DEF Involved
<1> QED
  BY <1>5, <1>6, <1>7 DEF qs

-----------------------------------------------------------------------------
(* Balances during and after a list of postings.                            *)

\* Balances of some accounts, tracked through the first k postings.
LEMMA AfterPrefix ==
  ASSUME NEW D, NEW bal \in [D -> Int], NEW ps \in Seq(Posting), NEW a \in D
  PROVE  /\ After(bal, ps)[a] = bal[a] + InputOf(ps, a) - OutputOf(ps, a)
         /\ \A k \in 0..Len(ps) : After(bal, SubSeq(ps, 1, k))[a] \in Int
         /\ After(bal, SubSeq(ps, 1, 0))[a] = bal[a]
         /\ \A k \in 1..Len(ps) : After(bal, SubSeq(ps, 1, k))[a] =
              After(bal, SubSeq(ps, 1, k - 1))[a]
                + (IF ps[k].dst = a THEN ps[k].amt ELSE 0)
                - (IF ps[k].src = a THEN ps[k].amt ELSE 0)
<1>1. \A qs : After(bal, qs)[a] = bal[a] + InputOf(qs, a) - OutputOf(qs, a)
  BY DEF After
<1>2. Len(ps) \in Nat /\ bal[a] \in Int
  BY LenProperties
<1>3. \A k \in 0..Len(ps) : /\ InputOf(SubSeq(ps, 1, k), a) \in Nat
                            /\ OutputOf(SubSeq(ps, 1, k), a) \in Nat
  BY Prefix, InputOutputNat
<1>4. \A k \in 0..Len(ps) : After(bal, SubSeq(ps, 1, k))[a] \in Int
  BY <1>1, <1>2, <1>3
<1>5. SubSeq(ps, 1, 0) = <<>>
  BY SubSeqEmpty
<1>6. After(bal, SubSeq(ps, 1, 0))[a] = bal[a]
  <2>1. InputOf(<<>>, a) = 0 /\ OutputOf(<<>>, a) = 0
    BY EmptyMovesNothing
  <2>2. After(bal, <<>>)[a] = bal[a] + InputOf(<<>>, a) - OutputOf(<<>>, a)
    BY <1>1
  <2>3. After(bal, <<>>)[a] = bal[a]
    BY <1>2, <2>1, <2>2
  <2> QED
    BY <1>5, <2>3
<1>7. ASSUME NEW k \in 1..Len(ps)
      PROVE  After(bal, SubSeq(ps, 1, k))[a] =
               After(bal, SubSeq(ps, 1, k - 1))[a]
                 + (IF ps[k].dst = a THEN ps[k].amt ELSE 0)
                 - (IF ps[k].src = a THEN ps[k].amt ELSE 0)
  <2>1. k - 1 \in Nat /\ (k - 1) + 1 = k /\ (k - 1) + 1 <= Len(ps) /\ k - 1 \in 0..Len(ps)
    BY <1>2
  <2>2. /\ InputOf(SubSeq(ps, 1, k), a) =
             InputOf(SubSeq(ps, 1, k - 1), a) + (IF ps[k].dst = a THEN ps[k].amt ELSE 0)
        /\ OutputOf(SubSeq(ps, 1, k), a) =
             OutputOf(SubSeq(ps, 1, k - 1), a) + (IF ps[k].src = a THEN ps[k].amt ELSE 0)
    <3> DEFINE m == k - 1
    <3>1. m \in Nat /\ m + 1 = k /\ m + 1 <= Len(ps)
      BY <2>1
    <3> HIDE DEF m
    <3>2. /\ InputOf(SubSeq(ps, 1, m + 1), a) =
               InputOf(SubSeq(ps, 1, m), a) + (IF ps[m + 1].dst = a THEN ps[m + 1].amt ELSE 0)
          /\ OutputOf(SubSeq(ps, 1, m + 1), a) =
               OutputOf(SubSeq(ps, 1, m), a) + (IF ps[m + 1].src = a THEN ps[m + 1].amt ELSE 0)
      BY <3>1, PrefixMoves
    <3> QED
      BY <3>1, <3>2 DEF m
  <2>3. ps[k].amt \in Nat
    BY SumsOfPostings DEF Posting
  <2>4. /\ InputOf(SubSeq(ps, 1, k - 1), a) \in Nat
        /\ OutputOf(SubSeq(ps, 1, k - 1), a) \in Nat
    BY <2>1, <1>3
  <2> QED
    <3> DEFINE gain == IF ps[k].dst = a THEN ps[k].amt ELSE 0
               loss == IF ps[k].src = a THEN ps[k].amt ELSE 0
    <3>1. gain \in Int /\ loss \in Int
      BY <2>3
    <3>2. \A b, x, y, g, l \in Int : b + (x + g) - (y + l) = (b + x - y) + g - l
      OBVIOUS
    <3>3. After(bal, SubSeq(ps, 1, k))[a] =
            bal[a] + (InputOf(SubSeq(ps, 1, k - 1), a) + gain)
                   - (OutputOf(SubSeq(ps, 1, k - 1), a) + loss)
      BY <1>1, <2>2
    <3> HIDE DEF gain, loss
    <3>4. After(bal, SubSeq(ps, 1, k))[a] = After(bal, SubSeq(ps, 1, k - 1))[a] + gain - loss
      BY <1>1, <1>2, <2>4, <3>1, <3>2, <3>3
    <3> QED
      BY <3>4 DEF gain, loss
<1> QED
  BY <1>1, <1>4, <1>6, <1>7

\* What the machine's check of each posting says of the balances after any
\* beginning of the list: one that was lowered is within the overdraft.
LEMMA ExecutableFloor ==
  ASSUME NEW D, NEW bal \in [D -> Int], NEW ps \in Seq(Posting), NEW overdraft \in Int,
         Executable(ps, overdraft, bal), NEW a \in D, NEW k \in 0..Len(ps)
  PROVE  \/ After(bal, SubSeq(ps, 1, k))[a] >= bal[a]
         \/ After(bal, SubSeq(ps, 1, k))[a] >= -overdraft
<1>0. /\ After(bal, SubSeq(ps, 1, 0))[a] = bal[a]
      /\ \A m \in 0..Len(ps) : After(bal, SubSeq(ps, 1, m))[a] \in Int
      /\ \A m \in 1..Len(ps) : After(bal, SubSeq(ps, 1, m))[a] =
           After(bal, SubSeq(ps, 1, m - 1))[a]
             + (IF ps[m].dst = a THEN ps[m].amt ELSE 0)
             - (IF ps[m].src = a THEN ps[m].amt ELSE 0)
  BY AfterPrefix
<1> DEFINE bk(j) == After(bal, SubSeq(ps, 1, j))[a]
           Q == { j \in Nat : j <= Len(ps) => bk(j) >= bal[a] \/ bk(j) >= -overdraft }
<1>1. Len(ps) \in Nat /\ DOMAIN ps = 1..Len(ps) /\ bal[a] \in Int
  BY LenProperties
<1>2. 0 \in Q
  BY <1>0, <1>1
<1>3. ASSUME NEW j \in Nat, j \in Q PROVE j + 1 \in Q
  <2> SUFFICES ASSUME j + 1 <= Len(ps) PROVE bk(j + 1) >= bal[a] \/ bk(j + 1) >= -overdraft
    OBVIOUS
  <2> DEFINE i == j + 1
  <2>1. i \in 1..Len(ps) /\ i - 1 = j /\ j \in 0..Len(ps) /\ i \in 0..Len(ps)
    BY <1>1
  <2>2. /\ bk(i) = bk(j) + (IF ps[i].dst = a THEN ps[i].amt ELSE 0)
                         - (IF ps[i].src = a THEN ps[i].amt ELSE 0)
        /\ bk(i) \in Int /\ bk(j) \in Int
    <3> HIDE DEF i
    <3>1. After(bal, SubSeq(ps, 1, i))[a] = After(bal, SubSeq(ps, 1, i - 1))[a]
                                              + (IF ps[i].dst = a THEN ps[i].amt ELSE 0)
                                              - (IF ps[i].src = a THEN ps[i].amt ELSE 0)
      BY <1>0, <2>1
    <3>2. bk(i) \in Int /\ bk(j) \in Int
      BY <1>0, <2>1
    <3> QED
      BY <2>1, <3>1, <3>2
  <2>3. ps[i].amt \in Nat
    BY <2>1, SumsOfPostings DEF Posting
  <2>4. ps[i].src = a /\ ps[i].amt > 0 => bk(j) + overdraft >= ps[i].amt
    <3>1. ~Short(After(bal, SubSeq(ps, 1, i - 1)), ps[i], overdraft)
      BY <1>1, <2>1 DEF Executable
    <3>2. DOMAIN After(bal, SubSeq(ps, 1, j)) = D
      BY DEF After
    <3> QED
      BY <2>1, <2>2, <2>3, <3>1, <3>2 DEF Short
  <2>5. bk(j) >= bal[a] \/ bk(j) >= -overdraft
    BY <1>3, <1>1
  <2>7. bk(i) \in Int /\ bk(j) \in Int
    BY <2>2
  <2> HIDE DEF i, bk
  <2>6. bk(i) >= bal[a] \/ bk(i) >= -overdraft
    <3>1. CASE ps[i].src = a /\ ps[i].amt > 0
      <4>1. bk(i) >= bk(j) - ps[i].amt
        BY <2>2, <2>3, <3>1
      <4>2. \A x, y, m, o \in Int : x + o >= m /\ y >= x - m => y >= -o
        OBVIOUS
      <4>3. bk(j) + overdraft >= ps[i].amt /\ ps[i].amt \in Int
        BY <2>3, <2>4, <3>1
      <4> QED
        BY <4>1, <4>2, <4>3, <2>7
    <3>2. CASE ~(ps[i].src = a /\ ps[i].amt > 0)
      <4>1. bk(i) >= bk(j)
        BY <2>2, <2>3, <3>2
      <4> QED
        BY <4>1, <2>5, <2>7, <1>1
    <3> QED
      BY <3>1, <3>2
  <2> QED
    BY <2>6 DEF i
<1>4. Nat \subseteq Q
  <2> HIDE DEF Q
  <2> QED
    BY <1>2, <1>3, NaturalInduction
<1> QED
  BY <1>1, <1>4

\* The same of the whole list.
LEMMA ExecutableFloorAtEnd ==
  ASSUME NEW D, NEW bal \in [D -> Int], NEW ps \in Seq(Posting), NEW overdraft \in Int,
         Executable(ps, overdraft, bal), NEW a \in D
  PROVE  \/ After(bal, ps)[a] >= bal[a]
         \/ After(bal, ps)[a] >= -overdraft
<1>1. Len(ps) \in Nat /\ Len(ps) \in 0..Len(ps)
  BY LenProperties
<1>2. SubSeq(ps, 1, Len(ps)) = ps
  BY SubSeqFull
<1> QED
  BY <1>1, <1>2, ExecutableFloor

\* More funds do no harm: what may be executed on some balances may be on higher ones.
LEMMA ExecutableMonotone ==
  ASSUME NEW D, NEW bal \in [D -> Int], NEW higher \in [D -> Int],
         \A a \in D : bal[a] <= higher[a],
         NEW ps \in Seq(Posting), NEW overdraft \in Int, Executable(ps, overdraft, bal)
  PROVE  Executable(ps, overdraft, higher)
<1> SUFFICES ASSUME NEW i \in DOMAIN ps,
                    Short(After(higher, SubSeq(ps, 1, i - 1)), ps[i], overdraft)
             PROVE  FALSE
  BY DEF Executable
<1> DEFINE qs == SubSeq(ps, 1, i - 1)
           a  == ps[i].src
<1>1. i \in 1..Len(ps) /\ Len(ps) \in Nat /\ i - 1 \in 0..Len(ps)
  BY LenProperties
<1>2. qs \in Seq(Posting)
  BY <1>1, Prefix
<1>3. InputOf(qs, a) \in Nat /\ OutputOf(qs, a) \in Nat
  BY <1>2, InputOutputNat
<1>4. ps[i].amt \in Nat
  BY <1>1, SumsOfPostings DEF Posting
<1>5. a \in D /\ ps[i].amt > 0 /\ After(higher, qs)[a] + overdraft < ps[i].amt
  BY DEF Short, After
<1>6. /\ After(higher, qs)[a] = higher[a] + InputOf(qs, a) - OutputOf(qs, a)
      /\ After(bal, qs)[a] = bal[a] + InputOf(qs, a) - OutputOf(qs, a)
  BY <1>5 DEF After
<1>7. ~Short(After(bal, qs), ps[i], overdraft)
  BY DEF Executable
<1>8. ~(After(bal, qs)[a] + overdraft < ps[i].amt)
  BY <1>5, <1>7 DEF Short, After
<1>9. bal[a] \in Int /\ higher[a] \in Int /\ bal[a] <= higher[a]
  BY <1>5
<1> HIDE DEF qs, a
<1> QED
  BY <1>3, <1>4, <1>5, <1>6, <1>8, <1>9

LEMMA RevertibleMonotone ==
  ASSUME NEW D, NEW bal \in [D -> Int], NEW higher \in [D -> Int],
         \A a \in D : IsWorld(a) \/ bal[a] <= higher[a],
         NEW ps \in Seq(Posting), Revertible(ps, bal)
  PROVE  Revertible(ps, higher)
<1> SUFFICES ASSUME NEW a \in D, ~IsWorld(a) PROVE After(higher, ps)[a] >= 0
  BY DEF Revertible
<1>1. After(bal, ps)[a] >= 0
  BY DEF Revertible
<1>2. InputOf(ps, a) \in Nat /\ OutputOf(ps, a) \in Nat
  BY InputOutputNat
<1>3. /\ After(bal, ps)[a] = bal[a] + InputOf(ps, a) - OutputOf(ps, a)
      /\ After(higher, ps)[a] = higher[a] + InputOf(ps, a) - OutputOf(ps, a)
  BY DEF After
<1>4. bal[a] \in Int /\ higher[a] \in Int /\ bal[a] <= higher[a]
  OBVIOUS
<1> QED
  BY <1>1, <1>2, <1>3, <1>4

-----------------------------------------------------------------------------
(* The moves.  The recursion of FoldRight has a solution, as that of a sum. *)

\* g gives the state of the walk that has taken back the postings of each member
\* of D, a set of sets of positions.
Walked(ps, first, D, g) ==
  g = [s \in D |-> IF s = {} THEN first ELSE TakeBack(g[s \ {Min(s)}], ps[Min(s)])]

WalkOf(pcv) == [pcv |-> pcv, moves |-> <<>>]

LEMMA MovesAreWalked ==
  ASSUME NEW pcv, NEW ps
  PROVE  Moves(pcv, ps) =
           (CHOOSE g : Walked(ps, WalkOf(pcv), SUBSET (DOMAIN ps), g))[DOMAIN ps].moves
BY DEF Moves, FoldRight, MapThenFoldSet, Walked, WalkOf

LEMMA MinIsLeast ==
  ASSUME NEW S, S \subseteq Nat, S # {}
  PROVE  Min(S) \in S /\ \A x \in S : Min(S) <= x
BY Least DEF Min

LEMMA WalkExists ==
  ASSUME NEW ps, NEW first, NEW n \in Nat
  PROVE  \E g : Walked(ps, first, SUBSET (1..n), g)
<1> DEFINE Upto(k) == { s \in SUBSET (1..n) : Cardinality(s) <= k }
           Q == { k \in Nat : \E g : Walked(ps, first, Upto(k), g) }
<1>0. \A s \in SUBSET (1..n) : IsFiniteSet(s) /\ Cardinality(s) \in Nat
  <2>1. IsFiniteSet(1..n)
    BY FS_Interval
  <2> QED
    BY <2>1, FS_Subset, FS_CardinalityType
<1>1. \A s \in SUBSET (1..n) : s # {} =>
        Min(s) \in s /\ Cardinality(s \ {Min(s)}) = Cardinality(s) - 1
  <2>1. \A s \in SUBSET (1..n) : s # {} => Min(s) \in s
    <3>1. \A s \in SUBSET (1..n) : s \subseteq Nat
      OBVIOUS
    <3> QED
      BY <3>1, MinIsLeast
  <2> QED
    BY <1>0, <2>1, FS_RemoveElement
<1>2. 0 \in Q
  <2>1. Upto(0) = {{}}
    <3>1. \A s \in SUBSET (1..n) : Cardinality(s) = 0 <=> s = {}
      BY <1>0, FS_EmptySet
    <3>2. \A s \in SUBSET (1..n) : Cardinality(s) <= 0 <=> Cardinality(s) = 0
      BY <1>0
    <3> QED
      BY <3>1, <3>2
  <2>2. Walked(ps, first, Upto(0), [s \in {{}} |-> first])
    BY <2>1 DEF Walked
  <2> QED
    BY <2>2
<1>3. ASSUME NEW k \in Nat, k \in Q PROVE k + 1 \in Q
  <2>1. PICK g : Walked(ps, first, Upto(k), g)
    BY <1>3
  <2> DEFINE h == [s \in Upto(k + 1) |->
                     IF s = {} THEN first ELSE TakeBack(g[s \ {Min(s)}], ps[Min(s)])]
  <2>2. \A s \in Upto(k) : g[s] = IF s = {} THEN first ELSE TakeBack(g[s \ {Min(s)}], ps[Min(s)])
    BY <2>1 DEF Walked
  <2>3. \A s \in Upto(k) : s \in Upto(k + 1) /\ h[s] = g[s]
    <3>1. \A s \in SUBSET (1..n) : Cardinality(s) <= k => Cardinality(s) <= k + 1
      BY <1>0
    <3>2. \A s \in Upto(k) : s \in Upto(k + 1)
      BY <3>1
    <3> HIDE DEF Upto
    <3> QED
      BY <3>2, <2>2
  <2>4. ASSUME NEW s \in SUBSET (1..n), Cardinality(s) <= k + 1, s # {}
        PROVE  Cardinality(s \ {Min(s)}) <= k
    <3>1. Cardinality(s \ {Min(s)}) = Cardinality(s) - 1 /\ Cardinality(s) \in Nat
      BY <1>0, <1>1, <2>4
    <3> QED
      BY <2>4, <3>1
  <2>5. h = [s \in Upto(k + 1) |->
               IF s = {} THEN first ELSE TakeBack(h[s \ {Min(s)}], ps[Min(s)])]
    <3>0. \A s \in Upto(k + 1) : s # {} => s \ {Min(s)} \in Upto(k)
      BY <2>4
    <3> HIDE DEF Upto
    <3>1. \A s \in Upto(k + 1) : s # {} => h[s \ {Min(s)}] = g[s \ {Min(s)}]
      BY <2>3, <3>0
    <3> QED
      BY <3>1
  <2>6. Walked(ps, first, Upto(k + 1), h)
    BY <2>5 DEF Walked
  <2> QED
    <3> HIDE DEF Upto, h
    <3> QED
      BY <2>6
<1>4. Nat \subseteq Q
  <2> HIDE DEF Q
  <2> QED
    BY <1>2, <1>3, NaturalInduction
<1>5. Upto(Cardinality(1..n)) = SUBSET (1..n) /\ Cardinality(1..n) \in Nat
  <2>1. IsFiniteSet(1..n)
    BY <1>0
  <2>2. \A s \in SUBSET (1..n) : Cardinality(s) <= Cardinality(1..n)
    BY <2>1, FS_Subset
  <2> QED
    BY <1>0, <2>2
<1> QED
  BY <1>4, <1>5

(***************************************************************************)
(* The walk, state by state: w[k] when the postings from k on are taken    *)
(* back.                                                                   *)
(***************************************************************************)
LEMMA WalkSteps ==
  ASSUME NEW pcv, NEW ps \in Seq(Posting)
  PROVE  \E w : /\ w[Len(ps) + 1] = WalkOf(pcv)
                /\ \A k \in 1..Len(ps) : w[k] = TakeBack(w[k + 1], ps[k])
                /\ Moves(pcv, ps) = w[1].moves
<1> DEFINE n == Len(ps)
           g == CHOOSE g : Walked(ps, WalkOf(pcv), SUBSET (1..n), g)
           w == [k \in 1..(n + 1) |-> g[k..n]]
<1>1. n \in Nat /\ DOMAIN ps = 1..n
  BY LenProperties
<1>2. Walked(ps, WalkOf(pcv), SUBSET (1..n), g)
  BY <1>1, WalkExists
<1>3. Moves(pcv, ps) = g[1..n].moves
  BY <1>1, MovesAreWalked
<1> HIDE DEF g, n
<1>4. g[{}] = WalkOf(pcv)
  BY <1>2 DEF Walked
<1>5. ASSUME NEW k \in 1..n PROVE g[k..n] = TakeBack(g[(k + 1)..n], ps[k])
  <2>0. k \in Nat /\ 1 <= k /\ k <= n
    BY <1>1
  <2>1. k \in k..n /\ k..n \in SUBSET (1..n) /\ k..n \subseteq Nat
    BY <1>1, <2>0
  <2>2. Min(k..n) \in k..n /\ \A x \in k..n : Min(k..n) <= x
    BY <2>1, MinIsLeast
  <2>3. Min(k..n) = k
    BY <1>1, <2>0, <2>1, <2>2
  <2>4. (k..n) \ {k} = (k + 1)..n
    BY <1>1, <2>0
  <2>5. g[k..n] = TakeBack(g[(k..n) \ {Min(k..n)}], ps[Min(k..n)])
    BY <1>2, <2>1 DEF Walked
  <2> QED
    BY <2>3, <2>4, <2>5
<1>6. (n + 1)..n = {} /\ n + 1 \in 1..(n + 1) /\ 1 \in 1..(n + 1)
  BY <1>1
<1>7. w[n + 1] = WalkOf(pcv) /\ Moves(pcv, ps) = w[1].moves
  BY <1>3, <1>4, <1>6
<1>8. \A k \in 1..n : w[k] = TakeBack(w[k + 1], ps[k])
  <2>1. \A k \in 1..n : k \in 1..(n + 1) /\ k + 1 \in 1..(n + 1)
    BY <1>1
  <2> QED
    BY <1>5, <2>1
<1> HIDE DEF w
<1> QED
  BY <1>7, <1>8 DEF n

\* The volumes after the first k postings, and the moves of posting i.
VolumesAfter(vol, ps, k) == [a \in Accounts |-> AddPostings(vol[a], SubSeq(ps, 1, k), a)]

TakenMove(vol, ps, i) ==
  [account |-> ps[i].src,
   volume  |-> [VolumesAfter(vol, ps, i - 1)[ps[i].src] EXCEPT !.out = @ + ps[i].amt]]
BroughtMove(vol, ps, i) ==
  [account |-> ps[i].dst, volume |-> VolumesAfter(vol, ps, i)[ps[i].dst]]

LEMMA TakeFromVolume ==
  ASSUME NEW x \in Int, NEW y \in Int, NEW m \in Int
  PROVE  /\ [[in |-> x + m, out |-> y] EXCEPT !.in = @ - m] = [in |-> x, out |-> y]
         /\ [[in |-> x, out |-> y + m] EXCEPT !.out = @ - m] = [in |-> x, out |-> y]
         /\ x + 0 = x
OBVIOUS

\* Taking posting k back undoes it, and records its moves.
LEMMA TakeBackUndoes ==
  ASSUME NEW vol \in [Accounts -> Volume], NEW ps \in Seq(Posting), NEW k \in 1..Len(ps),
         NEW s, s.pcv = VolumesAfter(vol, ps, k)
  PROVE  /\ TakeBack(s, ps[k]).pcv = VolumesAfter(vol, ps, k - 1)
         /\ TakeBack(s, ps[k]).moves = <<TakenMove(vol, ps, k), BroughtMove(vol, ps, k)>> \o s.moves
<1> DEFINE p   == ps[k]
           new == VolumesAfter(vol, ps, k)
           old == VolumesAfter(vol, ps, k - 1)
           noInput == [s.pcv EXCEPT ![p.dst].in = @ - p.amt]
<1>1. Len(ps) \in Nat /\ k \in 0..Len(ps) /\ k - 1 \in 0..Len(ps) /\ k - 1 + 1 = k
        /\ k - 1 < Len(ps)
  BY LenProperties
<1>2. p.src \in Accounts /\ p.dst \in Accounts /\ p.amt \in Nat
  BY SumsOfPostings DEF Posting
<1>3. ASSUME NEW a \in Accounts
      PROVE  /\ InputOf(SubSeq(ps, 1, k), a) =
                  InputOf(SubSeq(ps, 1, k - 1), a) + (IF p.dst = a THEN p.amt ELSE 0)
             /\ OutputOf(SubSeq(ps, 1, k), a) =
                  OutputOf(SubSeq(ps, 1, k - 1), a) + (IF p.src = a THEN p.amt ELSE 0)
             /\ InputOf(SubSeq(ps, 1, k - 1), a) \in Nat /\ OutputOf(SubSeq(ps, 1, k - 1), a) \in Nat
             /\ vol[a].in \in Nat /\ vol[a].out \in Nat
  <2>1. SubSeq(ps, 1, k - 1) \in Seq(Posting)
    BY <1>1, Prefix
  <2>2. vol[a].in \in Nat /\ vol[a].out \in Nat
    BY DEF Volume
  <2>3. InputOf(SubSeq(ps, 1, k - 1), a) \in Nat /\ OutputOf(SubSeq(ps, 1, k - 1), a) \in Nat
    BY <2>1, InputOutputNat
  <2> DEFINE m == k - 1
  <2>4. m \in 0..(Len(ps) - 1) /\ m + 1 = k
    BY <1>1
  <2> HIDE DEF m
  <2>5. /\ InputOf(SubSeq(ps, 1, m + 1), a) =
             InputOf(SubSeq(ps, 1, m), a) + (IF ps[m + 1].dst = a THEN ps[m + 1].amt ELSE 0)
        /\ OutputOf(SubSeq(ps, 1, m + 1), a) =
             OutputOf(SubSeq(ps, 1, m), a) + (IF ps[m + 1].src = a THEN ps[m + 1].amt ELSE 0)
    BY <2>4, PrefixMoves
  <2> QED
    BY <2>2, <2>3, <2>4, <2>5 DEF m
<1>4. \A a \in Accounts :
        /\ old[a] = [in |-> old[a].in, out |-> old[a].out]
        /\ new[a] = [in |-> old[a].in + (IF p.dst = a THEN p.amt ELSE 0),
                     out |-> old[a].out + (IF p.src = a THEN p.amt ELSE 0)]
        /\ old[a].in \in Int /\ old[a].out \in Int
  <2> SUFFICES ASSUME NEW a \in Accounts
               PROVE  /\ old[a] = [in |-> old[a].in, out |-> old[a].out]
                      /\ new[a] = [in |-> old[a].in + (IF p.dst = a THEN p.amt ELSE 0),
                                   out |-> old[a].out + (IF p.src = a THEN p.amt ELSE 0)]
                      /\ old[a].in \in Int /\ old[a].out \in Int
    OBVIOUS
  <2>1. /\ old[a] = [in  |-> vol[a].in + InputOf(SubSeq(ps, 1, k - 1), a),
                     out |-> vol[a].out + OutputOf(SubSeq(ps, 1, k - 1), a)]
        /\ new[a] = [in  |-> vol[a].in + InputOf(SubSeq(ps, 1, k), a),
                     out |-> vol[a].out + OutputOf(SubSeq(ps, 1, k), a)]
    BY DEF VolumesAfter, AddPostings
  <2>2. /\ old[a].in = vol[a].in + InputOf(SubSeq(ps, 1, k - 1), a) /\ old[a].in \in Int
        /\ old[a].out = vol[a].out + OutputOf(SubSeq(ps, 1, k - 1), a) /\ old[a].out \in Int
    BY <1>3, <2>1
  <2> DEFINE gain == IF p.dst = a THEN p.amt ELSE 0
             loss == IF p.src = a THEN p.amt ELSE 0
  <2>3. gain \in Int /\ loss \in Int
    BY <1>2
  <2>4. /\ InputOf(SubSeq(ps, 1, k), a) = InputOf(SubSeq(ps, 1, k - 1), a) + gain
        /\ OutputOf(SubSeq(ps, 1, k), a) = OutputOf(SubSeq(ps, 1, k - 1), a) + loss
        /\ InputOf(SubSeq(ps, 1, k - 1), a) \in Nat /\ OutputOf(SubSeq(ps, 1, k - 1), a) \in Nat
        /\ vol[a].in \in Nat /\ vol[a].out \in Nat
    BY <1>3
  <2> HIDE DEF old, new, p, gain, loss
  <2>5. /\ vol[a].in + InputOf(SubSeq(ps, 1, k), a) = old[a].in + gain
        /\ vol[a].out + OutputOf(SubSeq(ps, 1, k), a) = old[a].out + loss
    <3>1. \A v, x, g \in Int : v + (x + g) = (v + x) + g
      OBVIOUS
    <3>2. /\ vol[a].in + (InputOf(SubSeq(ps, 1, k - 1), a) + gain)
               = (vol[a].in + InputOf(SubSeq(ps, 1, k - 1), a)) + gain
          /\ vol[a].out + (OutputOf(SubSeq(ps, 1, k - 1), a) + loss)
               = (vol[a].out + OutputOf(SubSeq(ps, 1, k - 1), a)) + loss
      BY <2>3, <2>4, <3>1
    <3> QED
      BY <2>2, <2>4, <3>2
  <2>6. /\ old[a] = [in |-> old[a].in, out |-> old[a].out]
        /\ new[a] = [in |-> old[a].in + gain, out |-> old[a].out + loss]
    BY <2>1, <2>2, <2>5
  <2> QED
    BY <2>2, <2>6 DEF gain, loss
<1>5. DOMAIN old = Accounts /\ DOMAIN new = Accounts /\ old = [a \in Accounts |-> old[a]]
  BY DEF VolumesAfter
<1> HIDE DEF old, new, p
<1>12. ASSUME NEW a \in Accounts
       PROVE  /\ old[a].in \in Int /\ old[a].out \in Int /\ p.amt \in Int
              /\ (IF p.src = a THEN p.amt ELSE 0) \in Int
  <2>1. old[a].in \in Int /\ old[a].out \in Int
    BY <1>4
  <2> QED
    BY <1>2, <2>1
<1>6. s.pcv = new
  BY DEF new
<1>7. noInput = [a \in Accounts |-> [in  |-> old[a].in,
                                     out |-> old[a].out + (IF p.src = a THEN p.amt ELSE 0)]]
  <2>1. \A a \in Accounts : noInput[a] = [in  |-> old[a].in,
                                          out |-> old[a].out + (IF p.src = a THEN p.amt ELSE 0)]
    <3> SUFFICES ASSUME NEW a \in Accounts
                 PROVE  noInput[a] = [in  |-> old[a].in,
                                      out |-> old[a].out + (IF p.src = a THEN p.amt ELSE 0)]
      OBVIOUS
    <3>1. CASE p.dst = a
      <4>1. noInput[a] = [new[a] EXCEPT !.in = @ - p.amt]
        BY <1>5, <1>6, <3>1
      <4>2. new[a] = [in |-> old[a].in + p.amt, out |-> old[a].out + (IF p.src = a THEN p.amt ELSE 0)]
        BY <1>4, <3>1
      <4> DEFINE x == old[a].in
                 y == old[a].out + (IF p.src = a THEN p.amt ELSE 0)
      <4>3. x \in Int /\ p.amt \in Int /\ y \in Int
        BY <1>12
      <4>4. [[in |-> x + p.amt, out |-> y] EXCEPT !.in = @ - p.amt] = [in |-> x, out |-> y]
        <5> HIDE DEF x, y
        <5> QED
          BY <4>3, TakeFromVolume
      <4> HIDE DEF noInput
      <4> QED
        BY <4>1, <4>2, <4>4
    <3>2. CASE p.dst # a
      <4>1. noInput[a] = new[a]
        BY <1>5, <1>6, <3>2
      <4>2. new[a] = [in |-> old[a].in + 0, out |-> old[a].out + (IF p.src = a THEN p.amt ELSE 0)]
        BY <1>4, <3>2
      <4>3. old[a].in + 0 = old[a].in /\ old[a].out + 0 = old[a].out
        BY <1>12
      <4> HIDE DEF noInput
      <4> QED
        BY <4>1, <4>2, <4>3
    <3> QED
      BY <3>1, <3>2
  <2> QED
    BY <1>5, <1>6, <2>1
<1>8. noInput[p.src] = [old[p.src] EXCEPT !.out = @ + p.amt]
  <2>1. noInput[p.src] = [in |-> old[p.src].in, out |-> old[p.src].out + p.amt]
    BY <1>2, <1>7
  <2>2. old[p.src] = [in |-> old[p.src].in, out |-> old[p.src].out]
    BY <1>2, <1>4
  <2> HIDE DEF noInput
  <2> QED
    BY <2>1, <2>2
<1>9. [noInput EXCEPT ![p.src].out = @ - p.amt] = old
  <2> HIDE DEF noInput
  <2>1. \A a \in Accounts : [noInput EXCEPT ![p.src].out = @ - p.amt][a] = old[a]
    <3> SUFFICES ASSUME NEW a \in Accounts PROVE [noInput EXCEPT ![p.src].out = @ - p.amt][a] = old[a]
      OBVIOUS
    <3>1. CASE p.src = a
      <4>1. noInput[a] = [in |-> old[a].in, out |-> old[a].out + p.amt]
        BY <1>7, <3>1
      <4>2. [noInput EXCEPT ![p.src].out = @ - p.amt][a] = [noInput[a] EXCEPT !.out = @ - p.amt]
        BY <1>7, <3>1
      <4>3. /\ old[a].in \in Int /\ p.amt \in Int /\ old[a].out \in Int
            /\ old[a] = [in |-> old[a].in, out |-> old[a].out]
        <5>1. old[a] = [in |-> old[a].in, out |-> old[a].out]
          BY <1>4
        <5> QED
          BY <1>12, <5>1
      <4> DEFINE x == old[a].in
                 y == old[a].out
      <4>4. [[in |-> x, out |-> y + p.amt] EXCEPT !.out = @ - p.amt] = [in |-> x, out |-> y]
        <5>1. x \in Int /\ p.amt \in Int /\ y \in Int
          BY <4>3
        <5> HIDE DEF x, y
        <5> QED
          BY <5>1, TakeFromVolume
      <4> QED
        BY <4>1, <4>2, <4>3, <4>4
    <3>2. CASE p.src # a
      <4>1. noInput[a] = [in |-> old[a].in, out |-> old[a].out + 0]
        BY <1>7, <3>2
      <4>2. [noInput EXCEPT ![p.src].out = @ - p.amt][a] = noInput[a]
        BY <1>7, <3>2
      <4>3. /\ old[a].in + 0 = old[a].in /\ old[a].out + 0 = old[a].out
            /\ old[a] = [in |-> old[a].in, out |-> old[a].out]
        <5>1. old[a] = [in |-> old[a].in, out |-> old[a].out]
          BY <1>4
        <5> QED
          BY <1>12, <5>1
      <4> QED
        BY <4>1, <4>2, <4>3
    <3> QED
      BY <3>1, <3>2
  <2>2. DOMAIN noInput = Accounts
    BY <1>7
  <2> QED
    BY <1>5, <2>1, <2>2
<1>10. TakeBack(s, p) = [pcv   |-> [noInput EXCEPT ![p.src].out = @ - p.amt],
                         moves |-> <<[account |-> p.src, volume |-> noInput[p.src]],
                                     [account |-> p.dst, volume |-> s.pcv[p.dst]]>> \o s.moves]
  BY DEF TakeBack
<1>11. /\ TakenMove(vol, ps, k) = [account |-> p.src, volume |-> noInput[p.src]]
       /\ BroughtMove(vol, ps, k) = [account |-> p.dst, volume |-> s.pcv[p.dst]]
  BY <1>6, <1>8 DEF TakenMove, BroughtMove, p, old, new
<1> HIDE DEF noInput
<1> QED
  BY <1>9, <1>10, <1>11 DEF p, old

\* Two elements put first.
LEMMA TwoFirst ==
  ASSUME NEW S, NEW x \in S, NEW y \in S, NEW seq \in Seq(S)
  PROVE  /\ <<x, y>> \o seq \in Seq(S) /\ Len(<<x, y>> \o seq) = Len(seq) + 2
         /\ (<<x, y>> \o seq)[1] = x /\ (<<x, y>> \o seq)[2] = y
         /\ \A i \in 1..Len(seq) : (<<x, y>> \o seq)[i + 2] = seq[i]
<1>1. <<x, y>> \in Seq(S) /\ Len(<<x, y>>) = 2 /\ Len(seq) \in Nat
  BY LenProperties
<1> QED
  BY <1>1, ConcatProperties

\* What the walk has recorded in s when the last j postings are taken back; Move
\* is a set the moves belong to.
Recorded(vol, ps, Move, s, j) ==
  /\ s.pcv = VolumesAfter(vol, ps, Len(ps) - j)
  /\ s.moves \in Seq(Move) /\ Len(s.moves) = 2 * j
  /\ \A i \in 1..j : /\ s.moves[2 * i - 1] = TakenMove(vol, ps, Len(ps) - j + i)
                    /\ s.moves[2 * i] = BroughtMove(vol, ps, Len(ps) - j + i)

(***************************************************************************)
(* The moves of posting i are at 2i - 1 and 2i, and carry the volumes of   *)
(* their account when the postings before i, then i itself, are applied.   *)
(***************************************************************************)
LEMMA MovesAre ==
  ASSUME NEW vol \in [Accounts -> Volume], NEW ps \in Seq(Posting), NEW pcv,
         pcv = [a \in Accounts |-> AddPostings(vol[a], ps, a)]
  PROVE  /\ Len(Moves(pcv, ps)) = 2 * Len(ps)
         /\ \A i \in 1..Len(ps) : /\ Moves(pcv, ps)[2 * i - 1] = TakenMove(vol, ps, i)
                                  /\ Moves(pcv, ps)[2 * i] = BroughtMove(vol, ps, i)
<1> DEFINE n == Len(ps)
           Move == { TakenMove(vol, ps, i) : i \in 1..n } \cup { BroughtMove(vol, ps, i) : i \in 1..n }
<1>0. n \in Nat /\ \A i \in 1..n : TakenMove(vol, ps, i) \in Move /\ BroughtMove(vol, ps, i) \in Move
  BY LenProperties
<1>1. PICK w : /\ w[n + 1] = WalkOf(pcv)
               /\ \A k \in 1..n : w[k] = TakeBack(w[k + 1], ps[k])
               /\ Moves(pcv, ps) = w[1].moves
  BY WalkSteps
<1> DEFINE s(j) == w[n + 1 - j]
           Done(j) == Recorded(vol, ps, Move, s(j), j)
           Q == { j \in Nat : j <= n => Done(j) }
<1>2. 0 \in Q
  <2>1. s(0) = WalkOf(pcv) /\ n - 0 = n /\ 2 * 0 = 0
    BY <1>0, <1>1
  <2>2. SubSeq(ps, 1, n) = ps
    BY SubSeqFull
  <2>3. WalkOf(pcv).pcv = VolumesAfter(vol, ps, n) /\ WalkOf(pcv).moves = <<>>
    BY <2>2 DEF WalkOf, VolumesAfter
  <2>4. <<>> \in Seq(Move) /\ Len(<<>>) = 0
    BY EmptySeq
  <2>5. Done(0)
    <3>1. s(0).pcv = VolumesAfter(vol, ps, n - 0) /\ s(0).moves = <<>> /\ 1..0 = {}
      BY <2>1, <2>3
    <3> HIDE DEF Move, s
    <3>2. s(0).moves \in Seq(Move) /\ Len(s(0).moves) = 2 * 0
      BY <2>1, <2>4, <3>1
    <3> QED
      BY <3>1, <3>2 DEF Recorded
  <2> QED
    BY <2>5
<1>3. ASSUME NEW j \in Nat, j \in Q PROVE j + 1 \in Q
  <2> HIDE DEF Done
  <2> SUFFICES ASSUME j + 1 <= n PROVE Done(j + 1)
    OBVIOUS
  <2> DEFINE k == n - j
  <2>0. /\ k \in 1..n /\ k + 1 = n + 1 - j /\ k = n + 1 - (j + 1) /\ k - 1 = n - (j + 1) /\ j <= n
        /\ \A i \in 1..(j + 1) : k - 1 + i \in 1..n
    BY <1>0
  <2>1. Done(j)
    BY <1>3, <2>0
  <2> USE DEF Done
  <2>2. s(j + 1) = TakeBack(s(j), ps[k])
    BY <1>1, <2>0
  <2> HIDE DEF k, s
  <2>3. s(j).pcv = VolumesAfter(vol, ps, k)
    BY <2>1 DEF k, Recorded
  <2>4. /\ s(j + 1).pcv = VolumesAfter(vol, ps, k - 1)
        /\ s(j + 1).moves = <<TakenMove(vol, ps, k), BroughtMove(vol, ps, k)>> \o s(j).moves
    <3> DEFINE st == s(j)
    <3>1. k \in 1..Len(ps) /\ st.pcv = VolumesAfter(vol, ps, k)
      BY <2>0, <2>3
    <3> HIDE DEF st
    <3>2. /\ TakeBack(st, ps[k]).pcv = VolumesAfter(vol, ps, k - 1)
          /\ TakeBack(st, ps[k]).moves = <<TakenMove(vol, ps, k), BroughtMove(vol, ps, k)>> \o st.moves
      BY <3>1, TakeBackUndoes
    <3> QED
      BY <2>2, <3>2 DEF st
  <2>5. TakenMove(vol, ps, k) \in Move /\ BroughtMove(vol, ps, k) \in Move /\ s(j).moves \in Seq(Move)
    BY <1>0, <2>0, <2>1 DEF Recorded
  <2> HIDE DEF Move
  <2>6. /\ s(j + 1).moves \in Seq(Move) /\ Len(s(j + 1).moves) = Len(s(j).moves) + 2
        /\ s(j + 1).moves[1] = TakenMove(vol, ps, k) /\ s(j + 1).moves[2] = BroughtMove(vol, ps, k)
        /\ \A i \in 1..Len(s(j).moves) : s(j + 1).moves[i + 2] = s(j).moves[i]
    <3> DEFINE tk == TakenMove(vol, ps, k)
               br == BroughtMove(vol, ps, k)
               sq == s(j).moves
    <3>1. tk \in Move /\ br \in Move /\ sq \in Seq(Move) /\ s(j + 1).moves = <<tk, br>> \o sq
      BY <2>4, <2>5
    <3> HIDE DEF tk, br, sq
    <3>2. /\ <<tk, br>> \o sq \in Seq(Move) /\ Len(<<tk, br>> \o sq) = Len(sq) + 2
          /\ (<<tk, br>> \o sq)[1] = tk /\ (<<tk, br>> \o sq)[2] = br
          /\ \A i \in 1..Len(sq) : (<<tk, br>> \o sq)[i + 2] = sq[i]
      BY <3>1, TwoFirst
    <3> QED
      BY <3>1, <3>2 DEF tk, br, sq
  <2>7. Len(s(j).moves) = 2 * j /\ Len(s(j + 1).moves) = 2 * (j + 1)
    BY <2>1, <2>6 DEF Recorded
  <2>8. ASSUME NEW i \in 1..(j + 1)
        PROVE  /\ s(j + 1).moves[2 * i - 1] = TakenMove(vol, ps, k - 1 + i)
               /\ s(j + 1).moves[2 * i] = BroughtMove(vol, ps, k - 1 + i)
    <3>1. CASE i = 1
      <4>1. 2 * i - 1 = 1 /\ 2 * i = 2 /\ k - 1 + i = k
        BY <2>0, <3>1
      <4> QED
        BY <2>6, <4>1
    <3>2. CASE i # 1
      <4> DEFINE h == i - 1
      <4>1. /\ h \in 1..j /\ 2 * h - 1 \in 1..(2 * j) /\ 2 * h \in 1..(2 * j)
            /\ 2 * i - 1 = 2 * h - 1 + 2 /\ 2 * i = 2 * h + 2 /\ k + h = k - 1 + i
        BY <2>0, <3>2
      <4> HIDE DEF h
      <4>2. /\ s(j).moves[2 * h - 1] = TakenMove(vol, ps, k + h)
            /\ s(j).moves[2 * h] = BroughtMove(vol, ps, k + h)
        BY <2>1, <4>1 DEF k, Recorded
      <4>3. /\ s(j + 1).moves[2 * h - 1 + 2] = s(j).moves[2 * h - 1]
            /\ s(j + 1).moves[2 * h + 2] = s(j).moves[2 * h]
        BY <2>6, <2>7, <4>1
      <4> QED
        BY <4>1, <4>2, <4>3
    <3> QED
      BY <3>1, <3>2
  <2>9. n - (j + 1) = k - 1
    BY <2>0
  <2> QED
    BY <2>4, <2>6, <2>7, <2>8, <2>9 DEF Recorded
<1>4. Nat \subseteq Q
  <2> HIDE DEF Q
  <2> QED
    BY <1>2, <1>3, NaturalInduction
<1>5. Done(n)
  <2> HIDE DEF Done
  <2> QED
    BY <1>0, <1>4
<1>6. s(n) = w[1] /\ \A i \in 1..n : n - n + i = i
  BY <1>0
<1> HIDE DEF s, Move
<1> QED
  BY <1>1, <1>5, <1>6 DEF Recorded

-----------------------------------------------------------------------------
(* Reversing a list at once.                                                *)

\* The reversed list goes back through the balances the list went through.
LEMMA ReverseRetraces ==
  ASSUME NEW D, NEW bal \in [D -> Int], NEW ps \in Seq(Posting), NEW a \in D,
         NEW j \in 0..Len(ps)
  PROVE  After(After(bal, ps), SubSeq(ReversePostings(ps), 1, j))[a]
           = After(bal, SubSeq(ps, 1, Len(ps) - j))[a]
<1> DEFINE n    == Len(ps)
           back == ReversePostings(ps)
           end  == After(bal, ps)
           Forth(k) == After(bal, SubSeq(ps, 1, k))[a]
           Back(k)  == After(end, SubSeq(back, 1, k))[a]
           Q == { k \in Nat : k <= n => Back(k) = Forth(n - k) }
<1>1. /\ n \in Nat /\ back \in Seq(Posting) /\ Len(back) = n
      /\ \A i \in 1..n : /\ back[i].src = ps[n + 1 - i].dst /\ back[i].dst = ps[n + 1 - i].src
                         /\ back[i].amt = ps[n + 1 - i].amt
                         /\ ps[i].amt \in Nat
  <2>1. n \in Nat /\ DOMAIN ps = 1..n /\ \A i \in 1..n : ps[i] \in Posting
    BY SumsOfPostings
  <2>2. back \in Seq(Posting) /\ Len(back) = n
    BY ReverseTwice
  <2>3. \A i \in 1..n : back[i] = Swap(ps[n + 1 - i])
    BY <2>1 DEF ReversePostings
  <2>4. ASSUME NEW i \in 1..n
        PROVE  /\ back[i].src = ps[n + 1 - i].dst /\ back[i].dst = ps[n + 1 - i].src
               /\ back[i].amt = ps[n + 1 - i].amt
               /\ ps[i].amt \in Nat
    <3>1. /\ ps[n + 1 - i] \in Posting /\ ps[i] \in Posting /\ back[i] = Swap(ps[n + 1 - i])
      BY <2>1, <2>3
    <3> HIDE DEF back, n
    <3> QED
      BY <3>1 DEF Swap, Posting
  <2> QED
    BY <2>1, <2>2, <2>4
<1>2. end \in [D -> Int]
  <2>1. \A b \in D : InputOf(ps, b) \in Nat /\ OutputOf(ps, b) \in Nat /\ bal[b] \in Int
    BY InputOutputNat
  <2> QED
    BY <2>1 DEF After
<1> HIDE DEF end, back, n
<1>3. /\ Forth(0) = bal[a] /\ \A k \in 0..n : Forth(k) \in Int
      /\ \A k \in 1..n : Forth(k) = Forth(k - 1) + (IF ps[k].dst = a THEN ps[k].amt ELSE 0)
                                                - (IF ps[k].src = a THEN ps[k].amt ELSE 0)
  BY AfterPrefix DEF n
<1>4. /\ Back(0) = end[a] /\ \A k \in 0..n : Back(k) \in Int
      /\ \A k \in 1..n : Back(k) = Back(k - 1) + (IF back[k].dst = a THEN back[k].amt ELSE 0)
                                              - (IF back[k].src = a THEN back[k].amt ELSE 0)
  <2>0. back \in Seq(Posting)
    BY <1>1
  <2>1. /\ After(end, SubSeq(back, 1, 0))[a] = end[a]
        /\ \A k \in 0..Len(back) : After(end, SubSeq(back, 1, k))[a] \in Int
        /\ \A k \in 1..Len(back) : After(end, SubSeq(back, 1, k))[a] =
             After(end, SubSeq(back, 1, k - 1))[a]
               + (IF back[k].dst = a THEN back[k].amt ELSE 0)
               - (IF back[k].src = a THEN back[k].amt ELSE 0)
    BY <1>2, <2>0, AfterPrefix
  <2> QED
    BY <1>1, <2>1
<1>5. end[a] = Forth(n)
  <2>1. SubSeq(ps, 1, n) = ps
    BY SubSeqFull DEF n
  <2> QED
    BY <2>1 DEF end
<1> HIDE DEF Forth, Back
<1>6. 0 \in Q
  BY <1>1, <1>4, <1>5
<1>7. ASSUME NEW k \in Nat, k \in Q PROVE k + 1 \in Q
  <2> SUFFICES ASSUME k + 1 <= n PROVE Back(k + 1) = Forth(n - (k + 1))
    OBVIOUS
  <2> DEFINE m == n - k
  <2>1. /\ m \in 1..n /\ m - 1 \in 0..n /\ k + 1 \in 1..n /\ k + 1 - 1 = k /\ k \in 0..n
        /\ n + 1 - (k + 1) = m /\ n - (k + 1) = m - 1
    BY <1>1
  <2>2. Back(k) = Forth(m)
    BY <1>1, <1>7
  <2> HIDE DEF m
  <2> DEFINE gain == IF ps[m].dst = a THEN ps[m].amt ELSE 0
             loss == IF ps[m].src = a THEN ps[m].amt ELSE 0
  <2>3. gain \in Int /\ loss \in Int
    BY <1>1, <2>1
  <2>4. Forth(m) = Forth(m - 1) + gain - loss /\ Forth(m - 1) \in Int
    BY <1>3, <2>1
  <2>5. Back(k + 1) = Back(k) + loss - gain
    <3>1. /\ back[k + 1].src = ps[m].dst /\ back[k + 1].dst = ps[m].src
          /\ back[k + 1].amt = ps[m].amt
      BY <1>1, <2>1
    <3>2. Back(k + 1) = Back(k) + (IF back[k + 1].dst = a THEN back[k + 1].amt ELSE 0)
                                - (IF back[k + 1].src = a THEN back[k + 1].amt ELSE 0)
      BY <1>4, <2>1
    <3> QED
      BY <3>1, <3>2
  <2> HIDE DEF gain, loss
  <2>6. Back(k + 1) = Forth(m - 1)
    BY <2>2, <2>3, <2>4, <2>5
  <2> QED
    BY <2>1, <2>6
<1>8. Nat \subseteq Q
  <2> HIDE DEF Q
  <2> QED
    BY <1>6, <1>7, NaturalInduction
<1>9. Back(j) = Forth(n - j)
  BY <1>8 DEF n
<1> QED
  BY <1>9 DEF Back, Forth, end, back, n

\* At its end all balances are what they were.
LEMMA ReverseRestores ==
  ASSUME NEW D, NEW bal \in [D -> Int], NEW ps \in Seq(Posting)
  PROVE  After(After(bal, ps), ReversePostings(ps)) = bal
<1>1. \A a \in D : /\ After(bal, ps)[a] = bal[a] + InputOf(ps, a) - OutputOf(ps, a)
                   /\ After(After(bal, ps), ReversePostings(ps))[a]
                        = After(bal, ps)[a] + OutputOf(ps, a) - InputOf(ps, a)
  BY ReverseMoves DEF After
<1>2. \A a \in D : InputOf(ps, a) \in Nat /\ OutputOf(ps, a) \in Nat /\ bal[a] \in Int
  BY InputOutputNat
<1>3. \A a \in D : After(After(bal, ps), ReversePostings(ps))[a] = bal[a]
  BY <1>1, <1>2
<1>4. DOMAIN After(After(bal, ps), ReversePostings(ps)) = D
  BY DEF After
<1>5. After(After(bal, ps), ReversePostings(ps)) =
        [a \in D |-> After(After(bal, ps), ReversePostings(ps))[a]]
  BY DEF After
<1> QED
  BY <1>3, <1>5

\* What the machine accepts without overdraft, on balances that are not negative,
\* it accepts to reverse at once.
LEMMA ReverseExecutable ==
  ASSUME NEW D, NEW bal \in [D -> Nat], NEW ps \in Seq(Posting), Involved(ps) \subseteq D,
         Executable(ps, 0, bal)
  PROVE  Executable(ReversePostings(ps), 0, After(bal, ps))
<1> DEFINE n    == Len(ps)
           back == ReversePostings(ps)
           end  == After(bal, ps)
<1>0. bal \in [D -> Int]
  OBVIOUS
<1>1. /\ n \in Nat /\ DOMAIN ps = 1..n /\ DOMAIN back = 1..n
      /\ \A i \in 1..n : ps[i] \in Posting
      /\ \A i \in 1..n : back[i] = Swap(ps[n + 1 - i])
  <2>1. n \in Nat /\ DOMAIN ps = 1..n /\ \A i \in 1..n : ps[i] \in Posting
    BY SumsOfPostings
  <2> QED
    BY <2>1 DEF ReversePostings
<1> HIDE DEF back
<1> SUFFICES ASSUME NEW i \in 1..n, Short(After(end, SubSeq(back, 1, i - 1)), back[i], 0)
             PROVE  FALSE
  BY <1>1 DEF Executable, back
<1> DEFINE j == i - 1
           k == n + 1 - i
           h == n - i
           p == ps[k]
           a == p.dst
           Forth(m) == After(bal, SubSeq(ps, 1, m))[a]
<1>2. /\ k \in 1..n /\ k \in 0..n /\ h \in 0..n /\ h = k - 1 /\ j \in 0..n /\ n - j = k
      /\ back[i] = Swap(ps[k]) /\ j = i - 1
  BY <1>1
<1> HIDE DEF k, h, j
<1>3. p \in Posting /\ back[i].src = a /\ back[i].amt = p.amt /\ p.amt \in Nat
  BY <1>1, <1>2 DEF Swap, Posting
<1>4. a \in D /\ p.src \in D
  BY <1>1, <1>2 DEF Involved, Sources, Destinations
<1>5. After(end, SubSeq(back, 1, j))[a] = Forth(k)
  <2>1. After(After(bal, ps), SubSeq(ReversePostings(ps), 1, j))[a] = After(bal, SubSeq(ps, 1, Len(ps) - j))[a]
    <3>1. a \in D /\ j \in 0..Len(ps)
      BY <1>2, <1>4
    <3> HIDE DEF a
    <3> QED
      BY <1>0, <3>1, ReverseRetraces
  <2> QED
    BY <1>2, <2>1 DEF back
<1>6. p.amt > 0 /\ After(end, SubSeq(back, 1, j))[a] + 0 < p.amt
  BY <1>2, <1>3 DEF Short
<1>7. /\ Forth(k) \in Int /\ Forth(h) \in Int
      /\ Forth(k) = Forth(h) + p.amt - (IF p.src = a THEN p.amt ELSE 0)
  <2>1. /\ \A m \in 0..Len(ps) : After(bal, SubSeq(ps, 1, m))[a] \in Int
        /\ \A m \in 1..Len(ps) : After(bal, SubSeq(ps, 1, m))[a] =
             After(bal, SubSeq(ps, 1, m - 1))[a]
               + (IF ps[m].dst = a THEN ps[m].amt ELSE 0)
               - (IF ps[m].src = a THEN ps[m].amt ELSE 0)
    <3> HIDE DEF a
    <3> QED
      BY <1>0, <1>4, AfterPrefix
  <2>2. Forth(k) = Forth(h) + (IF ps[k].dst = a THEN ps[k].amt ELSE 0)
                            - (IF ps[k].src = a THEN ps[k].amt ELSE 0)
    BY <1>2, <2>1
  <2> QED
    BY <1>2, <2>1, <2>2
<1>8. Forth(h) >= 0
  <2>1. bal[a] \in Nat
    BY <1>4
  <2>2. Forth(h) >= bal[a] \/ Forth(h) >= -0
    <3>1. a \in D /\ h \in 0..Len(ps) /\ 0 \in Int
      BY <1>2, <1>4
    <3> HIDE DEF a
    <3> QED
      BY <1>0, <3>1, ExecutableFloor
  <2> HIDE DEF a
  <2> HIDE DEF Forth
  <2> QED
    BY <1>7, <2>1, <2>2
<1>9. p.src = a => Forth(h) >= p.amt
  <2> SUFFICES ASSUME p.src = a PROVE Forth(h) >= p.amt
    OBVIOUS
  <2>1. ~Short(After(bal, SubSeq(ps, 1, h)), p, 0)
    BY <1>1, <1>2 DEF Executable
  <2>2. ~(Forth(h) + 0 < p.amt)
    BY <1>4, <1>6, <2>1 DEF Short, After
  <2> HIDE DEF Forth
  <2> QED
    BY <1>3, <1>7, <2>2
<1> HIDE DEF Forth, a, p
<1> QED
  BY <1>3, <1>5, <1>6, <1>7, <1>8, <1>9
=============================================================================
